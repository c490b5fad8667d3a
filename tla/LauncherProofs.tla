--------------------------- MODULE LauncherProofs ---------------------------
(***************************************************************************)
(* Proofs about Launcher, for any number of launchers and versions.         *)
(***************************************************************************)
EXTENDS Launcher, TLAPS

\* One of two versions will still go: the launcher that built the other has yet to expand
\* its glob, or holds it in what it expanded.
Resolved(v, w) ==
    \E l \in Launchers : \/ pc[l] = "list" /\ version[l] \in {v, w}
                         \/ pc[l] = "prune" /\ version[l] = v /\ w \in stale[l]
                         \/ pc[l] = "prune" /\ version[l] = w /\ v \in stale[l]

\* A launcher of another version has built.
Rivalled(l) == \E m \in built : version[m] # version[l]

Bookkeeping ==
    \A l \in Launchers : /\ pc[l] = "idle" => version[l] = None /\ l \notin built
                         /\ stale[l] # {} => pc[l] \in {"prune", "killed"} /\ l \in built
                         /\ pc[l] \in {"list", "prune"} => l \in built
                         /\ version[l] \notin stale[l]

OneWillGo == \A v, w \in cache \ strays : v # w => Resolved(v, w)

KeptUnlessRivalled ==
    \A l \in Launchers : /\ pc[l] \in {"list", "prune", "exec"} => version[l] \in cache \/ Rivalled(l)
                         /\ pc[l] = "missing" => Rivalled(l)

LauncherInv == TypeOK /\ Bookkeeping /\ OneWillGo /\ KeptUnlessRivalled

------------------------------------------------------------------------------
(* Each action *)

\* A rival stays one: a launcher that built keeps its version.
LEMMA RivalsStay ==
    ASSUME TypeOK, Bookkeeping, built \subseteq built',
           \A m \in Launchers : pc[m] # "idle" => version'[m] = version[m],
           NEW l \in Launchers, version'[l] = version[l], Rivalled(l)
    PROVE  Rivalled(l)'
<1>1. PICK m \in built : version[m] # version[l]
  BY DEF Rivalled
<1>2. version'[m] = version[m] /\ m \in built'
  BY <1>1 DEF Bookkeeping, TypeOK
<1> QED BY <1>1, <1>2 DEF Rivalled

LEMMA InvInit == Init => LauncherInv
<1> SUFFICES ASSUME Init PROVE LauncherInv
  OBVIOUS
<1> USE DEF Init
<1>1. TypeOK
  BY DEF TypeOK
<1>2. Bookkeeping
  BY DEF Bookkeeping
<1>3. OneWillGo
  BY DEF OneWillGo
<1>4. KeptUnlessRivalled
  BY DEF KeptUnlessRivalled
<1> QED BY <1>1, <1>2, <1>3, <1>4 DEF LauncherInv

LEMMA TypeNext == TypeOK /\ [Next]_vars => TypeOK'
<1> SUFFICES ASSUME TypeOK, [Next]_vars PROVE TypeOK'
  OBVIOUS
<1> USE DEF TypeOK
<1>1. ASSUME NEW v \in Versions \cup {None}, Update(v) PROVE TypeOK'
  BY <1>1 DEF Update
<1>2. ASSUME NEW l \in Launchers, ReadManifest(l) PROVE TypeOK'
  BY <1>2 DEF ReadManifest
<1>3. ASSUME NEW l \in Launchers, Look(l) PROVE TypeOK'
  BY <1>3 DEF Look
<1>4. ASSUME NEW l \in Launchers, Install(l) PROVE TypeOK'
  BY <1>4 DEF Install
<1>5. ASSUME NEW l \in Launchers, InstallFails(l) PROVE TypeOK'
  BY <1>5 DEF InstallFails
<1>6. ASSUME NEW l \in Launchers, List(l) PROVE TypeOK'
  BY <1>6 DEF List, Stale
<1>7. ASSUME NEW l \in Launchers, NEW u \in Versions, Prune(l, u) PROVE TypeOK'
  BY <1>7 DEF Prune
<1>8. ASSUME NEW l \in Launchers, NEW u \in Versions, PruneFails(l, u) PROVE TypeOK'
  BY <1>8 DEF PruneFails, Abandoned
<1>9. ASSUME NEW l \in Launchers, EndLoop(l) PROVE TypeOK'
  BY <1>9 DEF EndLoop
<1>10. ASSUME NEW l \in Launchers, Exec(l) PROVE TypeOK'
  BY <1>10 DEF Exec
<1>11. ASSUME NEW l \in Launchers, Kill(l) PROVE TypeOK'
  BY <1>11 DEF Kill, Abandoned
<1>12. ASSUME NEW l \in Launchers, OrphanInstalls(l) PROVE TypeOK'
  BY <1>12 DEF OrphanInstalls
<1>13. ASSUME NEW l \in Launchers, OrphanFails(l) PROVE TypeOK'
  BY <1>13 DEF OrphanFails
<1>14. ASSUME NEW l \in Launchers, NEW u \in Versions, OrphanPrunes(l, u) PROVE TypeOK'
  BY <1>14 DEF OrphanPrunes
<1>15. CASE UNCHANGED vars
  BY <1>15 DEF vars
<1> QED BY <1>1, <1>2, <1>3, <1>4, <1>5, <1>6, <1>7, <1>8, <1>9, <1>10, <1>11, <1>12, <1>13, <1>14, <1>15 DEF Next, Launch

LEMMA BookkeepingNext == TypeOK /\ Bookkeeping /\ [Next]_vars => Bookkeeping'
<1> SUFFICES ASSUME TypeOK, Bookkeeping, [Next]_vars PROVE Bookkeeping'
  OBVIOUS
<1> USE DEF TypeOK, Bookkeeping
<1>1. ASSUME NEW v \in Versions \cup {None}, Update(v) PROVE Bookkeeping'
  BY <1>1 DEF Update
<1>2. ASSUME NEW l \in Launchers, ReadManifest(l) PROVE Bookkeeping'
  BY <1>2 DEF ReadManifest
<1>3. ASSUME NEW l \in Launchers, Look(l) PROVE Bookkeeping'
  BY <1>3 DEF Look
<1>4. ASSUME NEW l \in Launchers, Install(l) PROVE Bookkeeping'
  BY <1>4 DEF Install
<1>5. ASSUME NEW l \in Launchers, InstallFails(l) PROVE Bookkeeping'
  BY <1>5 DEF InstallFails
<1>6. ASSUME NEW l \in Launchers, List(l) PROVE Bookkeeping'
  BY <1>6 DEF List, Stale
<1>7. ASSUME NEW l \in Launchers, NEW u \in Versions, Prune(l, u) PROVE Bookkeeping'
  BY <1>7 DEF Prune
<1>8. ASSUME NEW l \in Launchers, NEW u \in Versions, PruneFails(l, u) PROVE Bookkeeping'
  BY <1>8 DEF PruneFails, Abandoned
<1>9. ASSUME NEW l \in Launchers, EndLoop(l) PROVE Bookkeeping'
  BY <1>9 DEF EndLoop
<1>10. ASSUME NEW l \in Launchers, Exec(l) PROVE Bookkeeping'
  BY <1>10 DEF Exec
<1>11. ASSUME NEW l \in Launchers, Kill(l) PROVE Bookkeeping'
  BY <1>11 DEF Kill, Abandoned
<1>12. ASSUME NEW l \in Launchers, OrphanInstalls(l) PROVE Bookkeeping'
  BY <1>12 DEF OrphanInstalls
<1>13. ASSUME NEW l \in Launchers, OrphanFails(l) PROVE Bookkeeping'
  BY <1>13 DEF OrphanFails
<1>14. ASSUME NEW l \in Launchers, NEW u \in Versions, OrphanPrunes(l, u) PROVE Bookkeeping'
  BY <1>14 DEF OrphanPrunes
<1>15. CASE UNCHANGED vars
  BY <1>15 DEF vars
<1> QED BY <1>1, <1>2, <1>3, <1>4, <1>5, <1>6, <1>7, <1>8, <1>9, <1>10, <1>11, <1>12, <1>13, <1>14, <1>15 DEF Next, Launch

\* A build adds a version with its loop still to come; the loop takes one of any two
\* versions out of the cache before it ends, or leaves its own astray.
LEMMA OneWillGoNext == TypeOK /\ Bookkeeping /\ OneWillGo /\ [Next]_vars => OneWillGo'
<1> SUFFICES ASSUME TypeOK, Bookkeeping, OneWillGo, [Next]_vars,
                    NEW v \in cache' \ strays', NEW w \in cache' \ strays', v # w
             PROVE  Resolved(v, w)'
  BY DEF OneWillGo
<1> USE DEF TypeOK
\* A step that adds no version and lets no launcher out of its loop, unless its own is
\* astray or it has nothing left to look at.
<1>0. ASSUME cache' \ strays' \subseteq cache \ strays, NEW k \in Launchers, version'[k] = version[k] \/ pc[k] = "idle",
             \A l \in Launchers \ {k} : pc'[l] = pc[l] /\ stale'[l] = stale[l] /\ version'[l] = version[l],
             \/ pc[k] \notin {"list", "prune"}
             \/ pc'[k] = pc[k] /\ stale[k] \cap cache' \subseteq stale'[k]
             \/ pc[k] = "prune" /\ stale[k] = {}
             \/ version[k] \notin cache' \ strays'
      PROVE  Resolved(v, w)'
  <2>1. PICK l \in Launchers : \/ pc[l] = "list" /\ version[l] \in {v, w}
                               \/ pc[l] = "prune" /\ version[l] = v /\ w \in stale[l]
                               \/ pc[l] = "prune" /\ version[l] = w /\ v \in stale[l]
    BY <1>0 DEF OneWillGo, Resolved
  <2>2. CASE l = k
    BY <1>0, <2>1, <2>2 DEF Resolved
  <2>3. CASE l # k
    BY <1>0, <2>1, <2>3 DEF Resolved
  <2> QED BY <2>2, <2>3
<1>1. ASSUME NEW u \in Versions \cup {None}, Update(u) PROVE Resolved(v, w)'
  BY <1>1 DEF Update, OneWillGo, Resolved
<1>2. ASSUME NEW l \in Launchers, ReadManifest(l) PROVE Resolved(v, w)'
  BY <1>0, <1>2 DEF ReadManifest
<1>3. ASSUME NEW l \in Launchers, Look(l) PROVE Resolved(v, w)'
  BY <1>0, <1>3 DEF Look
<1>4. ASSUME NEW l \in Launchers, Install(l) PROVE Resolved(v, w)'
  <2>1. CASE version[l] \in {v, w}
    BY <1>4, <2>1 DEF Install, Resolved
  <2>2. CASE version[l] \notin {v, w}
    <3>1. PICK k \in Launchers : \/ pc[k] = "list" /\ version[k] \in {v, w}
                                 \/ pc[k] = "prune" /\ version[k] = v /\ w \in stale[k]
                                 \/ pc[k] = "prune" /\ version[k] = w /\ v \in stale[k]
      BY <1>4, <2>2 DEF Install, OneWillGo, Resolved
    <3> QED BY <1>4, <3>1 DEF Install, Resolved
  <2> QED BY <2>1, <2>2
<1>5. ASSUME NEW l \in Launchers, InstallFails(l) PROVE Resolved(v, w)'
  BY <1>0, <1>5 DEF InstallFails
<1>6. ASSUME NEW l \in Launchers, List(l) PROVE Resolved(v, w)'
  <2>1. PICK k \in Launchers : \/ pc[k] = "list" /\ version[k] \in {v, w}
                               \/ pc[k] = "prune" /\ version[k] = v /\ w \in stale[k]
                               \/ pc[k] = "prune" /\ version[k] = w /\ v \in stale[k]
    BY <1>6 DEF List, OneWillGo, Resolved
  <2>2. CASE k = l
    BY <1>6, <2>1, <2>2 DEF List, Stale, Resolved
  <2>3. CASE k # l
    BY <1>6, <2>1, <2>3 DEF List, Resolved
  <2> QED BY <2>2, <2>3
<1>7. ASSUME NEW l \in Launchers, NEW u \in Versions, Prune(l, u) PROVE Resolved(v, w)'
  BY <1>0, <1>7 DEF Prune
<1>8. ASSUME NEW l \in Launchers, NEW u \in Versions, PruneFails(l, u) PROVE Resolved(v, w)'
  <2>1. cache' \ strays' \subseteq cache \ strays /\ version[l] \notin cache' \ strays'
    BY <1>8 DEF PruneFails, Abandoned
  <2> QED BY <1>0, <1>8, <2>1 DEF PruneFails
<1>9. ASSUME NEW l \in Launchers, EndLoop(l) PROVE Resolved(v, w)'
  BY <1>0, <1>9 DEF EndLoop
<1>10. ASSUME NEW l \in Launchers, Exec(l) PROVE Resolved(v, w)'
  BY <1>0, <1>10 DEF Exec
<1>11. ASSUME NEW l \in Launchers, Kill(l) PROVE Resolved(v, w)'
  <2>1. /\ cache' \ strays' \subseteq cache \ strays
        /\ pc[l] \in {"list", "prune"} => version[l] \notin cache' \ strays'
    BY <1>11 DEF Kill, Abandoned, Working
  <2>2. \A k \in Launchers \ {l} : pc'[k] = pc[k] /\ stale'[k] = stale[k] /\ version'[k] = version[k]
    BY <1>11 DEF Kill
  <2> QED BY <1>0, <1>11, <2>1, <2>2 DEF Kill
<1>12. ASSUME NEW l \in Launchers, OrphanInstalls(l) PROVE Resolved(v, w)'
  <2>1. cache' \ strays' \subseteq cache \ strays
    BY <1>12 DEF OrphanInstalls
  <2> QED BY <1>0, <1>12, <2>1 DEF OrphanInstalls
<1>13. ASSUME NEW l \in Launchers, OrphanFails(l) PROVE Resolved(v, w)'
  BY <1>0, <1>13 DEF OrphanFails
<1>14. ASSUME NEW l \in Launchers, NEW u \in Versions, OrphanPrunes(l, u) PROVE Resolved(v, w)'
  BY <1>0, <1>14 DEF OrphanPrunes
<1>15. CASE UNCHANGED vars
  BY <1>15 DEF vars, OneWillGo, Resolved
<1> QED BY <1>1, <1>2, <1>3, <1>4, <1>5, <1>6, <1>7, <1>8, <1>9, <1>10, <1>11, <1>12, <1>13, <1>14, <1>15 DEF Next, Launch

\* Only the loop of a launcher of another version takes a version away.
LEMMA KeptNext == TypeOK /\ Bookkeeping /\ KeptUnlessRivalled /\ [Next]_vars => KeptUnlessRivalled'
<1> SUFFICES ASSUME TypeOK, Bookkeeping, KeptUnlessRivalled, [Next]_vars,
                    NEW l \in Launchers
             PROVE  /\ pc'[l] \in {"list", "prune", "exec"} => version'[l] \in cache' \/ Rivalled(l)'
                    /\ pc'[l] = "missing" => Rivalled(l)'
  BY DEF KeptUnlessRivalled, Rivalled
<1> DEFINE Goal == /\ pc'[l] \in {"list", "prune", "exec"} => version'[l] \in cache' \/ Rivalled(l)'
                   /\ pc'[l] = "missing" => Rivalled(l)'
<1> USE DEF TypeOK
\* A step of one launcher that takes nothing from the cache.
<1>0. ASSUME NEW k \in Launchers, version' = version, cache \subseteq cache', built \subseteq built',
             \A m \in Launchers \ {k} : pc'[m] = pc[m],
             pc'[k] \in {"list", "prune", "exec"} => pc[k] \in {"list", "prune", "exec"} \/ version[k] \in cache',
             pc'[k] = "missing" => pc[k] = "exec" /\ version[k] \notin cache
      PROVE  Goal
  <2>1. Rivalled(l) => Rivalled(l)'
    BY <1>0, RivalsStay
  <2> QED BY <1>0, <2>1 DEF KeptUnlessRivalled
\* A step that takes one version away, out of the loop of a launcher that spares its own.
<1>00. ASSUME NEW k \in Launchers, NEW u \in stale[k], cache \ {u} \subseteq cache',
              version' = version, built' = built,
              \A m \in Launchers \ {k} : pc'[m] = pc[m],
              pc'[k] = pc[k] \/ pc'[k] = "failed"
       PROVE  Goal
  <2>1. Rivalled(l) => Rivalled(l)'
    BY <1>00, RivalsStay
  <2>2. version[l] = u => Rivalled(l)'
    BY <1>00 DEF Bookkeeping, Rivalled
  <2> QED BY <1>00, <2>1, <2>2 DEF KeptUnlessRivalled
<1>1. ASSUME NEW u \in Versions \cup {None}, Update(u) PROVE Goal
  BY <1>1 DEF Update, KeptUnlessRivalled, Rivalled
<1>2. ASSUME NEW k \in Launchers, ReadManifest(k) PROVE Goal
  <2>1. CASE l = k
    BY <1>2, <2>1 DEF ReadManifest
  <2>2. CASE l # k
    <3>1. Rivalled(l) => Rivalled(l)'
      BY <1>2, <2>2, RivalsStay DEF ReadManifest
    <3> QED BY <1>2, <2>2, <3>1 DEF ReadManifest, KeptUnlessRivalled
  <2> QED BY <2>1, <2>2
<1>3. ASSUME NEW k \in Launchers, Look(k) PROVE Goal
  BY <1>0, <1>3 DEF Look
<1>4. ASSUME NEW k \in Launchers, Install(k) PROVE Goal
  BY <1>0, <1>4 DEF Install
<1>5. ASSUME NEW k \in Launchers, InstallFails(k) PROVE Goal
  BY <1>0, <1>5 DEF InstallFails
<1>6. ASSUME NEW k \in Launchers, List(k) PROVE Goal
  BY <1>0, <1>6 DEF List
<1>7. ASSUME NEW k \in Launchers, NEW u \in Versions, Prune(k, u) PROVE Goal
  BY <1>00, <1>7 DEF Prune
<1>8. ASSUME NEW k \in Launchers, NEW u \in Versions, PruneFails(k, u) PROVE Goal
  BY <1>00, <1>8 DEF PruneFails
<1>9. ASSUME NEW k \in Launchers, EndLoop(k) PROVE Goal
  BY <1>0, <1>9 DEF EndLoop
<1>10. ASSUME NEW k \in Launchers, Exec(k) PROVE Goal
  BY <1>0, <1>10 DEF Exec
<1>11. ASSUME NEW k \in Launchers, Kill(k) PROVE Goal
  BY <1>0, <1>11 DEF Kill
<1>12. ASSUME NEW k \in Launchers, OrphanInstalls(k) PROVE Goal
  BY <1>0, <1>12 DEF OrphanInstalls
<1>13. ASSUME NEW k \in Launchers, OrphanFails(k) PROVE Goal
  BY <1>0, <1>13 DEF OrphanFails
<1>14. ASSUME NEW k \in Launchers, NEW u \in Versions, OrphanPrunes(k, u) PROVE Goal
  BY <1>00, <1>14 DEF OrphanPrunes
<1>15. CASE UNCHANGED vars
  BY <1>15 DEF vars, KeptUnlessRivalled, Rivalled
<1> QED BY <1>1, <1>2, <1>3, <1>4, <1>5, <1>6, <1>7, <1>8, <1>9, <1>10, <1>11, <1>12, <1>13, <1>14, <1>15 DEF Next, Launch

------------------------------------------------------------------------------
(* Theorems *)

\* The invariant of the launchers holds in every behaviour.
THEOREM SpecInv == Spec => []LauncherInv
<1>1. LauncherInv /\ [Next]_vars => LauncherInv'
  BY TypeNext, BookkeepingNext, OneWillGoNext, KeptNext DEF LauncherInv
<1> QED BY InvInit, <1>1, PTL DEF Spec

\* Every variable of the launchers keeps its type.
THEOREM TypeCorrect == Spec => []TypeOK
<1>1. LauncherInv => TypeOK
  BY DEF LauncherInv
<1> QED BY SpecInv, <1>1, PTL

\* However many launchers of however many versions interleave and are killed, one version is
\* left when all loops have ended, besides those whose build no loop followed to its end.
THEOREM OneVersionIsLeft == Spec => []OneVersionLeft
<1>1. LauncherInv => OneVersionLeft
  BY DEF LauncherInv, OneWillGo, Resolved, OneVersionLeft, Working
<1> QED BY SpecInv, <1>1, PTL

\* However many launchers of one version start at once, none takes the binary of another.
THEOREM LaunchersOfOneVersionAgree == Spec => []OnlyAnUpdateBreaksAStart
<1>1. LauncherInv => OnlyAnUpdateBreaksAStart
  BY DEF LauncherInv, KeptUnlessRivalled, Rivalled, OnlyAnUpdateBreaksAStart
<1> QED BY SpecInv, <1>1, PTL
=============================================================================
