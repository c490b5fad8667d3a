------------------------------ MODULE Launcher ------------------------------
(* plugins/postgres/bin/infra-mcp-postgres: build the version the manifest pins *)
(* once, keep no other, exec it. Any number of launchers run at once, on one    *)
(* cache directory and without a lock; an update of the plugin changes the      *)
(* manifest under them. `go install` and `rm` are children of the shell, and    *)
(* outlive it when it is killed. `go install` is external: it puts the binary   *)
(* of a version in place in one step, or fails.                                 *)
EXTENDS Integers, FiniteSets

CONSTANTS Launchers, Versions, None

ASSUME LauncherAssumption == None \notin Versions

VARIABLES
    manifest,   \* the version in plugin.json, or None
    cache,      \* the versions whose directory, with the binary in it, is in the cache
    pc,         \* of each launcher: the command it is at, or how it ended
    version,    \* the version it read
    stale,      \* what its loop has still to look at: the glob, expanded once
    \* For the properties:
    strays,     \* the versions in the cache whose build no loop followed to its end
    built       \* the launchers that built and came to their loop

vars == <<manifest, cache, pc, version, stale, strays, built>>

Init ==
    /\ manifest \in Versions \cup {None}
    /\ \E v \in Versions : cache \in {{}, {v}}
    /\ pc = [l \in Launchers |-> "idle"]
    /\ version = [l \in Launchers |-> None]
    /\ stale = [l \in Launchers |-> {}]
    /\ strays = {} /\ built = {}

\* An update of the plugin, or its undoing.
Update(v) ==
    /\ v # manifest
    /\ manifest' = v
    /\ UNCHANGED <<cache, pc, version, stale, strays, built>>

\* A manifest without a version ends the launcher.
ReadManifest(l) ==
    /\ pc[l] = "idle"
    /\ version' = [version EXCEPT ![l] = manifest]
    /\ pc' = [pc EXCEPT ![l] = IF manifest = None THEN "failed" ELSE "look"]
    /\ UNCHANGED <<manifest, cache, stale, strays, built>>

\* Is the binary there and executable?
Look(l) ==
    /\ pc[l] = "look"
    /\ pc' = [pc EXCEPT ![l] = IF version[l] \in cache THEN "exec" ELSE "install"]
    /\ UNCHANGED <<manifest, cache, version, stale, strays, built>>

Install(l) ==
    /\ pc[l] = "install"
    /\ cache' = cache \cup {version[l]}
    /\ pc' = [pc EXCEPT ![l] = "list"]
    /\ strays' = strays \ {version[l]}
    /\ built' = built \cup {l}
    /\ UNCHANGED <<manifest, version, stale>>

\* The release is not published yet, or there is no network.
InstallFails(l) ==
    /\ pc[l] = "install"
    /\ pc' = [pc EXCEPT ![l] = "failed"]
    /\ UNCHANGED <<manifest, cache, version, stale, strays, built>>

\* Mistake: the loop does not spare the version just built.
StaleAll(l, dirs) == dirs

\* The loop takes every directory but the launcher's own.
Stale(l, dirs) == dirs \ {version[l]}

\* The shell expands the glob.
List(l) ==
    /\ pc[l] = "list"
    /\ stale' = [stale EXCEPT ![l] = Stale(l, cache)]
    /\ pc' = [pc EXCEPT ![l] = "prune"]
    /\ UNCHANGED <<manifest, cache, version, strays, built>>

\* One turn of the loop; a directory that is gone by now is passed over.
Prune(l, v) ==
    /\ pc[l] = "prune" /\ v \in stale[l]
    /\ cache' = cache \ {v}
    /\ stale' = [stale EXCEPT ![l] = @ \ {v}]
    /\ strays' = strays \ {v}
    /\ UNCHANGED <<manifest, pc, version, built>>

\* What a launcher that ends in its loop leaves behind: the version it built.
Abandoned(l) == {version[l]} \cap cache

\* `rm -rf` fails, with the binary gone or not, and `set -e` ends the launcher there.
PruneFails(l, v) ==
    /\ pc[l] = "prune" /\ v \in stale[l] \cap cache
    /\ cache' \in {cache, cache \ {v}}
    /\ strays' = (strays \cup Abandoned(l)) \cap cache'
    /\ pc' = [pc EXCEPT ![l] = "failed"]
    /\ stale' = [stale EXCEPT ![l] = {}]
    /\ UNCHANGED <<manifest, version, built>>

\* Mistake: the loop ends at a directory that somebody else removed.
EndLoopAtGap(l) ==
    /\ pc[l] = "prune" /\ (stale[l] = {} \/ ~(stale[l] \subseteq cache))
    /\ pc' = [pc EXCEPT ![l] = "exec"]
    /\ UNCHANGED <<manifest, cache, version, stale, strays, built>>

EndLoop(l) ==
    /\ pc[l] = "prune" /\ stale[l] = {}
    /\ pc' = [pc EXCEPT ![l] = "exec"]
    /\ UNCHANGED <<manifest, cache, version, stale, strays, built>>

\* The binary runs from here on, whatever becomes of its name; or there is none.
Exec(l) ==
    /\ pc[l] = "exec"
    /\ pc' = [pc EXCEPT ![l] = IF version[l] \in cache THEN "running" ELSE "missing"]
    /\ UNCHANGED <<manifest, cache, version, stale, strays, built>>

Working(l) == pc[l] \in {"list", "prune"}

\* The client gives up waiting for the server and kills the launcher: the shell, and not
\* the command it waits for. A build goes on, and so does the `rm` of one directory.
Kill(l) ==
    /\ pc[l] \in {"look", "install", "list", "prune", "exec"}
    /\ pc' = [pc EXCEPT ![l] = IF pc[l] = "install" THEN "orphan" ELSE "killed"]
    /\ \E child \in {{}} \cup {{v} : v \in stale[l]} : stale' = [stale EXCEPT ![l] = child]
    /\ strays' = IF Working(l) THEN strays \cup Abandoned(l) ELSE strays
    /\ UNCHANGED <<manifest, cache, version, built>>

\* The build of a killed launcher gets its version in place, with no loop to follow.
OrphanInstalls(l) ==
    /\ pc[l] = "orphan"
    /\ cache' = cache \cup {version[l]}
    /\ strays' = strays \cup ({version[l]} \ cache)
    /\ pc' = [pc EXCEPT ![l] = "killed"]
    /\ UNCHANGED <<manifest, version, stale, built>>

OrphanFails(l) ==
    /\ pc[l] = "orphan"
    /\ pc' = [pc EXCEPT ![l] = "killed"]
    /\ UNCHANGED <<manifest, cache, version, stale, strays, built>>

\* The `rm` of a killed launcher gets to its end.
OrphanPrunes(l, v) ==
    /\ pc[l] = "killed" /\ v \in stale[l]
    /\ cache' = cache \ {v}
    /\ stale' = [stale EXCEPT ![l] = {}]
    /\ strays' = strays \ {v}
    /\ UNCHANGED <<manifest, pc, version, built>>

Launch(l) ==
    \/ ReadManifest(l) \/ Look(l) \/ Install(l) \/ InstallFails(l) \/ List(l)
    \/ \E v \in Versions : Prune(l, v) \/ PruneFails(l, v) \/ OrphanPrunes(l, v)
    \/ EndLoop(l) \/ Exec(l) \/ Kill(l) \/ OrphanInstalls(l) \/ OrphanFails(l)

Next == (\E v \in Versions \cup {None} : Update(v)) \/ \E l \in Launchers : Launch(l)

Spec == Init /\ [][Next]_vars

------------------------------------------------------------------------------
(* Safety *)

TypeOK ==
    /\ manifest \in Versions \cup {None}
    /\ cache \subseteq Versions
    /\ pc \in [Launchers -> {"idle", "look", "install", "list", "prune", "exec", "running", "missing", "failed",
                             "orphan", "killed"}]
    /\ version \in [Launchers -> Versions \cup {None}]
    /\ \A l \in Launchers : pc[l] \notin {"idle", "failed"} => version[l] \in Versions
    /\ stale \in [Launchers -> SUBSET Versions]
    /\ strays \subseteq cache
    /\ built \subseteq Launchers

\* "Keep one version: releases would otherwise pile up" (line 36): whenever no launcher is
\* between its build and the end of its loop, at most one version is in the cache,
\* however builds and loops interleaved - besides those whose build outlived its launcher
\* or whose launcher ended inside its loop, killed or at an `rm` that failed.
OneVersionLeft ==
    (\A l \in Launchers : ~Working(l)) => \A v, w \in cache \ strays : v = w

\* A launcher finds its binary gone only if one of another version had built: launchers of
\* one version never take it from each other (line 39), and killed ones from nobody else.
OnlyAnUpdateBreaksAStart ==
    \A l \in Launchers : pc[l] = "missing" =>
      \E m \in built : version[m] # version[l]
=============================================================================
