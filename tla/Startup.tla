------------------------------ MODULE Startup ------------------------------
(***************************************************************************)
(* Servers starting, --init and an operator at the same files: Resolve,     *)
(* Load and Init of internal/mcpsrv/config.go, serve of main.go up to the   *)
(* transport, and Registry.call.                                           *)
(*                                                                         *)
(* Nothing locks a file.  A start touches the file system four times: it    *)
(* resolves the path, asks whether the file is there (for the hint), reads  *)
(* it, and resolves again for the status tool.  --init asks whether the     *)
(* file is there and then opens it, truncating, and writes.  Whatever Load  *)
(* finds wrong ends in a degraded start, in which every call answers with   *)
(* the diagnosis; otherwise calls are served from the document read, and    *)
(* from it alone, until the process ends.                                  *)
(***************************************************************************)
EXTENDS Config

CONSTANTS
    Servers, Inits,  \* processes: servers, and runs with --init
    Paths, XdgPath, NoPath,
    Locations,       \* [flag, variable]: the paths an operator named, or NoPath
    Environs,        \* environments of a process: partial functions to Texts
    Documents,       \* what may be in a file; NoDocument: nothing was read
    NoDocument,
    Minimal,         \* the document --init writes
    Absent, Directory, Unreadable, Malformed,  \* what else may be at a path
    Torn,            \* a file opened for writing and not written yet
    Requests,        \* addresses calls name, known or not
    MaxEdits         \* bound on what the operator does to files

ReadOnly == <<Top, "readOnly">>

Read == Documents \cup {NoDocument}

Contents == Documents \cup {Absent, Directory, Unreadable, Malformed, Torn}

ASSUME StartupAssumption ==
    /\ XdgPath \in Paths /\ NoPath \notin Paths
    /\ Locations \subseteq [flag : Paths \cup {NoPath}, variable : Paths \cup {NoPath}]
    /\ \A environ \in Environs : \A v \in DOMAIN environ : environ[v] \in Texts
    /\ \A doc \in Documents : IsDocument(doc)
    /\ Minimal \in Documents /\ NoDocument \notin Documents
    /\ {Absent, Directory, Unreadable, Malformed, Torn} \cap Documents = {}
    /\ ReadOnly \in Fields
    /\ MaxEdits \in Nat

VARIABLES
    files,      \* path -> what is there
    edits,      \* how often the operator has touched a file
    location,   \* process -> its --config and environment variable
    environ,    \* server -> its environment
    phase,      \* server -> "off", "resolved", "checked", "loaded", "serving"
    path,       \* server -> the path Load settled on
    haveFile,   \* server -> there was a file when Load asked
    document,   \* server -> what Load read
    diagnosis,  \* server -> "none", or why the start is degraded
    inventory,  \* server -> address -> config
    shown,      \* server -> the path the status tool shows
    answer,     \* server -> its last answer
    touched,    \* server -> its file was changed after it began to start
    init        \* --init run -> "off", "checked", "opened", "done", "refused", "failed", "dead"

loads == <<document, diagnosis, inventory>>
vars == <<files, edits, location, environ, phase, path, haveFile, loads, shown, answer, touched, init>>

Processes == Servers \cup Inits

------------------------------------------------------------------------------
(* Paths *)

\* --config, else the environment variable.
NamedPath(l) == IF l.flag # NoPath THEN l.flag ELSE l.variable

InitPath(l) == IF NamedPath(l) # NoPath THEN NamedPath(l) ELSE XdgPath

FileExists(p) == files[p] \notin {Absent, Directory}

\* Mistake: a named file that is not there falls through to the default.
ResolveFallsThrough(l) ==
    IF NamedPath(l) # NoPath /\ FileExists(NamedPath(l)) THEN NamedPath(l)
    ELSE IF FileExists(XdgPath) THEN XdgPath ELSE NoPath

\* NoPath when no config file is found.
Resolve(l) ==
    IF NamedPath(l) # NoPath THEN NamedPath(l)
    ELSE IF FileExists(XdgPath) THEN XdgPath ELSE NoPath

\* The file at p changes under the servers that have begun to start with it.
Touches(p) ==
    touched' = [s \in Servers |->
        touched[s] \/ (phase[s] # "off" /\ InitPath(location[s]) = p)]

------------------------------------------------------------------------------
(* A server starts *)

LoadResolves(s) ==
    /\ phase[s] = "off"
    /\ path' = [path EXCEPT ![s] = Resolve(location[s])]
    /\ IF Resolve(location[s]) = NoPath
       THEN /\ phase' = [phase EXCEPT ![s] = "loaded"]
            /\ diagnosis' = [diagnosis EXCEPT ![s] = "none found"]
       ELSE /\ phase' = [phase EXCEPT ![s] = "resolved"]
            /\ UNCHANGED diagnosis
    /\ UNCHANGED <<files, edits, location, environ, haveFile, document, inventory, shown, answer,
                   touched, init>>

\* Mistake: only a file that can be read counts.
LoadChecksReading(s) ==
    /\ phase[s] = "resolved"
    /\ haveFile' = [haveFile EXCEPT ![s] = FileExists(path[s]) /\ files[path[s]] # Unreadable]
    /\ phase' = [phase EXCEPT ![s] = "checked"]
    /\ UNCHANGED <<files, edits, location, environ, path, loads, shown, answer, touched, init>>

LoadChecks(s) ==
    /\ phase[s] = "resolved"
    /\ haveFile' = [haveFile EXCEPT ![s] = FileExists(path[s])]
    /\ phase' = [phase EXCEPT ![s] = "checked"]
    /\ UNCHANGED <<files, edits, location, environ, path, loads, shown, answer, touched, init>>

\* What Load reports of a document.
Diagnosis(doc, e) ==
    IF DOMAIN doc.environments = {} THEN "no environments"
    ELSE IF Loads(doc, e) THEN "none" ELSE "unusable"

LoadReads(s) ==
    LET found == files[path[s]] IN
    /\ phase[s] = "checked"
    /\ phase' = [phase EXCEPT ![s] = "loaded"]
    /\ \/ /\ found \in {Absent, Directory, Unreadable}
          /\ diagnosis' = [diagnosis EXCEPT ![s] = "cannot be read"]
          /\ UNCHANGED <<document, inventory>>
       \/ /\ found \in {Malformed, Torn}
          /\ diagnosis' = [diagnosis EXCEPT ![s] = "malformed"]
          /\ UNCHANGED <<document, inventory>>
       \/ /\ found \in Documents
          /\ document' = [document EXCEPT ![s] = found]
          /\ diagnosis' = [diagnosis EXCEPT ![s] = Diagnosis(found, environ[s])]
          /\ inventory' = IF Diagnosis(found, environ[s]) = "none"
                          THEN [inventory EXCEPT ![s] = Inventory(found, environ[s])]
                          ELSE inventory
    /\ UNCHANGED <<files, edits, location, environ, path, haveFile, shown, answer, touched, init>>

\* Mistake: the path --init would take is shown, found or not.
ShowsInitPath(s) ==
    /\ phase[s] = "loaded"
    /\ shown' = [shown EXCEPT ![s] = InitPath(location[s])]
    /\ phase' = [phase EXCEPT ![s] = "serving"]
    /\ UNCHANGED <<files, edits, location, environ, path, haveFile, loads, answer, touched, init>>

\* serve resolves once more, to name the file; then tools are registered and calls come.
ResolvesAgain(s) ==
    /\ phase[s] = "loaded"
    /\ shown' = [shown EXCEPT ![s] = Resolve(location[s])]
    /\ phase' = [phase EXCEPT ![s] = "serving"]
    /\ UNCHANGED <<files, edits, location, environ, path, haveFile, loads, answer, touched, init>>

------------------------------------------------------------------------------
(* A server answers *)

\* Mistake: the degraded start forgets that a file can be all right and the address not.
ResultUnchecked(s, a, access) ==
    IF diagnosis[s] # "none" THEN "not configured"
    ELSE IF a \notin DOMAIN inventory[s] THEN "bad argument" ELSE "handled"

\* call: the degraded start, then the address, then whether it takes a write.
Result(s, a, access) ==
    IF diagnosis[s] # "none" THEN "not configured"
    ELSE IF a \notin DOMAIN inventory[s] THEN "bad argument"
    ELSE IF access = "write" /\ inventory[s][a][ReadOnly] = "true" THEN "denied"
    ELSE "handled"

Call(s, a, access) ==
    /\ phase[s] = "serving"
    /\ answer' = [answer EXCEPT ![s] =
                    [address |-> a, access |-> access, result |-> Result(s, a, access)]]
    /\ UNCHANGED <<files, edits, location, environ, phase, path, haveFile, loads, shown, touched, init>>

------------------------------------------------------------------------------
(* --init *)

InitChecks(i) ==
    /\ init[i] = "off"
    /\ init' = [init EXCEPT ![i] =
                  IF FileExists(InitPath(location[i])) THEN "refused" ELSE "checked"]
    /\ UNCHANGED <<files, edits, location, environ, phase, path, haveFile, loads, shown, answer, touched>>

\* WriteFile opens, creating or truncating; a directory or a file of somebody else's fails.
InitOpens(i) ==
    LET p == InitPath(location[i]) IN
    /\ init[i] = "checked"
    /\ IF files[p] \in {Directory, Unreadable}
       THEN /\ init' = [init EXCEPT ![i] = "failed"]
            /\ UNCHANGED <<files, touched>>
       ELSE /\ init' = [init EXCEPT ![i] = "opened"]
            /\ files' = [files EXCEPT ![p] = Torn]
            /\ Touches(p)
    /\ UNCHANGED <<edits, location, environ, phase, path, haveFile, loads, shown, answer>>

\* ... and writes.  What the operator did in between can be gone, be there still (the
\* file was replaced) or be mixed up with the document.
InitWrites(i) ==
    LET p == InitPath(location[i]) IN
    /\ init[i] = "opened"
    /\ init' = [init EXCEPT ![i] = "done"]
    /\ \/ /\ files[p] = Torn
          /\ files' = [files EXCEPT ![p] = Minimal]
       \/ /\ files[p] \in Documents \cup {Malformed}
          /\ \E c \in {files[p], Minimal, Malformed} : files' = [files EXCEPT ![p] = c]
       \/ /\ files[p] \notin Documents \cup {Malformed, Torn}
          /\ UNCHANGED files
    /\ Touches(p)
    /\ UNCHANGED <<edits, location, environ, phase, path, haveFile, loads, shown, answer>>

\* The process is killed.
InitDies(i) ==
    /\ init[i] \in {"checked", "opened"}
    /\ init' = [init EXCEPT ![i] = "dead"]
    /\ UNCHANGED <<files, edits, location, environ, phase, path, haveFile, loads, shown, answer, touched>>

------------------------------------------------------------------------------
(* The operator *)

Edit ==
    /\ edits < MaxEdits
    /\ edits' = edits + 1
    /\ \E p \in Paths, c \in Contents \ {Torn} :
         /\ files[p] # c
         /\ files' = [files EXCEPT ![p] = c]
         /\ Touches(p)
    /\ UNCHANGED <<location, environ, phase, path, haveFile, loads, shown, answer, init>>

------------------------------------------------------------------------------

NoAnswer == [address |-> <<Top, Top>>, access |-> "read", result |-> "none"]

Init ==
    /\ files \in [Paths -> {Absent}]
    /\ edits = 0
    /\ location \in [Processes -> Locations]
    /\ environ \in [Servers -> Environs]
    /\ phase = [s \in Servers |-> "off"]
    /\ path = [s \in Servers |-> NoPath]
    /\ haveFile = [s \in Servers |-> FALSE]
    /\ document = [s \in Servers |-> NoDocument]
    /\ diagnosis = [s \in Servers |-> "none"]
    /\ inventory = [s \in Servers |-> <<>>]
    /\ shown = [s \in Servers |-> NoPath]
    /\ answer = [s \in Servers |-> NoAnswer]
    /\ touched = [s \in Servers |-> FALSE]
    /\ init = [i \in Inits |-> "off"]

Start(s) == LoadResolves(s) \/ LoadChecks(s) \/ LoadReads(s) \/ ResolvesAgain(s)

Next ==
    \/ \E s \in Servers : Start(s)
    \/ \E s \in Servers, a \in Requests, access \in {"read", "write"} : Call(s, a, access)
    \/ \E i \in Inits : InitChecks(i) \/ InitOpens(i) \/ InitWrites(i) \/ InitDies(i)
    \/ Edit

Spec == Init /\ [][Next]_vars

------------------------------------------------------------------------------
(* Properties *)

Serves(s) == diagnosis[s] = "none" /\ phase[s] \in {"loaded", "serving"}

\* A config in force has a value for every setting: expanded, and there whatever the file
\* left out.
TypeOK ==
    /\ files \in [Paths -> Contents]
    /\ edits \in 0..MaxEdits
    /\ location \in [Processes -> Locations] /\ environ \in [Servers -> Environs]
    /\ phase \in [Servers -> {"off", "resolved", "checked", "loaded", "serving"}]
    /\ path \in [Servers -> Paths \cup {NoPath}] /\ shown \in [Servers -> Paths \cup {NoPath}]
    /\ haveFile \in [Servers -> BOOLEAN] /\ touched \in [Servers -> BOOLEAN]
    /\ document \in [Servers -> Read]
    /\ diagnosis \in [Servers -> {"none", "none found", "cannot be read", "malformed",
                                  "no environments", "unusable"}]
    /\ \A s \in Servers : \A a \in DOMAIN inventory[s] : inventory[s][a] \in [Fields -> Texts]
    /\ init \in [Inits -> {"off", "checked", "opened", "done", "refused", "failed", "dead"}]

\* "A literal secret ... would never reach a merged level to be caught there"
\* (config.go:305-307): a server serves from no file with a literal secret on any level,
\* overridden or not.
SecretsAreReferences == \A s \in Servers : Serves(s) => NoLiterals(document[s])

\* Every address of the file is served, and every setting there is what the lowest level
\* that speaks of it says, or the default: objects merge, values do not (cluster.go:81-83).
LowestLevelWins ==
    \A s \in Servers : Serves(s) =>
        /\ DOMAIN inventory[s] = Addresses(document[s])
        /\ \A a \in Addresses(document[s]), f \in Fields :
             inventory[s][a][f] = InForce(document[s], a, f, environ[s])

\* A start that read a document is degraded exactly if the document is unusable: one bad
\* address is enough, and what no address inherits is not (config.go:316-320).
DegradedWhenUnusable ==
    \A s \in Servers : document[s] # NoDocument =>
        (Serves(s) <=> Usable(document[s], environ[s]))

\* A call is answered as the file says, however it was merged: refused as a whole if the
\* file is unusable, at an unknown address, and for a write where readOnly is in force.
AnswersFollowTheFile ==
    \A s \in Servers :
        LET ans == answer[s]
            doc == document[s]
            usable == doc # NoDocument /\ Usable(doc, environ[s])
        IN  /\ ans.result = "not configured" => ~usable
            /\ ans.result = "bad argument" => usable /\ ans.address \notin Addresses(doc)
            /\ ans.result \in {"handled", "denied"} =>
                 /\ usable /\ ans.address \in Addresses(doc)
                 /\ (ans.result = "denied") <=>
                      /\ ans.access = "write"
                      /\ InForce(doc, ans.address, ReadOnly, environ[s]) = "true"

\* However files come and go under it, a start looks where --init would write and nowhere
\* else: a named path never falls through (config.go:158-162), and --init "cannot write where
\* the server would not read" (config.go:136-137).  If nobody disturbs it, it reads the
\* document that is there.
ReadsWhereInitWrites ==
    \A s \in Servers : phase[s] \in {"loaded", "serving"} =>
        LET found == files[InitPath(location[s])] IN
        /\ path[s] \in {InitPath(location[s]), NoPath}
        /\ NamedPath(location[s]) # NoPath => path[s] = NamedPath(location[s])
        /\ ~touched[s] => document[s] = IF found \in Documents THEN found ELSE NoDocument

\* A degraded start advises --init exactly if there is no file for it to refuse
\* (config.go:214-217), readable or not.
AdviceHelps ==
    \A s \in Servers : phase[s] \in {"loaded", "serving"} /\ diagnosis[s] # "none" /\ ~touched[s] =>
        (haveFile[s] <=> files[InitPath(location[s])] \notin {Absent, Directory})

\* The status tool names the file the server reads (main.go:161-163): a named one although
\* files change between the two times the path is resolved, the default if they do not.
ShowsWhatItRead ==
    \A s \in Servers : phase[s] = "serving" =>
        shown[s] = path[s] \/ (touched[s] /\ NamedPath(location[s]) = NoPath)

\* --init does not overwrite a file ("--init refuses to overwrite", config.go:216;
\* docs/adr/0002, line 29): files with something in them are changed by the operator only.
InitKeepsFiles ==
    [][\A p \in Paths : files[p] \notin {Absent, Directory, Torn} /\ files'[p] # files[p]
          => edits' # edits]_vars
=============================================================================
