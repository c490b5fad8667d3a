-------------------------------- MODULE Lease --------------------------------
(***************************************************************************)
(* One tool call on one connection: inTx of internal/source/postgres/       *)
(* lease.go with the two handlers that send the model's own SQL, runQuery   *)
(* and execute of query.go.                                                *)
(*                                                                         *)
(* The client side is the code; the driver (pgx) and the server session are *)
(* external and modelled by what the code relies on.  A call sends one      *)
(* message per phase and waits for its answer; the server executes a        *)
(* message statement by statement and goes on doing so when the client has  *)
(* gone.  Time is counted in units: the call has ClientDeadline of them,    *)
(* and a limited statement QueryTimeout.                                   *)
(***************************************************************************)
EXTENDS Integers, Sequences

CONSTANTS Modes,         \* the tools called: "read", "write"
          Statements,    \* what a script is made of, among those below
          MaxScript,     \* bound: the longest script
          QueryTimeout,  \* timeouts.query, which Config.Validate keeps positive
          Margin         \* what ClientDeadline adds to it

\* "read" and "write" succeed, "bad" does not; three control transactions; "set" is SET
\* LOCAL statement_timeout = 0, and "set_config" a query that calls it to the same end.
ASSUME LeaseAssumption ==
    /\ Modes \subseteq {"read", "write"}
    /\ Statements \subseteq {"read", "write", "bad", "commit", "rollback", "begin",
                             "set", "set_config"}
    /\ MaxScript \in Nat
    /\ QueryTimeout \in Nat \ {0}
    /\ Margin \in Nat \ {0}

VARIABLES
    mode,     \* which kind of tool this is
    script,   \* the sql argument, as statements
    pc,       \* the phase of the call
    conn,     \* the connection: "none", "ready", "busy" (answer awaited), "dead"
    outcome,  \* what the call will answer, "none" until that is known
    asked,    \* Commit was called
    dropped,  \* the rollback outlived its grace
    elapsed,  \* units of the call's deadline used up
    job,      \* the phase whose message the server has
    at,       \* the next statement of that message
    reply,    \* the server's answer to it
    running,  \* units the statement under way has taken
    session,  \* the server session
    ended,    \* history: the script ended the transaction it was given
    lifted,   \* history: the script switched its own limit off
    overran   \* history: a statement of the script ran past QueryTimeout

client == <<mode, script, pc, conn, outcome, asked, dropped>>
server == <<job, at, reply, session, ended, lifted>>
vars   == <<client, server, elapsed, running, overran>>

ClientDeadline == QueryTimeout + Margin

Scripts == UNION {[1..n -> Statements] : n \in 0..MaxScript}

\* The statements that leave a transaction without a limit.
Lifting == {"set", "set_config"}

Writes == {i \in DOMAIN script : script[i] = "write"}

\* Mistake: the call runs without a deadline.
NoDeadline == TRUE

TimeIsLeft == elapsed < ClientDeadline

------------------------------------------------------------------------------
(* The messages *)

\* Mistake: the simple protocol, which runs every statement of the text.
EveryStatement(text) == text

\* The extended protocol carries one statement; the server refuses more.
OneStatement(text) == IF Len(text) = 1 THEN text ELSE <<"bad">>

\* DECLARE CURSOR plans the statement and leaves its effects to FETCH.
Declared(text) == [text EXCEPT ![1] = IF @ \in {"write", "set_config"} THEN "read" ELSE @]

\* Mistake: the limits are set before BEGIN, where SET LOCAL has no effect.
MessageTooEarly(phase) ==
    CASE phase = "begin"    -> <<"limit", "start">>
      [] phase = "script"   -> script
      [] phase = "commit"   -> <<"commit">>
      [] phase = "rollback" -> <<"rollback">>
      [] OTHER              -> <<>>

Message(phase) ==
    CASE phase = "begin"    -> <<"start">>
      [] phase = "limits"   -> <<"limit">>
      [] phase = "declare"  -> Declared(OneStatement(script))
      [] phase = "script"   -> IF mode = "read" THEN OneStatement(script) ELSE script
      [] phase = "commit"   -> <<"commit">>
      [] phase = "rollback" -> <<"rollback">>
      [] OTHER              -> <<>>

------------------------------------------------------------------------------
(* The server session *)

\* The transaction is over; what it set LOCAL and what it staged are gone.
Over(s) == [s EXCEPT !.tx = "I", !.readOnly = FALSE, !.limited = FALSE, !.staged = {}]

Committed(s) == [Over(s) EXCEPT !.durable = @ \cup s.staged]

\* An error leaves an open transaction failed; an implicit one is rolled back.
Aborted(s) == [s EXCEPT !.tx = IF @ = "I" THEN "I" ELSE "E", !.limited = FALSE, !.staged = {}]

Fails(s, op) ==
    \/ op = "bad"
    \/ (op = "write" /\ s.readOnly)
    \/ (s.tx = "E" /\ op \notin {"commit", "rollback"})

\* Outside a transaction the statements of one message form an implicit one: a
\* BEGIN turns it into an explicit one, COMMIT and ROLLBACK end it.
Effect(s, op, i) ==
    CASE op = "start"    -> [s EXCEPT !.tx = "T", !.readOnly = (mode = "read")]
      [] op = "begin"    -> [s EXCEPT !.tx = "T"]
      [] op = "limit"    -> [s EXCEPT !.limited = (s.tx = "T")]
      [] op \in Lifting  -> [s EXCEPT !.limited = FALSE]
      [] op = "write"    -> [s EXCEPT !.staged = @ \cup {i}]
      [] op = "commit"   -> IF s.tx = "E" THEN Over(s) ELSE Committed(s)
      [] op = "rollback" -> Over(s)
      [] OTHER           -> s

Working == job # "none" /\ reply = "none"

AtLimit == session.limited /\ running >= QueryTimeout

Executing == Working /\ at <= Len(Message(job))

\* The server carries out one statement.
Execute ==
    /\ Executing
    /\ LET op == Message(job)[at]
       IN  /\ ~Fails(session, op)
           /\ session' = Effect(session, op, at)
           /\ ended'   = (ended \/ (job = "script" /\ session.tx = "T" /\ session'.tx = "I"))
           /\ lifted'  = (lifted \/ (job = "script" /\ op \in Lifting))
    /\ at' = at + 1
    /\ running' = 0
    /\ UNCHANGED <<client, elapsed, job, reply, overran>>

\* What an error leaves: a COMMIT that fails has ended its transaction all the same.
Undo(op) ==
    /\ session' = IF op = "commit" THEN Over(session) ELSE Aborted(session)
    /\ ended'   = (ended \/ (job = "script" /\ op = "commit" /\ session.tx = "T"))
    /\ UNCHANGED <<client, elapsed, job, at, running, lifted, overran>>

\* A statement fails and the rest of its message is skipped: it is wrong, it writes
\* in a READ ONLY transaction, a deferred constraint fails the COMMIT, or a pooler
\* refuses BEGIN.
Refuse ==
    /\ Executing
    /\ LET op == Message(job)[at]
       IN  /\ Fails(session, op) \/ op = "start" \/ (op = "commit" /\ session.tx # "E")
           /\ reply' = IF op = "write" /\ session.tx = "T" THEN "denied" ELSE "failed"
           /\ Undo(op)

\* The limit of the transaction fires, or the driver's cancel request arrives.
Cancel ==
    /\ Executing
    /\ conn = "dead" \/ AtLimit
    /\ reply' = "canceled"
    /\ Undo(Message(job)[at])

\* Every statement is done: an implicit transaction commits, the answer goes out.
Finish ==
    /\ Working
    /\ at > Len(Message(job))
    /\ reply'   = "ok"
    /\ session' = IF session.tx = "I" THEN Committed(session) ELSE session
    /\ UNCHANGED <<client, elapsed, job, at, running, ended, lifted, overran>>

\* The server dies, and with it whatever was not committed.
Die ==
    /\ conn = "busy"
    /\ Working
    /\ reply'   = "lost"
    /\ session' = Over(session)
    /\ UNCHANGED <<client, elapsed, job, at, running, ended, lifted, overran>>

\* The server notices that the client hung up.
Hangup ==
    /\ conn = "dead"
    /\ ~Working
    /\ session.tx # "I"
    /\ session' = Over(session)
    /\ UNCHANGED <<client, elapsed, job, at, reply, running, ended, lifted, overran>>

------------------------------------------------------------------------------
(* The call *)

\* The phases that do not run under the deadline of the call.
Detached(phase) == phase = "rollback"

\* Waiting for a connection is part of sending BEGIN.
Send ==
    /\ conn = IF pc = "begin" THEN "none" ELSE "ready"
    /\ pc # "done"
    /\ Detached(pc) \/ TimeIsLeft
    /\ conn'    = "busy"
    /\ job'     = pc
    /\ at'      = 1
    /\ reply'   = "none"
    /\ running' = 0
    /\ asked'   = (asked \/ pc = "commit")
    /\ UNCHANGED <<mode, script, pc, outcome, dropped, elapsed, session, ended, lifted, overran>>

\* The server was never reached: ConnectError, and the pool is forgotten.
Unreachable ==
    /\ pc = "begin"
    /\ conn = "none"
    /\ outcome' = "unreachable"
    /\ pc'      = "done"
    /\ UNCHANGED <<mode, script, conn, asked, dropped, elapsed, server, running, overran>>

\* The deadline has passed before a message is sent.  A failed Commit or Rollback
\* drops a connection that is still in a transaction.
Late ==
    /\ conn \in {"none", "ready"}
    /\ pc # "done"
    /\ ~Detached(pc)
    /\ ~TimeIsLeft
    /\ outcome' = IF pc = "rollback" THEN outcome ELSE "late"
    /\ asked'   = (asked \/ pc = "commit")
    /\ conn'    = IF pc \in {"commit", "rollback"} /\ session.tx # "I" THEN "dead" ELSE conn
    /\ pc'      = IF pc \in {"begin", "commit", "rollback"} THEN "done" ELSE "rollback"
    /\ UNCHANGED <<mode, script, dropped, elapsed, server, running, overran>>

\* What a call answers with when o goes wrong with a message: a query that has read its
\* fill of rows has its answer, whatever becomes of the rest of the reply, and a rollback
\* does not change the one the call has.
Answers(o) ==
    CASE pc = "rollback" -> {outcome}
      [] pc = "script" /\ mode = "read" /\ Len(script) = 1 -> {o, "ok"}
      [] OTHER -> {o}

\* The deadline passes while an answer is awaited: the driver closes the connection.
Expire ==
    /\ conn = "busy"
    /\ ~Detached(pc)
    /\ ~TimeIsLeft
    /\ outcome' \in Answers("expired")
    /\ conn'    = "dead"
    /\ pc'      = "done"
    /\ UNCHANGED <<mode, script, asked, dropped, elapsed, server, running, overran>>

\* Mistake: nothing bounds the rollback.
RollbackWaits == FALSE

\* The rollback is not answered within rollbackGrace.
GraceExpires ==
    /\ conn = "busy"
    /\ Detached(pc)
    /\ dropped' = TRUE
    /\ conn'    = "dead"
    /\ pc'      = "done"
    /\ UNCHANGED <<mode, script, outcome, asked, elapsed, server, running, overran>>

\* The connection is gone in the middle of a message.
Lose ==
    /\ conn = "busy"
    /\ reply = "lost"
    /\ outcome' \in Answers("lost")
    /\ conn'    = "dead"
    /\ pc'      = "done"
    /\ UNCHANGED <<mode, script, asked, dropped, elapsed, server, running, overran>>

\* Mistake: a failed script leaves its answer half read, and the rollback that
\* follows finds the connection locked and drops it.
HalfRead == IF pc \in {"begin", "script"} THEN "dead" ELSE "ready"

\* What a server error leaves of the connection: the answer is read to its end, but
\* a BEGIN that failed takes the connection down with it.
ReadToTheEnd == IF pc = "begin" THEN "dead" ELSE "ready"

\* Mistake: only the happy path rolls back.
UnwindAtOnce == "done"

\* Mistake: a message that failed is sent again.
UnwindAgain == IF ReadToTheEnd = "dead" THEN "done" ELSE pc

\* Where a failed phase leads: to the deferred rollback, if there is one to do.
Unwind == IF pc = "commit" \/ ReadToTheEnd = "dead" THEN "done" ELSE "rollback"

\* Mistake: the error of Commit is dropped.
CommitErrorDropped == IF pc = "commit" THEN outcome ELSE reply

\* The error the call answers with.
Failure == reply

\* The phase failed with an error of the server's.
Fail ==
    /\ conn = "busy"
    /\ reply \in {"failed", "denied", "canceled"}
    /\ outcome' \in Answers(Failure)
    /\ conn'    = ReadToTheEnd
    /\ pc'      = Unwind
    /\ UNCHANGED <<mode, script, asked, dropped, elapsed, server, running, overran>>

Proceed(phase, answer) ==
    /\ conn = "busy"
    /\ reply = "ok"
    /\ conn'    = "ready"
    /\ pc'      = phase
    /\ outcome' = answer
    /\ UNCHANGED <<mode, script, asked, dropped, elapsed, server, running, overran>>

Begun == pc = "begin" /\ Proceed("limits", outcome)

\* The statements whose first keyword is that of a read.
Readable == {"read", "write", "bad", "set_config"}

\* Mistake: the deny list is forgotten.
KeywordOnly == mode = "read" /\ ~(script # <<>> /\ script[1] \in Readable)

\* guardRead looks at the first keyword of the text, and for a denied call in all of it;
\* its second lock, COPY PROGRAM, opens no statement that the first lets pass.
RefusedByGuard ==
    /\ mode = "read"
    /\ ~(/\ script # <<>>
         /\ script[1] \in Readable
         /\ \A i \in DOMAIN script : script[i] # "set_config")

Limited ==
    /\ pc = "limits"
    /\ \/ RefusedByGuard /\ Proceed("rollback", "refused")
       \/ ~RefusedByGuard /\ Proceed("script", outcome)
       \/ ~RefusedByGuard /\ mode = "read" /\ Proceed("declare", outcome)

CursorDeclared == pc = "declare" /\ Proceed("script", outcome)

Queried == pc = "script" /\ mode = "read" /\ Proceed("rollback", "ok")

\* Mistake: nobody looks at the status of the transaction.
Unnoticed == "ok"

\* execute reports a script that ended the transaction, by the status it left.
Report == IF session.tx = "T" THEN "ok" ELSE "noticed"

Executed ==
    /\ pc = "script"
    /\ mode = "write"
    /\ IF script = <<>> THEN Proceed("rollback", "empty") ELSE Proceed("commit", Report)

\* Commit and Rollback end the call; after a Commit the rollback does nothing.
Returned == pc \in {"commit", "rollback"} /\ Proceed("done", outcome)

Tick ==
    /\ pc \notin {"rollback", "done"}
    /\ TimeIsLeft
    /\ ~(Executing /\ AtLimit)
    /\ elapsed' = elapsed + 1
    /\ running' = IF Executing THEN running + 1 ELSE running
    /\ overran' = (overran \/ (Executing /\ job = "script" /\ running' > QueryTimeout))
    /\ UNCHANGED <<client, server>>

------------------------------------------------------------------------------
Fresh == [tx |-> "I", readOnly |-> FALSE, limited |-> FALSE, staged |-> {}, durable |-> {}]

Init ==
    /\ mode \in Modes
    /\ script \in Scripts
    /\ pc = "begin"
    /\ conn = "none"
    /\ outcome = "none"
    /\ asked = FALSE
    /\ dropped = FALSE
    /\ elapsed = 0
    /\ job = "none"
    /\ at = 1
    /\ reply = "none"
    /\ running = 0
    /\ session = Fresh
    /\ ended = FALSE
    /\ lifted = FALSE
    /\ overran = FALSE

Server == Execute \/ Refuse \/ Cancel \/ Finish \/ Die \/ Hangup

Answered == Begun \/ Limited \/ CursorDeclared \/ Queried \/ Executed \/ Returned \/ Fail \/ Lose

Next == Server \/ Answered \/ Send \/ Unreachable \/ Late \/ Expire \/ GraceExpires \/ Tick

\* Clocks run, the call reacts, and a server that has a limit keeps it; it need not
\* answer anything else.
Fairness ==
    /\ WF_vars(Cancel)
    /\ WF_vars(Tick) /\ WF_vars(Send) /\ WF_vars(Late) /\ WF_vars(Expire)
    /\ WF_vars(GraceExpires) /\ WF_vars(Answered)

Spec     == Init /\ [][Next]_vars
FairSpec == Spec /\ Fairness

------------------------------------------------------------------------------
(* Safety *)

Phases == {"begin", "limits", "declare", "script", "commit", "rollback"}

Sessions == [tx : {"I", "T", "E"}, readOnly : BOOLEAN, limited : BOOLEAN,
             staged : SUBSET Nat, durable : SUBSET Nat]

TypeOK ==
    /\ mode \in Modes
    /\ script \in Seq(Statements)
    /\ pc \in Phases \cup {"done"}
    /\ conn \in {"none", "ready", "busy", "dead"}
    /\ outcome \in {"none", "ok", "noticed", "empty", "refused", "unreachable", "failed",
                    "denied", "canceled", "late", "expired", "lost"}
    /\ asked \in BOOLEAN /\ dropped \in BOOLEAN /\ ended \in BOOLEAN
    /\ lifted \in BOOLEAN /\ overran \in BOOLEAN
    /\ elapsed \in 0..ClientDeadline /\ running \in 0..ClientDeadline
    /\ job \in Phases \cup {"none"}
    /\ at \in Nat \ {0}
    /\ reply \in {"none", "ok", "failed", "denied", "canceled", "lost"}
    /\ session \in Sessions

\* A read tool never changes anything, whatever the text it is given says behind
\* its first statement (lease.go:64-66, query.go:31-34).
ReadOnlyHolds == mode = "read" => session.durable = {}

\* No text makes a read tool run a statement past timeouts.query or switch that limit off
\* (lease.go:146-153, guard.go:69-71); a script of a write tool, which nobody looks into
\* (query.go:120), does so only after it ended its transaction or lifted the limit itself.
LimitHolds ==
    /\ mode = "read" => ~overran /\ ~lifted
    /\ overran => ended \/ lifted

\* A connection goes back to the pool outside any transaction, with nothing staged
\* and without the limits of the call that used it.
ReturnedClean ==
    pc = "done" /\ conn = "ready" => session.tx = "I" /\ ~session.limited /\ session.staged = {}

\* A connection is lost only to a server that did not answer - to the rest of a query
\* whose rows were enough, too - to a BEGIN that failed, or to a deadline that passed right
\* before Commit: a script that fails, and a deadline that passes between two messages,
\* leave it to the next call (query.go:52-54 and 121-124, lease.go:78-80).
ConnectionSurvives ==
    pc = "done" /\ conn = "dead" =>
      \/ outcome \in {"expired", "lost"} \/ dropped
      \/ reply = "lost"
      \/ job = "begin"
      \/ (asked /\ outcome = "late")
      \/ (mode = "read" /\ job = "script" /\ outcome = "ok" /\ ~TimeIsLeft)

\* A success without the notice means that every write of the script is durable and
\* was so in one transaction, and a notice that it was not in one - unless the script
\* opens a transaction of its own (query.go:150-159).
SuccessTellsTheTruth ==
    (pc = "done" /\ mode = "write" /\ \A i \in DOMAIN script : script[i] # "begin") =>
      /\ outcome = "ok" => session.durable = Writes /\ ~ended
      /\ outcome = "noticed" => ended

------------------------------------------------------------------------------
(* Liveness and refinement *)

\* Every call ends, even one the server never answers: its deadline bounds it, and
\* the grace bounds its rollback.
CallEnds == <>(pc = "done")

\* How far a call and its server are from rest: the phases ahead of it, with the message
\* of each still to be sent or not, then the statements the server has left, the
\* transaction it has open, and the time.
ToGo == [begin |-> 6, limits |-> 5, declare |-> 4, script |-> 3, commit |-> 2, rollback |-> 1, done |-> 0]

Ahead    == 2 * ToGo[pc] + (IF pc # "done" /\ conn # "busy" THEN 1 ELSE 0)
Unserved == IF Working THEN Len(Message(job)) + 2 - at ELSE 0
Open     == IF session.tx = "I" THEN 0 ELSE 1
Distance == (2 * MaxScript + 5) * Ahead + 2 * Unserved + Open + (ClientDeadline - elapsed)

\* Nothing is done twice: whatever fails or is late, every step of the call, of the server
\* and of the clock brings the call nearer to its end, so that none goes on for ever and
\* leaves no server at work for ever (lease.go:98-138).
CallAdvances == [][Distance' \in Nat /\ Distance' < Distance]_vars

ControlsTransactions == \E i \in DOMAIN script : script[i] \in {"commit", "rollback", "begin"}

\* The writes a call answers for: those of a write tool whose script leaves the
\* transaction to it.
AnswersFor == IF mode = "write" /\ ~ControlsTransactions THEN Writes ELSE {}

\* A call is atomic: it keeps CallPromise, with nothing durable for a read tool and
\* nothing promised about a script that controls transactions itself.
Promise == INSTANCE CallPromise WITH
    asked   <- AnswersFor,
    durable <- IF mode = "write" /\ ControlsTransactions THEN {} ELSE session.durable,
    answer  <- IF pc # "done" THEN "pending"
               ELSE IF outcome = "ok" THEN "success"
               ELSE IF asked /\ outcome \in {"expired", "lost"} THEN "doubt" ELSE "failure"

KeepsPromise == Promise!Spec

------------------------------------------------------------------------------
(* What the documentation says and the code does not do *)

\* "pg_write_execute reports it when the script closed the transaction itself"
\* (docs/adr/0001, line 73): when a script did and left something durable, its answer
\* carries the notice, be it a success or the error of a later statement.
ReportsTheEnd ==
    pc = "done" /\ ended /\ outcome \in {"ok", "noticed", "failed"} /\ session.durable # {} =>
      outcome = "noticed"

\* "its expiry is evidence, not just a timeout: a pooler between us and postgres may be
\* dropping statement_timeout" (errors.go:55-57): when the deadline of the call ends a
\* script amid its statements, one of them ran past timeouts.query.
ExpiryIsEvidence == outcome = "expired" /\ job = "script" /\ Executing /\ at > 1 => overran
=============================================================================
