------------------------------- MODULE Server -------------------------------
(***************************************************************************)
(* The life of one process: serve of internal/mcpsrv/main.go, the two       *)
(* transports and drain of serve.go, warm and Close of the postgres source, *)
(* with the pool cache represented by what it promises (PoolPromise, which  *)
(* PoolCache implements).                                                  *)
(*                                                                         *)
(* A signal stops the process in bounded time although calls in flight do   *)
(* not hear of it.  drain runs the transport's stop and a timer side by     *)
(* side; over HTTP the stop has the same limit of its own, so two timers    *)
(* and the last answer race for what drain returns, and that decides        *)
(* whether the source is closed.                                           *)
(***************************************************************************)
CONSTANTS Calls,    \* tool calls the transport may have in flight at once
          Warmers,  \* clusters with pool.eagerInit
          Pools

ASSUME ServerAssumption == Calls \cap Warmers = {}

VARIABLES
    transport,   \* "stdio" or "http"
    configured,  \* the config loaded; a degraded start opens no pools
    signal,      \* SIGINT or SIGTERM has arrived
    gone,        \* "no", or what ended the transport: "client", "failure"
    phase,       \* "serving", "draining", "left" (serving is over), "closed", "exited"
    accepting,   \* the transport takes requests
    call,        \* call -> "idle", "arrived", "running"
    warmer,      \* warmer -> "waiting", "warming", "done"
    stop,        \* the transport's stop: "idle", "running", "stopped", "deadline", "error"
    expired,     \* the grace is over
    err,         \* what serving ended with
    code,        \* the exit status
    fresh, serving, retired, users, shut  \* the pools, see PoolPromise

Cache == INSTANCE PoolPromise WITH Users <- Calls \cup Warmers

process == <<transport, configured, signal, gone, phase, accepting, stop, expired, err, code>>
pools   == <<fresh, serving, retired, users, shut>>
vars    == <<process, call, warmer, pools>>

Alive == phase # "exited"

InFlight == {c \in Calls : call[c] # "idle"}

------------------------------------------------------------------------------
(* Calls and warmers *)

Arrive(c) ==
    /\ Alive /\ accepting
    /\ call[c] = "idle"
    /\ call' = [call EXCEPT ![c] = "arrived"]
    /\ UNCHANGED <<process, warmer, pools>>

\* inTx acquires a pool; a degraded start never gets there.
Begin(c) ==
    /\ Alive /\ configured
    /\ call[c] = "arrived"
    /\ \E p \in Pools : Cache!Take(c, p)
    /\ call' = [call EXCEPT ![c] = "running"]
    /\ UNCHANGED <<process, warmer>>

\* An answer without a pool: not configured, refused, or the cache is closed.
Refuse(c) ==
    /\ Alive
    /\ call[c] = "arrived"
    /\ call' = [call EXCEPT ![c] = "idle"]
    /\ UNCHANGED <<process, warmer, pools>>

Finish(c) ==
    /\ Alive
    /\ call[c] = "running"
    /\ \E p \in Pools : Cache!Give(c, p)
    /\ call' = [call EXCEPT ![c] = "idle"]
    /\ UNCHANGED <<process, warmer>>

Warm(w) ==
    /\ Alive /\ configured
    /\ warmer[w] = "waiting"
    /\ \E p \in Pools : Cache!Take(w, p)
    /\ warmer' = [warmer EXCEPT ![w] = "warming"]
    /\ UNCHANGED <<process, call>>

\* The cache is closed already, or the pool cannot be opened.
WarmFails(w) ==
    /\ Alive /\ configured
    /\ warmer[w] = "waiting"
    /\ warmer' = [warmer EXCEPT ![w] = "done"]
    /\ UNCHANGED <<process, call, pools>>

\* Pinged, or not reached: either way the pool stays in the cache.
Warmed(w) ==
    /\ Alive
    /\ warmer[w] = "warming"
    /\ \E p \in Pools : Cache!Give(w, p)
    /\ warmer' = [warmer EXCEPT ![w] = "done"]
    /\ UNCHANGED <<process, call>>

\* Pools retire and close on their own.
Tend ==
    /\ Alive
    /\ Cache!Retire \/ \E p \in Pools : Cache!ClosePool(p)
    /\ UNCHANGED <<process, call, warmer>>

------------------------------------------------------------------------------
(* Serving and draining *)

Signal ==
    /\ phase = "serving" /\ ~signal
    /\ signal' = TRUE
    /\ UNCHANGED <<transport, configured, gone, phase, accepting, stop, expired, err, code,
                   call, warmer, pools>>

\* The client closes the session, or the transport fails.
GoesAway ==
    /\ phase = "serving" /\ gone = "no"
    /\ gone' = "failure" \/ (transport = "stdio" /\ gone' = "client")
    /\ accepting' = FALSE
    /\ UNCHANGED <<transport, configured, signal, phase, stop, expired, err, code,
                   call, warmer, pools>>

\* Mistake: the session runs under the context of the signal.
SessionUnderSignal == gone # "no" \/ (transport = "stdio" /\ signal)

\* The signal does not end the session.
SessionOver == gone # "no"

\* Serving ends by itself; the select takes this or the signal when there are both.
Ended ==
    /\ phase = "serving" /\ SessionOver
    /\ phase' = "left"
    /\ err'   = IF gone = "failure" THEN "failure" ELSE "closing"
    /\ UNCHANGED <<transport, configured, signal, gone, accepting, stop, expired, code,
                   call, warmer, pools>>

Drain ==
    /\ phase = "serving" /\ signal
    /\ phase'     = "draining"
    /\ stop'      = "running"
    /\ accepting' = FALSE
    /\ UNCHANGED <<transport, configured, signal, gone, expired, err, code, call, warmer, pools>>

GraceExpires ==
    /\ phase = "draining" /\ ~expired
    /\ expired' = TRUE
    /\ UNCHANGED <<transport, configured, signal, gone, phase, accepting, stop, err, code,
                   call, warmer, pools>>

\* stop returns once nothing is in flight, with an error when the session or the listener
\* could not be closed; the Shutdown of an http.Server also when its own grace is over.
Stopped ==
    /\ phase = "draining" /\ stop = "running"
    /\ \/ InFlight = {} /\ stop' \in {"stopped", "error"}
       \/ transport = "http" /\ expired /\ stop' = "deadline"
    /\ UNCHANGED <<transport, configured, signal, gone, phase, accepting, expired, err, code,
                   call, warmer, pools>>

\* Mistake: the deadline of Shutdown is passed on as any other error.
DrainPassesOn == IF stop = "stopped" THEN "closing" ELSE "failure"

\* What drain makes of the result of stop: an error other than the deadline goes on as it is.
DrainResult ==
    CASE stop = "stopped"  -> "closing"
      [] stop = "deadline" -> "drainTimeout"
      [] OTHER             -> "failure"

\* Mistake: drain waits for stop alone.
DrainWaits == FALSE

DrainTimesOut ==
    /\ phase = "draining" /\ expired
    /\ phase' = "left"
    /\ err'   = "drainTimeout"
    /\ UNCHANGED <<transport, configured, signal, gone, accepting, stop, expired, code,
                   call, warmer, pools>>

Drained ==
    /\ phase = "draining" /\ stop \in {"stopped", "deadline", "error"}
    /\ phase' = "left"
    /\ err'   = DrainResult
    /\ UNCHANGED <<transport, configured, signal, gone, accepting, stop, expired, code,
                   call, warmer, pools>>

------------------------------------------------------------------------------
(* Leaving *)

\* Source.Close, which a process that leaves calls behind does not run.
Close ==
    /\ phase = "left" /\ err # "drainTimeout"
    /\ phase' = "closed"
    /\ IF configured THEN Cache!Shutdown ELSE UNCHANGED pools
    /\ UNCHANGED <<transport, configured, signal, gone, accepting, stop, expired, err, code,
                   call, warmer>>

IsShutdown(e) == e = "closing"

Exit ==
    /\ \/ phase = "left" /\ err = "drainTimeout" /\ code' = "ok"
       \/ phase = "closed" /\ code' = IF IsShutdown(err) THEN "ok" ELSE "failure"
    /\ phase' = "exited"
    /\ UNCHANGED <<transport, configured, signal, gone, accepting, stop, expired, err,
                   call, warmer, pools>>

------------------------------------------------------------------------------
Init ==
    /\ transport \in {"stdio", "http"}
    /\ configured \in BOOLEAN
    /\ signal = FALSE
    /\ gone = "no"
    /\ phase = "serving"
    /\ accepting = TRUE
    /\ call = [c \in Calls |-> "idle"]
    /\ warmer = [w \in Warmers |-> "waiting"]
    /\ stop = "idle"
    /\ expired = FALSE
    /\ err = "none"
    /\ code = "none"
    /\ Cache!Init

Next ==
    \/ \E c \in Calls : Arrive(c) \/ Begin(c) \/ Refuse(c) \/ Finish(c)
    \/ \E w \in Warmers : Warm(w) \/ WarmFails(w) \/ Warmed(w)
    \/ Tend
    \/ Signal \/ GoesAway \/ Ended \/ Drain \/ GraceExpires \/ Stopped \/ DrainTimesOut \/ Drained
    \/ Close \/ Exit

\* The main goroutine and the timer run; no call need ever finish.
Fairness ==
    /\ WF_vars(Drain) /\ WF_vars(Ended) /\ WF_vars(GraceExpires) /\ WF_vars(DrainTimesOut) /\ WF_vars(Drained)
    /\ WF_vars(Close) /\ WF_vars(Exit)

Spec     == Init /\ [][Next]_vars
FairSpec == Spec /\ Fairness

------------------------------------------------------------------------------
(* Safety *)

TypeOK ==
    /\ transport \in {"stdio", "http"}
    /\ configured \in BOOLEAN /\ signal \in BOOLEAN /\ accepting \in BOOLEAN /\ expired \in BOOLEAN
    /\ gone \in {"no", "client", "failure"}
    /\ phase \in {"serving", "draining", "left", "closed", "exited"}
    /\ call \in [Calls -> {"idle", "arrived", "running"}]
    /\ warmer \in [Warmers -> {"waiting", "warming", "done"}]
    /\ stop \in {"idle", "running", "stopped", "deadline", "error"}
    /\ err \in {"none", "closing", "failure", "drainTimeout"}
    /\ code \in {"none", "ok", "failure"}

\* After a drain the source is closed only when no call is left: whichever of the two
\* timers and the last answer comes first, it is not torn down under a call
\* (main.go:185-190, serve.go:94-102).
ClosedWhenQuiet == phase = "closed" /\ stop # "idle" => InFlight = {}

\* A call the process leaves behind was given the whole grace, unless the transport
\* had ended without being asked to (serve.go:26-28).
GraceIsGiven == phase \in {"left", "closed", "exited"} /\ InFlight # {} => expired \/ gone # "no"

\* A drain exits with failure when stop failed and drain took its result, and only then:
\* calls that outlive the grace are no failure, whichever timer or answer comes first
\* (serve.go:94-102, main.go:187-199).
FailsOnlyWithStop ==
    phase = "exited" /\ stop # "idle" =>
      \/ code = "failure" /\ stop = "error"
      \/ code = "ok" /\ (stop = "error" => expired)

------------------------------------------------------------------------------
(* Liveness *)

\* The process leaves after a signal although no call need ever end: over stdio no
\* cancellation reaches a handler (serve.go:84-88).
SignalEnds == signal ~> phase = "exited"

=============================================================================
