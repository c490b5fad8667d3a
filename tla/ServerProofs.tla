----------------------------- MODULE ServerProofs -----------------------------
(***************************************************************************)
(* Server, for any number of calls, warmers and pools.  The argument: once *)
(* a drain has begun nothing new arrives, so what stop saw is still true   *)
(* when the source is closed; and every way out of the drain but the return *)
(* of a stop that found nothing in flight carries the error that keeps the *)
(* source open.                                                            *)
(***************************************************************************)
EXTENDS Server, TLAPS

Over == {"left", "closed", "exited"}

\* Requests are accepted until the drain begins or the transport ends.
AcceptsWhileServing == accepting => phase = "serving" /\ gone = "no"

\* What stop has found out holds from then on.
StopIsRight ==
    /\ phase = "serving" => stop = "idle"
    /\ phase = "draining" => stop # "idle"
    /\ stop \in {"stopped", "error"} => InFlight = {}
    /\ stop = "deadline" => expired

\* How serving ended: by itself, with what stop returned, or with the grace over.
EndIsKnown ==
    phase \in Over =>
      \/ stop = "idle" /\ gone # "no" /\ err \in {"closing", "failure"}
      \/ stop = "stopped" /\ err = "closing"
      \/ stop = "error" /\ err = "failure"
      \/ stop # "idle" /\ err = "drainTimeout" /\ expired

ExitIsKnown ==
    /\ phase = "closed" => err # "drainTimeout"
    /\ FailsOnlyWithStop

ServerInv ==
    /\ TypeOK
    /\ AcceptsWhileServing
    /\ StopIsRight
    /\ EndIsKnown
    /\ ExitIsKnown

LEMMA InitInv == Init => ServerInv
BY DEF Init, ServerInv, TypeOK, AcceptsWhileServing, StopIsRight, EndIsKnown, ExitIsKnown,
       FailsOnlyWithStop, InFlight, Over

\* The steps of calls and warmers leave the process alone, and a call only arrives
\* while requests are accepted.
LEMMA CallsKeepInv ==
    ASSUME ServerInv,
           \/ \E c \in Calls : Arrive(c) \/ Begin(c) \/ Refuse(c) \/ Finish(c)
           \/ \E w \in Warmers : Warm(w) \/ WarmFails(w) \/ Warmed(w)
           \/ Tend
    PROVE  ServerInv'
<1> USE DEF ServerInv
<1>1. /\ UNCHANGED process
      /\ call' \in [Calls -> {"idle", "arrived", "running"}]
      /\ warmer' \in [Warmers -> {"waiting", "warming", "done"}]
  BY DEF TypeOK, Arrive, Begin, Refuse, Finish, Warm, WarmFails, Warmed, Tend
<1>2. stop \in {"stopped", "error"} => InFlight' = {}
  <2> SUFFICES ASSUME stop \in {"stopped", "error"} PROVE InFlight' = {}
    OBVIOUS
  <2>1. ~accepting /\ InFlight = {}
    BY DEF StopIsRight, AcceptsWhileServing, TypeOK, Over
  <2>2. \A c \in Calls : call[c] = "idle"
    BY <2>1 DEF InFlight
  <2>3. call' = call
    BY <2>1, <2>2 DEF Arrive, Begin, Refuse, Finish, Warm, WarmFails, Warmed, Tend
  <2> QED
    BY <2>1, <2>3 DEF InFlight
<1> QED
  BY <1>1, <1>2 DEF process, TypeOK, AcceptsWhileServing, StopIsRight, EndIsKnown, ExitIsKnown,
                    FailsOnlyWithStop, Over

\* The steps of the process itself move no call.
LEMMA ProcessKeepsInv ==
    ASSUME ServerInv,
           \/ Signal \/ GoesAway \/ Ended \/ Drain \/ GraceExpires \/ Stopped
           \/ DrainTimesOut \/ Drained \/ Close \/ Exit
    PROVE  ServerInv'
<1> USE DEF ServerInv, TypeOK, AcceptsWhileServing, StopIsRight, EndIsKnown, ExitIsKnown,
            FailsOnlyWithStop, Over
<1>1. InFlight' = InFlight
  BY DEF InFlight, Signal, GoesAway, Ended, Drain, GraceExpires, Stopped, DrainTimesOut, Drained,
         Close, Exit
<1>2. CASE Signal
  BY <1>1, <1>2 DEF Signal
<1>3. CASE GoesAway
  BY <1>1, <1>3 DEF GoesAway
<1>4. CASE Ended
  BY <1>1, <1>4 DEF Ended, SessionOver
<1>5. CASE Drain
  BY <1>1, <1>5 DEF Drain
<1>6. CASE GraceExpires
  BY <1>1, <1>6 DEF GraceExpires
<1>7. CASE Stopped
  BY <1>1, <1>7 DEF Stopped
<1>8. CASE DrainTimesOut
  BY <1>1, <1>8 DEF DrainTimesOut
<1>9. CASE Drained
  BY <1>1, <1>9 DEF Drained, DrainResult
<1>10. CASE Close
  BY <1>1, <1>10 DEF Close
<1>11. CASE Exit
  BY <1>1, <1>11 DEF Exit, IsShutdown
<1> QED
  BY <1>2, <1>3, <1>4, <1>5, <1>6, <1>7, <1>8, <1>9, <1>10, <1>11

LEMMA StepInv == ServerInv /\ [Next]_vars => ServerInv'
<1> SUFFICES ASSUME ServerInv, [Next]_vars PROVE ServerInv'
  OBVIOUS
<1>1. CASE Next
  BY <1>1, CallsKeepInv, ProcessKeepsInv DEF Next
<1>2. CASE UNCHANGED vars
  BY <1>2 DEF vars, process, ServerInv, TypeOK, AcceptsWhileServing, StopIsRight, EndIsKnown,
              ExitIsKnown, FailsOnlyWithStop, InFlight, Over
<1> QED
  BY <1>1, <1>2

\* The inductive invariant of the process (main.go:147-200, serve.go:30-103).
THEOREM SpecInv == Spec => []ServerInv
BY InitInv, StepInv, PTL DEF Spec

\* Every variable of the process keeps its type.
THEOREM TypeCorrect == Spec => []TypeOK
<1>1. ServerInv => TypeOK
  BY DEF ServerInv
<1> QED
  BY <1>1, SpecInv, PTL

\* Whichever of the timers and the last answer comes first, a drained source is
\* closed only when no call is left (main.go:185-190, serve.go:94-102).
THEOREM NeverClosedUnderCalls == Spec => []ClosedWhenQuiet
<1>1. ServerInv => ClosedWhenQuiet
  BY DEF ServerInv, StopIsRight, EndIsKnown, ExitIsKnown, ClosedWhenQuiet, Over
<1> QED
  BY <1>1, SpecInv, PTL

\* A call left behind was given the whole grace (serve.go:26-28).
THEOREM CallsGetTheGrace == Spec => []GraceIsGiven
<1>1. ServerInv => GraceIsGiven
  BY DEF ServerInv, StopIsRight, EndIsKnown, GraceIsGiven, Over
<1> QED
  BY <1>1, SpecInv, PTL

\* A drain exits with failure when drain took an error of stop's own, and only then
\* (serve.go:94-102, main.go:187-199).
THEOREM DrainsFailOnlyWithStop == Spec => []FailsOnlyWithStop
<1>1. ServerInv => FailsOnlyWithStop
  BY DEF ServerInv, ExitIsKnown
<1> QED
  BY <1>1, SpecInv, PTL
=============================================================================
