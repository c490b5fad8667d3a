------------------------------ MODULE LeaseProofs ------------------------------
(***************************************************************************)
(* Lease, for scripts of any length, any limit and any margin.  The         *)
(* argument follows the transaction the tool opened: it stands, READ ONLY   *)
(* for a read tool and limited once the limits are set, from the answer to  *)
(* BEGIN until the script ends it or lifts the limit, and of a read tool's   *)
(* text only one statement, which can do neither, reaches the server.       *)
(***************************************************************************)
EXTENDS Lease, TLAPS

\* What the client waits for is the answer to the phase it is in.
JobAgrees ==
    /\ conn = "none" => job = "none" /\ pc \in {"begin", "done"}
    /\ conn = "busy" => job = pc
    /\ conn = "ready" => job # "none" /\ reply # "none" /\ pc # "begin"
    /\ conn = "dead" => pc = "done"
    /\ job = "none" => session = Fresh
    /\ running <= elapsed

\* Past the guard, the text of a read tool starts with a statement that controls neither
\* a transaction nor its limit; only a read tool declares a cursor and only a write tool commits.
Guarded ==
    /\ mode = "read" /\ (pc \in {"declare", "script"} \/ job \in {"declare", "script"}) =>
          script # <<>> /\ script[1] \in {"read", "write", "bad"}
    /\ pc = "declare" \/ job = "declare" => mode = "read"
    /\ pc = "commit" \/ job = "commit" => mode = "write"

\* The transaction the tool opened is there.
Stands == session.tx = "T" /\ (mode = "read" => session.readOnly)

StandsInside ==
    /\ Working /\ job = "begin" /\ at > 1 => Stands
    /\ Working /\ job = "limits" => Stands /\ (at > 1 => session.limited)
    /\ Working /\ job = "declare" => Stands /\ session.limited
    /\ Working /\ job = "script" /\ ~ended => Stands /\ (session.limited \/ lifted)
    /\ conn = "busy" /\ reply = "ok" /\ job = "begin" => Stands
    /\ conn = "busy" /\ reply = "ok" /\ job \in {"limits", "declare"} => Stands /\ session.limited
    /\ conn = "ready" /\ pc = "limits" => Stands
    /\ conn = "ready" /\ pc \in {"declare", "script"} => Stands /\ session.limited

\* A read tool never leaves its READ ONLY transaction, and so stages nothing, and keeps
\* the limit it set.
ReadStaysRead ==
    mode = "read" =>
      /\ ~ended /\ ~lifted
      /\ session.tx # "I" => session.readOnly
      /\ session.staged = {} /\ session.durable = {}

\* Commit and Rollback, answered at all, leave no transaction; outside one nothing is
\* limited, and nothing staged once the message is done.
OverAtTheEnd ==
    /\ Working /\ job \in {"commit", "rollback"} /\ at > 1 => session.tx = "I"
    /\ conn = "busy" /\ reply = "ok" /\ job \in {"commit", "rollback"} => session.tx = "I"
    /\ conn = "busy" /\ reply \notin {"none", "ok"} /\ job = "commit" => session.tx = "I"
    /\ pc = "done" /\ conn = "ready" => session.tx = "I"
    /\ session.tx = "I" => ~session.limited /\ (~Working => session.staged = {})

LeaseInv ==
    /\ TypeOK
    /\ JobAgrees
    /\ Guarded
    /\ StandsInside
    /\ ReadStaysRead
    /\ OverAtTheEnd
    /\ LimitHolds
    /\ ConnectionSurvives

------------------------------------------------------------------------------
\* What the server finds in the message of each phase.
LEMMA Messages ==
    ASSUME TypeOK, Guarded, Executing
    PROVE  LET op == Message(job)[at]
           IN  /\ job = "begin"    => at = 1 /\ op = "start"
               /\ job = "limits"   => at = 1 /\ op = "limit"
               /\ job = "declare"  => op \in {"read", "bad"}
               /\ job = "script"   => op \in {"read", "write", "bad", "commit", "rollback", "begin", "set", "set_config"}
               /\ job = "script" /\ mode = "read" => op \in {"read", "write", "bad"}
               /\ job = "commit"   => at = 1 /\ op = "commit"
               /\ job = "rollback" => at = 1 /\ op = "rollback"
<1>1. CASE job \in {"begin", "limits", "commit", "rollback"}
  BY <1>1 DEF Executing, TypeOK, Message
<1>2. CASE job = "declare"
  <2>1. mode = "read" /\ script # <<>> /\ script[1] \in {"read", "write", "bad"}
    BY <1>2 DEF Guarded
  <2>2. OneStatement(script) \in {script, <<"bad">>} /\ Len(OneStatement(script)) = 1
    BY DEF OneStatement
  <2>3. Len(Declared(OneStatement(script))) = 1
    BY <2>2 DEF Declared
  <2>4. Message(job) = Declared(OneStatement(script))
    BY <1>2 DEF Message
  <2>5. at = 1
    <3>1. at \in Nat \ {0} /\ at <= Len(Message(job))
      BY DEF Executing, TypeOK
    <3>2. Len(Message(job)) = 1
      BY <2>3, <2>4
    <3> QED
      BY <3>1, <3>2
  <2>6. Declared(OneStatement(script))[1] \in {"read", "bad"}
    BY <2>1, <2>2 DEF Declared
  <2> QED
    BY <1>2, <2>4, <2>5, <2>6
<1>3. CASE job = "script"
  <2>1. CASE mode = "read"
    BY <1>3, <2>1 DEF Guarded, OneStatement, Executing, TypeOK, Message
  <2>2. CASE mode # "read"
    BY <1>3, <2>2, LeaseAssumption DEF Executing, TypeOK, Message
  <2> QED
    BY <2>1, <2>2
<1> QED
  BY <1>1, <1>2, <1>3 DEF TypeOK, Phases, Executing, Working

LEMMA InitInv == Init => LeaseInv
<1> SUFFICES ASSUME Init PROVE LeaseInv
  OBVIOUS
<1>1. PICK n \in 0..MaxScript : script \in [1..n -> Statements]
  BY DEF Init, Scripts
<1>2. script \in Seq(Statements)
  BY <1>1, LeaseAssumption
<1>3. TypeOK
  <2>1. Fresh \in Sessions
    BY DEF Fresh, Sessions
  <2>2. 0 \in 0..ClientDeadline
    BY LeaseAssumption DEF ClientDeadline
  <2>3. /\ mode \in Modes /\ script \in Seq(Statements)
        /\ pc \in Phases \cup {"done"} /\ job \in Phases \cup {"none"}
        /\ elapsed \in 0..ClientDeadline /\ running \in 0..ClientDeadline
    BY <1>2, <2>2 DEF Init, Phases
  <2>4. /\ conn \in {"none", "ready", "busy", "dead"}
        /\ at \in Nat \ {0}
        /\ reply \in {"none", "ok", "failed", "denied", "canceled", "lost"}
    BY DEF Init
  <2>5. session \in Sessions
    BY <2>1 DEF Init
  <2> QED
    BY <2>3, <2>4, <2>5 DEF Init, TypeOK
<1> QED
  BY <1>3 DEF Init, LeaseInv, JobAgrees, Guarded, StandsInside, ReadStaysRead, OverAtTheEnd,
              LimitHolds, ConnectionSurvives, Working, Fresh
------------------------------------------------------------------------------
(* The server *)

\* What ending a transaction, and an error in one, make of a session.
LEMMA SessionEnds ==
    ASSUME NEW s \in Sessions
    PROVE  /\ Over(s) \in Sessions /\ Committed(s) \in Sessions /\ Aborted(s) \in Sessions
           /\ Over(s).tx = "I" /\ ~Over(s).limited /\ Over(s).staged = {}
           /\ Over(s).durable = s.durable
           /\ Committed(s).tx = "I" /\ ~Committed(s).limited /\ Committed(s).staged = {}
           /\ Committed(s).durable = s.durable \cup s.staged
           /\ Aborted(s).tx # "T" /\ (Aborted(s).tx = "I" <=> s.tx = "I")
           /\ ~Aborted(s).limited /\ Aborted(s).staged = {}
           /\ Aborted(s).readOnly = s.readOnly /\ Aborted(s).durable = s.durable
BY DEF Over, Committed, Aborted, Sessions

\* What each statement makes of it, one by one.
LEMMA Effects ==
    ASSUME NEW s \in Sessions, NEW i \in Nat
    PROVE  /\ Effect(s, "start", i) = [s EXCEPT !.tx = "T", !.readOnly = (mode = "read")]
           /\ Effect(s, "begin", i) = [s EXCEPT !.tx = "T"]
           /\ Effect(s, "limit", i) = [s EXCEPT !.limited = (s.tx = "T")]
           /\ Effect(s, "write", i) = [s EXCEPT !.staged = s.staged \cup {i}]
           /\ Effect(s, "commit", i) \in {Over(s), Committed(s)}
           /\ Effect(s, "rollback", i) = Over(s)
           /\ Effect(s, "read", i) = s
BY DEF Effect, Lifting

\* A statement that lifts the limit does nothing else.
LEMMA LiftingEffect ==
    ASSUME NEW s \in Sessions, NEW i \in Nat, NEW op \in Lifting
    PROVE  Effect(s, op, i) = [s EXCEPT !.limited = FALSE]
BY DEF Effect, Lifting

\* The statements of a script that need not fail.
Sound == {"read", "write", "commit", "rollback", "begin", "set", "set_config"}

\* What the statements of a script make of it: a transaction that stays open stays
\* as it is, but for a limit lifted, and outside one only BEGIN opens one.
LEMMA ScriptEffects ==
    ASSUME NEW s \in Sessions, NEW i \in Nat,
           NEW op \in Sound
    PROVE  /\ Effect(s, op, i) \in Sessions
           /\ op = "read" => Effect(s, op, i) = s
           /\ s.tx = "T" /\ Effect(s, op, i).tx # "I" =>
                /\ Effect(s, op, i).tx = "T"
                /\ Effect(s, op, i).readOnly = s.readOnly
                /\ op \notin Lifting => Effect(s, op, i).limited = s.limited
           /\ Effect(s, op, i).tx = "I" => ~Effect(s, op, i).limited \/ (s.tx = "I" /\ s.limited)
<1>1. CASE op = "read"
  BY <1>1, Effects
<1>2. CASE op = "write"
  <2>1. Effect(s, op, i) = [s EXCEPT !.staged = s.staged \cup {i}]
    BY <1>2, Effects
  <2> QED
    BY <1>2, <2>1 DEF Sessions
<1>3. CASE op = "begin"
  <2>1. Effect(s, op, i) = [s EXCEPT !.tx = "T"]
    BY <1>3, Effects
  <2> QED
    BY <1>3, <2>1 DEF Sessions
<1>4. CASE op \in {"commit", "rollback"}
  <2>1. Effect(s, op, i) \in {Over(s), Committed(s)}
    BY <1>4, Effects
  <2> QED
    BY <1>4, <2>1, SessionEnds
<1>5. CASE op \in Lifting
  <2>1. Effect(s, op, i) = [s EXCEPT !.limited = FALSE]
    BY <1>5, LiftingEffect
  <2> QED
    BY <1>5, <2>1 DEF Sessions, Lifting
<1> QED
  BY <1>1, <1>2, <1>3, <1>4, <1>5 DEF Lifting, Sound

\* A step of the server leaves the client alone; what is left to show of one is about
\* the session.
LEMMA ServerStep ==
    ASSUME LeaseInv, UNCHANGED <<client, elapsed, job, overran>>, job # "none",
           session' \in Sessions, at' \in Nat \ {0}, running' \in {0, running},
           reply' \in {"none", "ok", "failed", "denied", "canceled", "lost"},
           reply # "none" => reply' = reply,
           ended' \in BOOLEAN, ended => ended',
           lifted' \in BOOLEAN, lifted => lifted',
           StandsInside', ReadStaysRead', OverAtTheEnd'
    PROVE  LeaseInv'
<1> USE DEF LeaseInv, client
<1>1. TypeOK'
  <2>1. running' \in 0..ClientDeadline
    BY LeaseAssumption DEF TypeOK, ClientDeadline
  <2> QED
    BY <2>1 DEF TypeOK
<1>2. JobAgrees'
  <2>1. running' <= elapsed'
    BY LeaseAssumption DEF JobAgrees, TypeOK, ClientDeadline
  <2> QED
    BY <2>1 DEF JobAgrees
<1>3. Guarded'
  BY DEF Guarded
<1>4. LimitHolds'
  BY DEF LimitHolds, ReadStaysRead
<1>5. ConnectionSurvives'
  BY DEF ConnectionSurvives, JobAgrees, TimeIsLeft
<1> QED
  BY <1>1, <1>2, <1>3, <1>4, <1>5

LEMMA ExecuteInv ==
    ASSUME LeaseInv, Execute
    PROVE  LeaseInv'
<1> DEFINE op == Message(job)[at]
<1> USE DEF LeaseInv
<1>1. /\ Working /\ Executing /\ reply = "none" /\ job # "none"
      /\ UNCHANGED <<client, elapsed, job, reply, overran>>
      /\ at' = at + 1 /\ running' = 0
      /\ session' = Effect(session, op, at)
      /\ ended' = (ended \/ (job = "script" /\ session.tx = "T" /\ session'.tx = "I"))
      /\ lifted' = (lifted \/ (job = "script" /\ op \in Lifting))
      /\ ~Fails(session, op)
  BY DEF Execute, Executing, Working
<1>2. /\ session \in Sessions /\ at \in Nat /\ at # 0 /\ job \in Phases /\ ended \in BOOLEAN
      /\ lifted \in BOOLEAN
  BY <1>1 DEF TypeOK
<1>3. /\ op # "bad" /\ (op = "write" => ~session.readOnly)
      /\ session.tx = "E" => op \in {"commit", "rollback"}
  BY <1>1 DEF Fails
<1> HIDE DEF LeaseInv
<1>4. session' \in Sessions /\ StandsInside' /\ ReadStaysRead' /\ OverAtTheEnd'
  <2> USE DEF LeaseInv
  <2>1. CASE job = "begin"
    <3> HIDE DEF op
    <3>2. op = "start"
      BY <1>1, <2>1, Messages DEF op
    <3>1. session' = [session EXCEPT !.tx = "T", !.readOnly = (mode = "read")]
      BY <1>1, <1>2, <3>2, Effects
    <3> QED
      BY <1>1, <1>2, <2>1, <3>1 DEF client, Sessions, StandsInside, Stands, ReadStaysRead,
                                    OverAtTheEnd, Working, JobAgrees
  <2>2. CASE job = "limits"
    <3> HIDE DEF op
    <3>2. op = "limit" /\ session.tx = "T"
      BY <1>1, <2>2, Messages DEF op, StandsInside, Stands
    <3>1. session' = [session EXCEPT !.limited = TRUE]
      BY <1>1, <1>2, <3>2, Effects
    <3> QED
      BY <1>1, <1>2, <2>2, <3>1 DEF client, Sessions, StandsInside, Stands, ReadStaysRead,
                                    OverAtTheEnd, Working, JobAgrees
  <2>3. CASE job = "declare"
    <3> HIDE DEF op
    <3>1. op = "read"
      BY <1>1, <1>3, <2>3, Messages DEF op
    <3>2. session' = session
      BY <1>1, <1>2, <3>1, Effects
    <3> QED
      BY <1>1, <1>2, <2>3, <3>2 DEF client, StandsInside, Stands, ReadStaysRead,
                                    OverAtTheEnd, Working, JobAgrees
  <2>4. CASE job = "script" /\ mode = "read"
    <3> HIDE DEF op
    <3>1. session.readOnly /\ session.tx = "T" /\ op = "read"
      BY <1>1, <1>3, <2>4, Messages DEF op, StandsInside, Stands, ReadStaysRead
    <3>2. session' = session
      BY <1>1, <1>2, <3>1, Effects
    <3>3. lifted' = lifted
      BY <1>1, <1>2, <3>1 DEF Lifting
    <3> QED
      BY <1>1, <1>2, <2>4, <3>1, <3>2, <3>3 DEF client, StandsInside, Stands, ReadStaysRead,
                                    OverAtTheEnd, Working, JobAgrees
  <2>5. CASE job = "script" /\ mode # "read"
    <3>1. op \in Sound
      BY <1>1, <1>3, <2>5, Messages DEF Sound
    <3> HIDE DEF op, LeaseInv
    <3> DEFINE after == Effect(session, op, at)
    <3>2. /\ after \in Sessions
          /\ session.tx = "T" /\ after.tx # "I" =>
               /\ after.tx = "T"
               /\ op \notin Lifting => after.limited = session.limited
          /\ after.tx = "I" => ~after.limited \/ (session.tx = "I" /\ session.limited)
      BY <1>2, <3>1, ScriptEffects
    <3> HIDE DEF after
    <3>3. session' = after
      BY <1>1 DEF after
    <3> QED
      BY <1>1, <1>2, <2>5, <3>2, <3>3 DEF LeaseInv, client, StandsInside, Stands, ReadStaysRead,
                                    OverAtTheEnd, Working, JobAgrees
  <2>6. CASE job \in {"commit", "rollback"}
    <3>1. session' \in {Over(session), Committed(session)}
      BY <1>1, <1>2, <2>6, Messages, Effects
    <3>2. session' \in Sessions /\ session'.tx = "I" /\ ~session'.limited /\ session'.staged = {}
          /\ (session.staged = {} => session'.durable = session.durable)
      <4>1. CASE session' = Over(session)
        BY <1>2, <4>1, SessionEnds
      <4>2. CASE session' = Committed(session)
        <5>1. session.durable \cup {} = session.durable
          OBVIOUS
        <5> QED
          BY <1>2, <4>2, <5>1, SessionEnds
      <4> QED
        BY <3>1, <4>1, <4>2
    <3> QED
      BY <1>1, <1>2, <2>6, <3>2 DEF client, StandsInside, Stands, ReadStaysRead,
                                    OverAtTheEnd, Working, JobAgrees
  <2> QED
    BY <1>2, <2>1, <2>2, <2>3, <2>4, <2>5, <2>6 DEF Phases
<1>5. at' \in Nat \ {0} /\ running' \in {0, running} /\ ended' \in BOOLEAN /\ (ended => ended')
      /\ lifted' \in BOOLEAN /\ (lifted => lifted')
      /\ reply' \in {"none", "ok", "failed", "denied", "canceled", "lost"}
  BY <1>1, <1>2
<1> QED
  BY <1>1, <1>4, <1>5, ServerStep
\* Refuse and Cancel.
LEMMA UndoInv ==
    ASSUME LeaseInv, Executing, Undo(Message(job)[at]),
           reply' \in {"failed", "denied", "canceled"}
    PROVE  LeaseInv'
<1> DEFINE op == Message(job)[at]
<1>1. /\ Working /\ reply = "none" /\ job # "none" /\ session \in Sessions
      /\ job \in Phases /\ ended \in BOOLEAN /\ lifted \in BOOLEAN /\ at \in Nat \ {0}
  BY DEF Executing, Working, LeaseInv, TypeOK
<1>2. /\ UNCHANGED <<client, elapsed, job, at, running, lifted, overran>>
      /\ session' = IF op = "commit" THEN Over(session) ELSE Aborted(session)
      /\ ended' = (ended \/ (job = "script" /\ op = "commit" /\ session.tx = "T"))
  BY DEF Undo
<1>3. /\ job = "commit" => op = "commit"
      /\ job = "script" /\ mode = "read" => op # "commit"
  BY Messages DEF LeaseInv
<1> HIDE DEF op
<1>4. /\ session' \in Sessions /\ ~session'.limited /\ session'.staged = {}
      /\ session'.durable = session.durable
      /\ session'.tx # "I" => session.tx # "I" /\ session'.readOnly = session.readOnly
      /\ job = "commit" => session'.tx = "I"
  BY <1>1, <1>2, <1>3, SessionEnds
<1>5. StandsInside' /\ ReadStaysRead' /\ OverAtTheEnd'
  BY <1>1, <1>2, <1>3, <1>4 DEF LeaseInv, client, JobAgrees, StandsInside, ReadStaysRead,
                               OverAtTheEnd, Working
<1>6. /\ ended' \in BOOLEAN /\ (ended => ended')
      /\ lifted' \in BOOLEAN /\ (lifted => lifted')
      /\ at' \in Nat \ {0} /\ running' \in {0, running}
      /\ reply' \in {"none", "ok", "failed", "denied", "canceled", "lost"}
  BY <1>1, <1>2
<1> QED
  BY <1>1, <1>2, <1>4, <1>5, <1>6, ServerStep

LEMMA FinishInv ==
    ASSUME LeaseInv, Finish
    PROVE  LeaseInv'
<1>1. /\ Working /\ reply = "none" /\ job # "none" /\ session \in Sessions
      /\ job \in Phases /\ ended \in BOOLEAN /\ lifted \in BOOLEAN /\ at \in Nat \ {0} /\ at > Len(Message(job))
  BY DEF Finish, Working, LeaseInv, TypeOK
<1>2. /\ UNCHANGED <<client, elapsed, job, at, running, ended, lifted, overran>>
      /\ reply' = "ok"
      /\ session' = IF session.tx = "I" THEN Committed(session) ELSE session
  BY DEF Finish
<1>3. job \in {"begin", "limits", "commit", "rollback"} => at > 1
  <2>1. job \in {"begin", "limits", "commit", "rollback"} => Len(Message(job)) = 1
    BY DEF Message
  <2> QED
    BY <1>1, <2>1
<1>4. /\ session' \in Sessions
      /\ session.tx # "I" => session' = session
      /\ session.tx = "I" =>
           /\ session'.tx = "I" /\ ~session'.limited /\ session'.staged = {}
           /\ session'.durable = session.durable \cup session.staged
  BY <1>1, <1>2, SessionEnds
<1>5. StandsInside'
  <2>1. job \in {"begin", "limits", "declare"} => session.tx = "T"
    BY <1>1, <1>3 DEF LeaseInv, StandsInside, Stands
  <2> QED
    BY <1>1, <1>2, <1>3, <1>4, <2>1 DEF LeaseInv, client, JobAgrees, StandsInside, Stands, Working
<1>6. ReadStaysRead'
  <2>1. mode = "read" => session'.durable = {}
    BY <1>4 DEF LeaseInv, ReadStaysRead
  <2> QED
    BY <1>1, <1>2, <1>4, <2>1 DEF LeaseInv, client, ReadStaysRead
<1>7. OverAtTheEnd'
  BY <1>1, <1>2, <1>3, <1>4 DEF LeaseInv, client, JobAgrees, OverAtTheEnd, Working
<1>8. /\ ended' \in BOOLEAN /\ (ended => ended')
      /\ lifted' \in BOOLEAN /\ (lifted => lifted')
      /\ at' \in Nat \ {0} /\ running' \in {0, running}
      /\ reply' \in {"none", "ok", "failed", "denied", "canceled", "lost"}
  BY <1>1, <1>2
<1> QED
  BY <1>1, <1>2, <1>4, <1>5, <1>6, <1>7, <1>8, ServerStep

\* Die and Hangup: the transaction is over, and nobody waits for an answer any more.
LEMMA GoneInv ==
    ASSUME LeaseInv, Die \/ Hangup
    PROVE  LeaseInv'
<1>1. /\ session \in Sessions /\ job \in Phases \cup {"none"} /\ ended \in BOOLEAN /\ lifted \in BOOLEAN
      /\ at \in Nat \ {0}
      /\ reply \in {"none", "ok", "failed", "denied", "canceled", "lost"}
  BY DEF LeaseInv, TypeOK
<1>2. /\ UNCHANGED <<client, elapsed, job, at, running, ended, lifted, overran>>
      /\ session' = Over(session)
      /\ \/ conn = "busy" /\ Working /\ reply = "none" /\ reply' = "lost"
         \/ conn = "dead" /\ ~Working /\ session.tx # "I" /\ reply' = reply
  BY DEF Die, Hangup, Working
<1>3. job # "none"
  BY <1>2 DEF LeaseInv, JobAgrees, Fresh, Working
<1>4. /\ session' \in Sessions /\ session'.tx = "I" /\ ~session'.limited
      /\ session'.staged = {} /\ session'.durable = session.durable
  BY <1>1, <1>2, SessionEnds
<1>5. StandsInside' /\ ReadStaysRead' /\ OverAtTheEnd'
  BY <1>1, <1>2, <1>3, <1>4 DEF LeaseInv, client, JobAgrees, StandsInside, Stands, ReadStaysRead,
                               OverAtTheEnd, Working
<1>6. /\ ended' \in BOOLEAN /\ (ended => ended')
      /\ lifted' \in BOOLEAN /\ (lifted => lifted')
      /\ at' \in Nat \ {0} /\ running' \in {0, running}
      /\ reply' \in {"none", "ok", "failed", "denied", "canceled", "lost"}
      /\ reply # "none" => reply' = reply
  BY <1>1, <1>2
<1> QED
  BY <1>2, <1>3, <1>4, <1>5, <1>6, ServerStep
------------------------------------------------------------------------------
(* The call *)

LEMMA SendInv ==
    ASSUME LeaseInv, Send
    PROVE  LeaseInv'
<1> USE DEF LeaseInv, Send
<1>1. TypeOK'
  <2>1. 0 \in 0..ClientDeadline
    BY LeaseAssumption DEF ClientDeadline
  <2> QED
    BY <2>1 DEF TypeOK
<1>2. JobAgrees'
  <2>1. 0 <= elapsed
    BY LeaseAssumption DEF TypeOK, ClientDeadline
  <2> QED
    BY <2>1 DEF JobAgrees, TypeOK, Phases
<1>3. Guarded'
  BY DEF Guarded, TypeOK, Phases
<1>4. StandsInside'
  BY DEF StandsInside, Stands, Working, TypeOK, Phases
<1>5. ReadStaysRead'
  BY DEF ReadStaysRead
<1>6. OverAtTheEnd'
  BY DEF OverAtTheEnd, Working, TypeOK, Phases
<1>7. LimitHolds' /\ ConnectionSurvives'
  BY DEF LimitHolds, ConnectionSurvives
<1> QED
  BY <1>1, <1>2, <1>3, <1>4, <1>5, <1>6, <1>7

\* The call ends, or goes to its rollback, without having got an answer.
LEMMA GiveUpInv ==
    ASSUME LeaseInv, Unreachable \/ Late \/ Expire \/ GraceExpires \/ Lose
    PROVE  LeaseInv'
<1> USE DEF LeaseInv
<1>1. UNCHANGED <<mode, script, elapsed, server, running, overran>>
  BY DEF Unreachable, Late, Expire, GraceExpires, Lose
<1>2. TypeOK'
  <2>1. /\ pc' \in Phases \cup {"done"} /\ conn' \in {"none", "ready", "busy", "dead"}
        /\ asked' \in BOOLEAN /\ dropped' \in BOOLEAN
    BY DEF TypeOK, Phases, Unreachable, Late, Expire, GraceExpires, Lose
  <2>2. outcome' \in {outcome, "ok", "unreachable", "late", "expired", "lost"}
    BY DEF Unreachable, Late, Expire, GraceExpires, Lose, Answers
  <2> QED
    BY <1>1, <2>1, <2>2 DEF TypeOK, server
<1>3. JobAgrees'
  BY <1>1 DEF JobAgrees, TypeOK, server, Unreachable, Late, Expire, GraceExpires, Lose
<1>4. Guarded'
  BY <1>1 DEF Guarded, server, Unreachable, Late, Expire, GraceExpires, Lose
<1>5. StandsInside'
  BY <1>1 DEF StandsInside, Stands, Working, server, Unreachable, Late, Expire, GraceExpires, Lose
<1>6. ReadStaysRead' /\ LimitHolds'
  BY <1>1 DEF ReadStaysRead, LimitHolds, server
<1>7. OverAtTheEnd'
  BY <1>1 DEF OverAtTheEnd, JobAgrees, Fresh, Working, server, Detached,
              Unreachable, Late, Expire, GraceExpires, Lose
<1>8. ConnectionSurvives'
  <2>1. CASE Expire
    <3>1. ~TimeIsLeft' /\ job' = pc
      BY <1>1, <2>1 DEF Expire, TimeIsLeft, ClientDeadline, JobAgrees, server
    <3>2. outcome' \in {"expired", "ok"} /\ (outcome' = "ok" => pc = "script" /\ mode' = "read")
      BY <1>1, <2>1 DEF Expire, Detached, Answers
    <3> QED BY <3>1, <3>2 DEF ConnectionSurvives
  <2>2. CASE Unreachable \/ Late \/ GraceExpires \/ Lose
    BY <1>1, <2>2 DEF ConnectionSurvives, JobAgrees, Detached, server,
                      Unreachable, Late, GraceExpires, Lose
  <2> QED BY <2>1, <2>2
<1> QED
  BY <1>2, <1>3, <1>4, <1>5, <1>6, <1>7, <1>8

LEMMA FailInv ==
    ASSUME LeaseInv, Fail
    PROVE  LeaseInv'
<1> USE DEF LeaseInv, Fail, Unwind, ReadToTheEnd, Failure, Answers
<1>1. UNCHANGED <<mode, script, asked, dropped, elapsed, server, running, overran>>
  OBVIOUS
<1>2. TypeOK'
  BY <1>1 DEF TypeOK, Phases, server
<1>3. JobAgrees'
  BY <1>1 DEF JobAgrees, TypeOK, Phases, server
<1>4. Guarded'
  BY <1>1 DEF Guarded, server
<1>5. StandsInside'
  BY <1>1 DEF StandsInside, Stands, Working, server
<1>6. ReadStaysRead' /\ LimitHolds'
  BY <1>1 DEF ReadStaysRead, LimitHolds, server
<1>7. OverAtTheEnd'
  BY <1>1 DEF OverAtTheEnd, JobAgrees, Working, server
<1>8. ConnectionSurvives'
  BY <1>1 DEF ConnectionSurvives, JobAgrees, server
<1> QED
  BY <1>2, <1>3, <1>4, <1>5, <1>6, <1>7, <1>8

\* A phase that went well leads to the next.
LEMMA ProceedInv ==
    ASSUME LeaseInv, Begun \/ Limited \/ CursorDeclared \/ Queried \/ Executed \/ Returned
    PROVE  LeaseInv'
<1> USE DEF LeaseInv
<1>1. /\ UNCHANGED <<mode, script, asked, dropped, elapsed, server, running, overran>>
      /\ conn = "busy" /\ reply = "ok" /\ conn' = "ready" /\ job = pc
  BY DEF Begun, Limited, CursorDeclared, Queried, Executed, Returned, Proceed, JobAgrees
<1>2. \/ pc = "begin" /\ pc' = "limits"
      \/ pc = "limits" /\ pc' \in {"rollback", "script"}
      \/ pc = "limits" /\ pc' = "declare" /\ mode = "read"
      \/ pc = "declare" /\ pc' = "script"
      \/ pc = "script" /\ pc' = "rollback"
      \/ pc = "script" /\ pc' = "commit" /\ mode = "write"
      \/ pc \in {"commit", "rollback"} /\ pc' = "done"
  BY DEF Begun, Limited, CursorDeclared, Queried, Executed, Returned, Proceed
<1>3. pc = "limits" /\ pc' \in {"script", "declare"} => ~RefusedByGuard
  BY DEF Begun, Limited, CursorDeclared, Queried, Executed, Returned, Proceed
<1>4. outcome' \in {outcome, "refused", "ok", "noticed", "empty"}
  BY DEF Begun, Limited, CursorDeclared, Queried, Executed, Returned, Proceed, Report
<1>5. TypeOK'
  BY <1>1, <1>2, <1>4 DEF TypeOK, Phases, server
<1>6. JobAgrees'
  BY <1>1, <1>2 DEF JobAgrees, TypeOK, Phases, server
<1>7. Guarded'
  <2>1. ASSUME ~RefusedByGuard, mode = "read"
        PROVE  script # <<>> /\ script[1] \in {"read", "write", "bad"}
    <3>1. script # <<>> /\ script[1] \in Readable /\ \A i \in DOMAIN script : script[i] # "set_config"
      BY <2>1 DEF RefusedByGuard
    <3>2. 1 \in DOMAIN script
      BY <3>1 DEF TypeOK
    <3> QED BY <3>1, <3>2 DEF Readable
  <2> QED BY <1>1, <1>2, <1>3, <2>1 DEF Guarded, server
<1>8. StandsInside'
  BY <1>1, <1>2 DEF StandsInside, Stands, Working, server
<1>9. ReadStaysRead' /\ LimitHolds' /\ ConnectionSurvives'
  BY <1>1 DEF ReadStaysRead, LimitHolds, ConnectionSurvives, server
<1>10. OverAtTheEnd'
  BY <1>1, <1>2 DEF OverAtTheEnd, Working, server
<1> QED
  BY <1>5, <1>6, <1>7, <1>8, <1>9, <1>10

\* Time passes: a statement of a transaction that stands is limited, unless the script of
\* a write tool lifted the limit, so it does not run past it.
LEMMA TickInv ==
    ASSUME LeaseInv, Tick
    PROVE  LeaseInv'
<1> USE DEF LeaseInv
<1>1. /\ UNCHANGED <<client, server>>
      /\ elapsed' = elapsed + 1 /\ elapsed < ClientDeadline
      /\ running' = IF Executing THEN running + 1 ELSE running
      /\ ~(Executing /\ AtLimit)
      /\ overran' = (overran \/ (Executing /\ job = "script" /\ running' > QueryTimeout))
  BY DEF Tick, TimeIsLeft
<1>2. elapsed \in Nat /\ running \in Nat /\ ClientDeadline \in Nat /\ QueryTimeout \in Nat
  BY LeaseAssumption DEF TypeOK, ClientDeadline
<1>3. running' <= elapsed'
  BY <1>1, <1>2 DEF JobAgrees
<1>4. TypeOK'
  <2>1. elapsed' \in 0..ClientDeadline /\ running' \in 0..ClientDeadline
    BY <1>1, <1>2, <1>3
  <2>2. overran' \in BOOLEAN
    BY <1>1 DEF TypeOK
  <2> QED
    BY <1>1, <2>1, <2>2 DEF TypeOK, client, server
<1>5. JobAgrees'
  BY <1>1, <1>3 DEF JobAgrees, client, server
<1>6. LimitHolds'
  <2> SUFFICES ASSUME Executing, job = "script", running' > QueryTimeout,
                      mode = "read" \/ ~(ended \/ lifted)
               PROVE  FALSE
    BY <1>1 DEF LimitHolds, client, server
  <2>1. session.limited
    BY DEF StandsInside, ReadStaysRead, Executing
  <2>2. running >= QueryTimeout
    BY <1>1, <1>2
  <2> QED
    BY <1>1, <2>1, <2>2 DEF AtLimit
<1>7. Guarded' /\ StandsInside' /\ ReadStaysRead' /\ OverAtTheEnd' /\ ConnectionSurvives'
  BY <1>1 DEF Guarded, StandsInside, Stands, ReadStaysRead, OverAtTheEnd, ConnectionSurvives, TimeIsLeft,
              Working, client, server
<1> QED
  BY <1>4, <1>5, <1>6, <1>7

LEMMA StepInv == LeaseInv /\ [Next]_vars => LeaseInv'
<1> SUFFICES ASSUME LeaseInv, [Next]_vars PROVE LeaseInv'
  OBVIOUS
<1>1. CASE Execute
  BY <1>1, ExecuteInv
<1>2. CASE Refuse
  <2>1. Executing /\ Undo(Message(job)[at]) /\ reply' \in {"failed", "denied", "canceled"}
    BY <1>2 DEF Refuse
  <2> QED
    BY <2>1, UndoInv
<1>3. CASE Cancel
  <2>1. Executing /\ Undo(Message(job)[at]) /\ reply' \in {"failed", "denied", "canceled"}
    BY <1>3 DEF Cancel
  <2> QED
    BY <2>1, UndoInv
<1>4. CASE Finish
  BY <1>4, FinishInv
<1>5. CASE Die \/ Hangup
  BY <1>5, GoneInv
<1>6. CASE Send
  BY <1>6, SendInv
<1>7. CASE Unreachable \/ Late \/ Expire \/ GraceExpires \/ Lose
  BY <1>7, GiveUpInv
<1>8. CASE Fail
  BY <1>8, FailInv
<1>9. CASE Begun \/ Limited \/ CursorDeclared \/ Queried \/ Executed \/ Returned
  BY <1>9, ProceedInv
<1>10. CASE Tick
  BY <1>10, TickInv
<1>11. CASE UNCHANGED vars
  BY <1>11 DEF vars, client, server, LeaseInv, TypeOK, JobAgrees, Guarded, StandsInside, Stands,
               ReadStaysRead, OverAtTheEnd, LimitHolds, ConnectionSurvives, TimeIsLeft, Working
<1> QED
  BY <1>1, <1>2, <1>3, <1>4, <1>5, <1>6, <1>7, <1>8, <1>9, <1>10, <1>11
     DEF Next, Server, Answered

------------------------------------------------------------------------------
\* The inductive invariant of a call.
THEOREM SpecInv == Spec => []LeaseInv
BY InitInv, StepInv, PTL DEF Spec

\* Every variable of a call keeps its type.
THEOREM TypeCorrect == Spec => []TypeOK
<1>1. LeaseInv => TypeOK
  BY DEF LeaseInv
<1> QED
  BY <1>1, SpecInv, PTL

\* A read tool never changes anything, whatever its text (lease.go:64-66,
\* query.go:31-34).
THEOREM ReadToolsOnlyRead == Spec => []ReadOnlyHolds
<1>1. LeaseInv => ReadOnlyHolds
  BY DEF LeaseInv, ReadStaysRead, ReadOnlyHolds
<1> QED
  BY <1>1, SpecInv, PTL

\* No text makes a read tool run past timeouts.query or lift that limit, and a script of a
\* write tool runs past it only once it ended its transaction or lifted the limit itself
\* (lease.go:146-153, guard.go:69-71).
THEOREM StatementsAreLimited == Spec => []LimitHolds
<1>1. LeaseInv => LimitHolds
  BY DEF LeaseInv
<1> QED
  BY <1>1, SpecInv, PTL

\* A connection goes back to the pool as it came (lease.go:118-122).
THEOREM ConnectionsComeBackClean == Spec => []ReturnedClean
<1>1. LeaseInv => ReturnedClean
  BY DEF LeaseInv, OverAtTheEnd, JobAgrees, ReturnedClean, Working
<1> QED
  BY <1>1, SpecInv, PTL

\* A connection is not lost without need (query.go:121-124, lease.go:78-80).
THEOREM ConnectionsSurvive == Spec => []ConnectionSurvives
<1>1. LeaseInv => ConnectionSurvives
  BY DEF LeaseInv
<1> QED
  BY <1>1, SpecInv, PTL

------------------------------------------------------------------------------
(* What a success of a write tool says *)

\* A script that leaves it to the tool to open transactions.
Plain == mode = "write" /\ \A i \in DOMAIN script : script[i] # "begin"

WrittenBefore(n) == {i \in Writes : i < n}

\* Until the script is sent nothing is staged; while it runs every write it has come to is
\* staged, unless it ended the transaction and is outside for good.
WritesAreStaged ==
    /\ pc \in {"begin", "limits"} \/ (pc = "script" /\ conn = "ready") =>
          ~ended /\ session.staged = {} /\ session.durable = {}
    /\ pc = "script" /\ conn = "busy" =>
          /\ ended => session.tx = "I"
          /\ ~ended /\ reply = "none" => session.staged = WrittenBefore(at) /\ session.durable = {}
          /\ ~ended /\ reply = "ok" => session.staged = Writes /\ session.durable = {} /\ session.tx = "T"

\* An answer that will be a success finds all of them staged, and then all durable.
WritesAreKept ==
    /\ outcome = "noticed" => ended
    /\ outcome = "ok" =>
          /\ ~ended /\ pc \in {"commit", "done"}
          /\ pc = "commit" /\ (conn = "ready" \/ (reply = "none" /\ at = 1)) =>
                session.staged = Writes /\ session.durable = {} /\ session.tx = "T"
          /\ pc = "commit" /\ conn = "busy" /\ ((reply = "none" /\ at > 1) \/ reply = "ok") =>
                session.staged = {} /\ session.durable = Writes
          /\ pc = "done" => conn = "ready" /\ session.durable = Writes

WritesFollow == Plain => WritesAreStaged /\ WritesAreKept

\* The server carries out a statement of a message.
LEMMA ExecuteWrites ==
    ASSUME LeaseInv, WritesAreStaged, WritesAreKept, Plain, Execute
    PROVE  WritesAreStaged' /\ WritesAreKept'
<1> DEFINE op == Message(job)[at]
<1>1. /\ Working /\ Executing /\ reply = "none" /\ reply' = "none" /\ job' = job
      /\ UNCHANGED client /\ at' = at + 1
      /\ session' = Effect(session, op, at)
      /\ ended' = (ended \/ (job = "script" /\ session.tx = "T" /\ session'.tx = "I"))
      /\ ~Fails(session, op)
  BY DEF Execute, Executing, Working
<1>2. /\ session \in Sessions /\ at \in Nat \ {0} /\ job \in Phases /\ mode = "write"
      /\ conn \in {"busy", "dead"} /\ (conn = "busy" => job = pc) /\ (conn = "dead" => pc = "done")
  BY <1>1 DEF LeaseInv, TypeOK, JobAgrees, Plain, Working
<1>3. CASE conn = "dead"
  BY <1>1, <1>2, <1>3 DEF client, WritesAreStaged, WritesAreKept
<1>4. CASE conn = "busy" /\ job \in {"begin", "limits", "declare", "rollback"}
  <2>1. job \in {"begin", "limits"} => op \in {"start", "limit"}
    BY <1>1, Messages DEF LeaseInv
  <2>2. job \in {"begin", "limits"} => session'.staged = session.staged /\ session'.durable = session.durable
    <3> HIDE DEF op
    <3>1. CASE op = "start"
      <4>1. session' = [session EXCEPT !.tx = "T", !.readOnly = (mode = "read")]
        BY <1>1, <1>2, <3>1, Effects
      <4> QED BY <1>2, <4>1 DEF Sessions
    <3>2. CASE op = "limit"
      <4>1. session' = [session EXCEPT !.limited = (session.tx = "T")]
        BY <1>1, <1>2, <3>2, Effects
      <4> QED BY <1>2, <4>1 DEF Sessions
    <3> QED BY <2>1, <3>1, <3>2
  <2> HIDE DEF op
  <2> QED BY <1>1, <1>2, <1>4, <2>2 DEF client, WritesAreStaged, WritesAreKept
<1>5. CASE conn = "busy" /\ job = "script"
  <2>1. /\ op = script[at] /\ at \in DOMAIN script
        /\ op \in {"read", "write", "commit", "rollback"} \cup Lifting
    <3>1. Message(job) = script /\ script \in Seq(Statements) /\ at <= Len(script)
      BY <1>1, <1>2, <1>5 DEF Message, Executing, LeaseInv, TypeOK
    <3>2. at \in DOMAIN script
      BY <1>2, <3>1
    <3>3. op \in {"read", "write", "bad", "commit", "rollback", "begin", "set", "set_config"} /\ op # "bad"
      BY <1>1, <1>5, Messages DEF LeaseInv, Fails
    <3> QED BY <3>1, <3>2, <3>3 DEF Plain, Lifting
  <2> HIDE DEF op
  <2>2. /\ op = "read" => session' = session
        /\ op = "write" => session' = [session EXCEPT !.staged = session.staged \cup {at}]
        /\ op \in Lifting => session' = [session EXCEPT !.limited = FALSE]
        /\ op \in {"commit", "rollback"} => session'.tx = "I"
    <3>0. ASSUME op \in Lifting PROVE session' = [session EXCEPT !.limited = FALSE]
      BY <1>1, <1>2, <3>0, LiftingEffect
    <3>1. op = "read" => session' = session
      BY <1>1, <1>2, Effects
    <3>2. ASSUME op = "write" PROVE session' = [session EXCEPT !.staged = session.staged \cup {at}]
      BY <1>1, <1>2, <3>2, Effects
    <3>3. ASSUME op \in {"commit", "rollback"} PROVE session'.tx = "I"
      <4>1. session' \in {Over(session), Committed(session)}
        BY <1>1, <1>2, <3>3, Effects
      <4> QED BY <1>2, <4>1, SessionEnds
    <3> QED BY <3>0, <3>1, <3>2, <3>3
  <2>3. ended => session.tx = "I"
    BY <1>2, <1>5 DEF WritesAreStaged
  <2>4. ~ended => session.tx = "T" /\ session.staged = WrittenBefore(at) /\ session.durable = {}
    BY <1>1, <1>2, <1>5 DEF WritesAreStaged, LeaseInv, StandsInside, Stands
  <2>5. ended' => session'.tx = "I"
    BY <1>1, <1>2, <2>1, <2>2, <2>3, <2>4 DEF Sessions, Lifting
  <2>6. ~ended' => session'.staged = WrittenBefore(at') /\ session'.durable = {}
    <3> SUFFICES ASSUME ~ended' PROVE session'.staged = WrittenBefore(at') /\ session'.durable = {}
      OBVIOUS
    <3>1. ~ended /\ op \in {"read", "write"} \cup Lifting
      BY <1>1, <1>5, <2>1, <2>2, <2>4
    <3>2. \A i \in Writes : i \in Int
      BY DEF Writes, LeaseInv, TypeOK
    <3>3. at \in Writes <=> op = "write"
      BY <2>1 DEF Writes
    <3>4. WrittenBefore(at + 1) = IF op = "write" THEN WrittenBefore(at) \cup {at} ELSE WrittenBefore(at)
      BY <1>2, <3>2, <3>3 DEF WrittenBefore
    <3> QED BY <1>1, <1>2, <2>2, <2>4, <3>1, <3>4 DEF Sessions, Lifting
  <2>7. WrittenBefore(at)' = WrittenBefore(at')
    BY <1>1 DEF client, WrittenBefore, Writes
  <2> QED BY <1>1, <1>2, <1>5, <2>5, <2>6, <2>7 DEF client, WritesAreStaged, WritesAreKept
<1>6. CASE conn = "busy" /\ job = "commit"
  <2>1. op = "commit" /\ at = 1
    BY <1>1, <1>6, Messages DEF LeaseInv
  <2> HIDE DEF op
  <2>2. ended' = ended
    BY <1>1, <1>6 DEF WritesAreKept, LeaseInv, TypeOK
  <2>3. session.tx = "T" => session' = Committed(session)
    BY <1>1, <2>1 DEF Effect
  <2>4. outcome = "ok" => session'.staged = {} /\ session'.durable = Writes
    <3> SUFFICES ASSUME outcome = "ok" PROVE session'.staged = {} /\ session'.durable = Writes
      OBVIOUS
    <3>1. session.tx = "T" /\ session.staged = Writes /\ session.durable = {}
      BY <1>1, <1>2, <1>6, <2>1 DEF WritesAreKept
    <3>2. Committed(session).staged = {} /\ Committed(session).durable = session.durable \cup session.staged
      BY <1>2, SessionEnds
    <3>3. session.durable \cup session.staged = Writes
      BY <3>1
    <3> QED BY <2>3, <3>1, <3>2, <3>3
  <2>5. Writes' = Writes
    BY <1>1 DEF client, Writes
  <2> QED BY <1>1, <1>2, <1>6, <2>1, <2>2, <2>4, <2>5 DEF client, WritesAreStaged, WritesAreKept
<1> QED BY <1>2, <1>3, <1>4, <1>5, <1>6 DEF Phases

\* Refuse and Cancel: nothing is a success any more.
LEMMA UndoWrites ==
    ASSUME LeaseInv, WritesAreStaged, WritesAreKept, Plain, Executing, Undo(Message(job)[at]),
           reply' \in {"failed", "denied", "canceled"}
    PROVE  WritesAreStaged' /\ WritesAreKept'
<1> DEFINE op == Message(job)[at]
<1>1. /\ Working /\ reply = "none" /\ job \in Phases /\ session \in Sessions /\ mode = "write"
      /\ conn \in {"busy", "dead"} /\ (conn = "busy" => job = pc) /\ (conn = "dead" => pc = "done")
  BY DEF Executing, Working, LeaseInv, TypeOK, JobAgrees, Plain
<1>2. /\ UNCHANGED <<client, job, at>>
      /\ session' = IF op = "commit" THEN Over(session) ELSE Aborted(session)
      /\ ended' = (ended \/ (job = "script" /\ op = "commit" /\ session.tx = "T"))
  BY DEF Undo
<1>3. job \in {"begin", "limits", "commit"} => op # "commit" \/ job = "commit"
  BY Messages DEF LeaseInv
<1> HIDE DEF op
<1>4. /\ session'.staged = {} /\ session'.durable = session.durable
      /\ session.tx = "I" \/ op = "commit" => session'.tx = "I"
  BY <1>1, <1>2, SessionEnds
<1> QED BY <1>1, <1>2, <1>3, <1>4 DEF client, WritesAreStaged, WritesAreKept

LEMMA FinishWrites ==
    ASSUME LeaseInv, WritesAreStaged, WritesAreKept, Plain, Finish
    PROVE  WritesAreStaged' /\ WritesAreKept'
<1>1. /\ Working /\ reply = "none" /\ reply' = "ok" /\ job \in Phases /\ session \in Sessions /\ mode = "write"
      /\ at \in Nat \ {0} /\ at > Len(Message(job))
      /\ conn \in {"busy", "dead"} /\ (conn = "busy" => job = pc) /\ (conn = "dead" => pc = "done")
      /\ UNCHANGED <<client, job, at, ended>>
      /\ session' = IF session.tx = "I" THEN Committed(session) ELSE session
  BY DEF Finish, Working, LeaseInv, TypeOK, JobAgrees, Plain
<1>2. Writes' = Writes
  BY <1>1 DEF client, Writes
<1>3. /\ session.staged = {} => session'.staged = {} /\ session'.durable = session.durable
      /\ session.tx = "I" => session'.tx = "I"
      /\ session.tx # "I" => session' = session
  <2>1. CASE session.tx = "I"
    <3>1. Committed(session).tx = "I" /\ Committed(session).staged = {}
          /\ Committed(session).durable = session.durable \cup session.staged
      BY <1>1, SessionEnds
    <3>2. session.durable \cup {} = session.durable
      OBVIOUS
    <3> QED BY <1>1, <2>1, <3>1, <3>2
  <2>2. CASE session.tx # "I"
    BY <1>1, <2>2
  <2> QED BY <2>1, <2>2
<1>4. CASE conn = "busy" /\ job = "script"
  <2>1. ~ended => session.tx = "T"
    BY <1>1, <1>4 DEF LeaseInv, StandsInside, Stands
  <2>2. WrittenBefore(at) = Writes
    <3>1. Message(job) = script /\ script \in Seq(Statements)
      BY <1>1, <1>4 DEF Message, LeaseInv, TypeOK
    <3>2. \A i \in Writes : i < at
      BY <1>1, <3>1 DEF Writes
    <3> QED BY <3>2 DEF WrittenBefore
  <2> QED BY <1>1, <1>2, <1>3, <1>4, <2>1, <2>2 DEF client, WritesAreStaged, WritesAreKept
<1>5. CASE conn = "busy" /\ job = "commit"
  <2>1. at > 1
    BY <1>1, <1>5 DEF Message
  <2> QED BY <1>1, <1>2, <1>3, <1>5, <2>1 DEF client, WritesAreStaged, WritesAreKept
<1>6. CASE conn = "dead" \/ (conn = "busy" /\ job \notin {"script", "commit"})
  BY <1>1, <1>3, <1>6 DEF client, WritesAreStaged, WritesAreKept
<1> QED BY <1>1, <1>4, <1>5, <1>6

LEMMA GoneWrites ==
    ASSUME LeaseInv, WritesAreStaged, WritesAreKept, Plain, Die \/ Hangup
    PROVE  WritesAreStaged' /\ WritesAreKept'
<1>1. /\ session \in Sessions /\ UNCHANGED <<client, job, at, ended>> /\ session' = Over(session)
      /\ \/ conn = "busy" /\ Working /\ reply = "none" /\ reply' = "lost"
         \/ conn = "dead" /\ pc = "done"
  BY DEF Die, Hangup, Working, LeaseInv, TypeOK, JobAgrees
<1>2. session'.tx = "I" /\ session'.staged = {} /\ session'.durable = session.durable
  BY <1>1, SessionEnds
<1> QED BY <1>1, <1>2 DEF client, WritesAreStaged, WritesAreKept

\* Every action of the call leaves the session to the server.
LEMMA CallWrites ==
    ASSUME LeaseInv, WritesAreStaged, WritesAreKept, Plain,
           Send \/ Unreachable \/ Late \/ Expire \/ GraceExpires \/ Lose \/ Fail
    PROVE  WritesAreStaged' /\ WritesAreKept'
<1>0. mode = "write" /\ Writes' = Writes /\ session' = session /\ ended' = ended
  BY DEF Plain, Writes, Send, Unreachable, Late, Expire, GraceExpires, Lose, Fail, server
<1>1. CASE Send
  <2>1. /\ conn = (IF pc = "begin" THEN "none" ELSE "ready") /\ pc # "done" /\ conn' = "busy"
        /\ at' = 1 /\ reply' = "none" /\ pc' = pc /\ outcome' = outcome /\ script' = script
    BY <1>1 DEF Send
  <2>2. WrittenBefore(at)' = {}
    <3>1. \A i \in Writes : ~(i < 1)
      BY DEF Writes, LeaseInv, TypeOK
    <3> QED BY <1>0, <2>1, <3>1 DEF WrittenBefore
  <2> QED BY <1>0, <2>1, <2>2 DEF WritesAreStaged, WritesAreKept
<1>2. CASE Unreachable \/ Expire \/ Lose \/ GraceExpires
  <2>1. pc' = "done" /\ (outcome' \in {"unreachable", "expired", "lost"} \/ (outcome' = outcome /\ pc = "rollback"))
    BY <1>0, <1>2 DEF Unreachable, Expire, Lose, GraceExpires, Detached, Answers
  <2> QED BY <1>0, <2>1 DEF WritesAreStaged, WritesAreKept
<1>3. CASE Late
  <2>1. pc' \in {"done", "rollback"} /\ outcome' = "late"
    BY <1>3 DEF Late, Detached
  <2> QED BY <1>0, <2>1 DEF WritesAreStaged, WritesAreKept
<1>4. CASE Fail
  <2>1. pc' \in {"done", "rollback"} /\ outcome' \in {"failed", "denied", "canceled"} \cup {outcome}
          /\ (outcome' = outcome => outcome # "ok" \/ pc = "rollback")
    BY <1>0, <1>4 DEF Fail, Failure, Unwind, Answers
  <2> QED BY <1>0, <2>1 DEF WritesAreStaged, WritesAreKept
<1> QED BY <1>1, <1>2, <1>3, <1>4

LEMMA ProceedWrites ==
    ASSUME LeaseInv, WritesAreStaged, WritesAreKept, Plain,
           Begun \/ Limited \/ CursorDeclared \/ Queried \/ Executed \/ Returned
    PROVE  WritesAreStaged' /\ WritesAreKept'
<1>0. /\ mode = "write" /\ Writes' = Writes /\ session' = session /\ ended' = ended
      /\ conn = "busy" /\ reply = "ok" /\ conn' = "ready" /\ reply' = "ok" /\ job = pc
  BY DEF Plain, Writes, Begun, Limited, CursorDeclared, Queried, Executed, Returned, Proceed, server, LeaseInv, JobAgrees
<1>1. CASE Begun \/ Limited
  <2>1. pc \in {"begin", "limits"} /\ pc' \in {"limits", "script"} /\ outcome' = outcome
    BY <1>0, <1>1 DEF Begun, Limited, RefusedByGuard, Proceed
  <2> QED BY <1>0, <2>1 DEF WritesAreStaged, WritesAreKept
<1>2. CASE CursorDeclared \/ Queried
  BY <1>0, <1>2 DEF CursorDeclared, Queried, LeaseInv, Guarded
<1>3. CASE Executed
  <2>1. \/ pc = "script" /\ pc' = "rollback" /\ outcome' = "empty"
        \/ pc = "script" /\ pc' = "commit" /\ outcome' = Report
    BY <1>3 DEF Executed, Proceed
  <2>2. pc' = "commit" => (session.tx = "T" <=> outcome' = "ok") /\ outcome' \in {"ok", "noticed"}
    BY <2>1 DEF Report
  <2>3. ended => session.tx = "I"
    BY <1>0, <2>1 DEF WritesAreStaged
  <2>4. ~ended => session.staged = Writes /\ session.durable = {} /\ session.tx = "T"
    BY <1>0, <2>1 DEF WritesAreStaged
  <2> QED BY <1>0, <2>1, <2>2, <2>3, <2>4 DEF WritesAreStaged, WritesAreKept
<1>4. CASE Returned
  <2>1. pc \in {"commit", "rollback"} /\ pc' = "done" /\ outcome' = outcome
    BY <1>4 DEF Returned, Proceed
  <2> QED BY <1>0, <2>1 DEF WritesAreStaged, WritesAreKept
<1> QED BY <1>1, <1>2, <1>3, <1>4

\* A call keeps the kind and the text it was given.
LEMMA CallIsGiven == [Next]_vars => mode' = mode /\ script' = script
  BY DEF Next, vars, client, Server, Execute, Refuse, Cancel, Finish, Die, Hangup, Undo, Answered, Begun, Limited,
         CursorDeclared, Queried, Executed, Returned, Proceed, Fail, Lose, Send, Unreachable, Late, Expire, GraceExpires, Tick

LEMMA WritesStep == LeaseInv /\ WritesFollow /\ [Next]_vars => WritesFollow'
<1> SUFFICES ASSUME LeaseInv, WritesAreStaged, WritesAreKept, Plain, [Next]_vars
             PROVE  WritesAreStaged' /\ WritesAreKept'
  BY CallIsGiven DEF WritesFollow, Plain
<1>1. CASE Execute
  BY <1>1, ExecuteWrites
<1>2. CASE Refuse \/ Cancel
  BY <1>2, UndoWrites DEF Refuse, Cancel
<1>3. CASE Finish
  BY <1>3, FinishWrites
<1>4. CASE Die \/ Hangup
  BY <1>4, GoneWrites
<1>5. CASE Send \/ Unreachable \/ Late \/ Expire \/ GraceExpires \/ Lose \/ Fail
  BY <1>5, CallWrites
<1>6. CASE Begun \/ Limited \/ CursorDeclared \/ Queried \/ Executed \/ Returned
  BY <1>6, ProceedWrites
<1>7. CASE Tick \/ UNCHANGED vars
  <2>1. UNCHANGED <<client, server>>
    BY <1>7 DEF Tick, vars
  <2> QED BY <2>1 DEF client, server, WritesAreStaged, WritesAreKept, WrittenBefore, Writes
<1> QED BY <1>1, <1>2, <1>3, <1>4, <1>5, <1>6, <1>7 DEF Next, Server, Answered

\* A write tool that answers with success has made every write durable, all in the one
\* transaction it opened, and one that answers with the notice has not.
THEOREM SuccessIsTrue == Spec => []SuccessTellsTheTruth
<1>1. Init => WritesFollow
  BY DEF Init, Fresh, WritesFollow, WritesAreStaged, WritesAreKept
<1>2. WritesFollow => SuccessTellsTheTruth
  BY DEF WritesFollow, Plain, WritesAreKept, SuccessTellsTheTruth
<1> QED BY SpecInv, <1>1, <1>2, WritesStep, PTL DEF Spec

------------------------------------------------------------------------------
(* Lease implements CallPromise *)

\* A write tool with a script that leaves its transaction alone.
Alone == mode = "write" /\ ~ControlsTransactions

\* Everything lands when the COMMIT of the call is carried out, asked for and not before.
LandsAtOnce ==
    /\ ~ended
    /\ Working /\ job = "rollback" /\ at # 1 => session.staged = {}
    /\ pc = "commit" => outcome = "ok"
    /\ job # "commit" => session.durable = {} /\ (asked => pc = "done" /\ outcome = "late")
    /\ pc = "commit" /\ conn = "ready" => session.staged = Writes /\ session.tx = "T" /\ job # "commit"
    /\ pc = "done" /\ outcome = "ok" => job = "commit"
    /\ job = "commit" =>
          /\ asked /\ pc \in {"commit", "done"} /\ (pc = "commit" => conn = "busy")
          /\ reply = "none" /\ at = 1 => session.staged = Writes /\ session.durable = {} /\ session.tx = "T"
          /\ reply = "none" /\ at # 1 => session.staged = {} /\ session.durable = Writes
          /\ reply = "ok" => session.durable = Writes
          /\ reply \in {"failed", "denied", "canceled"} => session.durable = {}
          /\ session.durable \in {{}, Writes}
          /\ pc = "done" => \/ outcome \in {"expired", "lost"}
                            \/ outcome = "ok" /\ reply = "ok"
                            \/ outcome \in {"failed", "denied", "canceled"} /\ outcome = reply

PromiseInv == Alone => LandsAtOnce

LEMMA AloneIsPlain == Alone => Plain
  BY DEF Alone, Plain, ControlsTransactions

\* A statement of such a call changes what is durable only if it is the COMMIT of the call.
LEMMA ExecuteLands ==
    ASSUME LeaseInv, WritesFollow, Alone, LandsAtOnce, Execute
    PROVE  /\ LandsAtOnce'
           /\ \/ session'.durable = session.durable
              \/ job = "commit" /\ reply = "none" /\ session'.durable = Writes
<1> DEFINE op == Message(job)[at]
<1>1. /\ Working /\ Executing /\ reply = "none" /\ reply' = "none" /\ job' = job
      /\ UNCHANGED client /\ at' = at + 1
      /\ session' = Effect(session, op, at)
      /\ ended' = (ended \/ (job = "script" /\ session.tx = "T" /\ session'.tx = "I"))
      /\ ~Fails(session, op)
  BY DEF Execute, Executing, Working
<1>2. /\ session \in Sessions /\ at \in Nat \ {0} /\ job \in Phases /\ mode = "write"
      /\ conn \in {"busy", "dead"} /\ (conn = "busy" => job = pc) /\ (conn = "dead" => pc = "done")
  BY <1>1 DEF LeaseInv, TypeOK, JobAgrees, Alone, Working
<1>3. Writes' = Writes
  BY <1>1 DEF client, Writes
<1>4. CASE job = "script"
  <2>1. session.tx = "T"
    BY <1>1, <1>4 DEF LandsAtOnce, LeaseInv, StandsInside, Stands
  <2>2. op \in {"read", "write"} \cup Lifting
    <3>1. Message(job) = script /\ script \in Seq(Statements) /\ at <= Len(script)
      BY <1>1, <1>2, <1>4 DEF Message, Executing, LeaseInv, TypeOK
    <3>2. at \in DOMAIN script
      BY <1>2, <3>1
    <3>3. op \in {"read", "write", "bad", "commit", "rollback", "begin", "set", "set_config"} /\ op # "bad"
      BY <1>1, <1>4, Messages DEF LeaseInv, Fails
    <3> QED BY <3>1, <3>2, <3>3 DEF Alone, ControlsTransactions, Lifting
  <2> HIDE DEF op
  <2>3. session'.durable = session.durable /\ session'.tx = session.tx
    <3>1. CASE op = "read"
      BY <1>1, <1>2, <3>1, Effects
    <3>2. CASE op = "write"
      <4>1. session' = [session EXCEPT !.staged = session.staged \cup {at}]
        BY <1>1, <1>2, <3>2, Effects
      <4> QED BY <1>2, <4>1 DEF Sessions
    <3>3. CASE op \in Lifting
      <4>1. session' = [session EXCEPT !.limited = FALSE]
        BY <1>1, <1>2, <3>3, LiftingEffect
      <4> QED BY <1>2, <4>1 DEF Sessions
    <3> QED BY <2>2, <3>1, <3>2, <3>3
  <2> QED BY <1>1, <1>2, <1>4, <2>1, <2>3 DEF client, LandsAtOnce
<1>5. CASE job = "commit"
  <2>1. op = "commit" /\ at = 1
    BY <1>1, <1>5, Messages DEF LeaseInv
  <2>2. session.tx = "T" /\ session.staged = Writes /\ session.durable = {}
    BY <1>1, <1>5, <2>1 DEF LandsAtOnce
  <2>3. session' = Committed(session)
    BY <1>1, <2>1, <2>2 DEF Effect
  <2>4. session'.staged = {} /\ session'.durable = session.durable \cup session.staged
    BY <1>2, <2>3, SessionEnds
  <2>5. session.durable \cup session.staged = Writes
    BY <2>2
  <2> HIDE DEF op
  <2>6. session'.durable = Writes' /\ session'.staged = {} /\ ended' = ended /\ at' # 1 /\ reply' = "none" /\ job' = "commit"
    <3>1. ended' = ended
      BY <1>1, <1>5 DEF LeaseInv, TypeOK
    <3>2. session'.durable = Writes'
      BY <1>3, <2>4, <2>5
    <3> QED BY <1>1, <1>5, <2>1, <2>4, <3>1, <3>2
  <2>7. LandsAtOnce'
    BY <1>1, <1>2, <1>5, <2>6 DEF client, LandsAtOnce
  <2> QED BY <1>1, <1>3, <1>5, <2>6, <2>7
<1>6. CASE job \in {"begin", "limits", "declare", "rollback"}
  <2>1. /\ job = "begin" => op = "start"
        /\ job = "limits" => op = "limit"
        /\ job = "rollback" => op = "rollback"
        /\ job = "declare" => FALSE
    BY <1>1, <1>2, Messages DEF LeaseInv, Guarded
  <2> HIDE DEF op
  <2>2. session'.durable = session.durable
    <3>1. CASE op = "start"
      <4>1. session' = [session EXCEPT !.tx = "T", !.readOnly = (mode = "read")]
        BY <1>1, <1>2, <3>1, Effects
      <4> QED BY <1>2, <4>1 DEF Sessions
    <3>2. CASE op = "limit"
      <4>1. session' = [session EXCEPT !.limited = (session.tx = "T")]
        BY <1>1, <1>2, <3>2, Effects
      <4> QED BY <1>2, <4>1 DEF Sessions
    <3>3. CASE op = "rollback"
      <4>1. session' = Over(session)
        BY <1>1, <1>2, <3>3, Effects
      <4> QED BY <1>2, <4>1, SessionEnds
    <3> QED BY <1>6, <2>1, <3>1, <3>2, <3>3
  <2>3. job = "rollback" => session'.staged = {}
    <3> SUFFICES ASSUME job = "rollback" PROVE session'.staged = {}
      OBVIOUS
    <3>1. op = "rollback"
      BY <2>1
    <3>2. session' = Over(session)
      BY <1>1, <1>2, <3>1, Effects
    <3> QED BY <1>2, <3>2, SessionEnds
  <2> QED BY <1>1, <1>2, <1>6, <2>2, <2>3 DEF client, LandsAtOnce, Working
<1> QED BY <1>2, <1>4, <1>5, <1>6 DEF Phases

\* Nothing else the server does changes what is durable.
LEMMA ServerLands ==
    ASSUME LeaseInv, WritesFollow, Alone, LandsAtOnce, Refuse \/ Cancel \/ Finish \/ Die \/ Hangup
    PROVE  LandsAtOnce' /\ session'.durable = session.durable
<1>1. /\ session \in Sessions /\ UNCHANGED <<client, job, at>> /\ job \in Phases \cup {"none"} /\ at \in Nat \ {0}
      /\ conn = "busy" => job = pc
      /\ Writes' = Writes
  BY DEF Refuse, Cancel, Finish, Die, Hangup, Undo, client, Writes, LeaseInv, TypeOK, JobAgrees
<1>2. CASE Refuse \/ Cancel
  <2>1. Working /\ Executing /\ reply' \in {"failed", "denied", "canceled"} /\ Undo(Message(job)[at])
    BY <1>2 DEF Refuse, Cancel, Executing
  <2>2. job = "script" => Message(job)[at] # "commit"
    <3> SUFFICES ASSUME job = "script" PROVE Message(job)[at] # "commit"
      OBVIOUS
    <3>1. Message(job) = script /\ script \in Seq(Statements) /\ at <= Len(script)
      BY <2>1 DEF Message, Executing, LeaseInv, TypeOK, Alone
    <3>2. at \in DOMAIN script
      BY <1>1, <3>1
    <3> QED BY <3>1, <3>2 DEF Alone, ControlsTransactions
  <2>3. job = "commit" => at = 1
    BY <2>1, Messages DEF LeaseInv
  <2>4. /\ session' \in {Over(session), Aborted(session)}
        /\ ended' = (ended \/ (job = "script" /\ Message(job)[at] = "commit" /\ session.tx = "T"))
    BY <2>1 DEF Undo
  <2>5. session'.durable = session.durable /\ session'.staged = {}
    BY <1>1, <2>4, SessionEnds
  <2> QED BY <1>1, <2>1, <2>2, <2>3, <2>4, <2>5 DEF client, LandsAtOnce, Working, LeaseInv, JobAgrees
<1>3. CASE Finish
  <2>1. Working /\ reply = "none" /\ reply' = "ok" /\ ended' = ended /\ at > Len(Message(job))
        /\ session' = IF session.tx = "I" THEN Committed(session) ELSE session
    BY <1>3 DEF Finish, Working
  <2>2. job = "commit" => at # 1
    BY <2>1 DEF Message
  <2>3. session.tx = "I" => session.staged = {}
    <3> SUFFICES ASSUME session.tx = "I" PROVE session.staged = {}
      OBVIOUS
    <3>1. job \in {"begin", "limits", "rollback"} => at > 1
      BY <1>1, <2>1 DEF Message
    <3>2. job \notin {"begin", "limits", "declare", "script"}
      BY <2>1, <3>1 DEF LeaseInv, StandsInside, Stands, LandsAtOnce
    <3>3. job \in {"commit", "rollback"}
      BY <1>1, <2>1, <3>2 DEF Phases, Working
    <3> QED BY <2>1, <2>2, <3>1, <3>3 DEF LandsAtOnce, LeaseInv, OverAtTheEnd
  <2>4. session'.durable = session.durable /\ session'.staged = session.staged
    <3>1. CASE session.tx = "I"
      <4>1. Committed(session).durable = session.durable \cup session.staged /\ Committed(session).staged = {}
        BY <1>1, SessionEnds
      <4>2. session.durable \cup {} = session.durable
        OBVIOUS
      <4> QED BY <2>1, <2>3, <3>1, <4>1, <4>2
    <3>2. CASE session.tx # "I"
      BY <2>1, <3>2
    <3> QED BY <3>1, <3>2
  <2> QED BY <1>1, <2>1, <2>2, <2>4 DEF client, LandsAtOnce, LeaseInv, JobAgrees
<1>4. CASE Die \/ Hangup
  <2>1. /\ session' = Over(session) /\ ended' = ended
        /\ (reply = "none" /\ reply' = "lost" /\ conn = "busy") \/ (reply' = reply /\ ~Working /\ conn = "dead")
    BY <1>4 DEF Die, Hangup, Working
  <2>2. session'.durable = session.durable /\ session'.staged = {}
    BY <1>1, <2>1, SessionEnds
  <2> QED BY <1>1, <2>1, <2>2 DEF client, LandsAtOnce, Working
<1> QED BY <1>2, <1>3, <1>4

LEMMA ModeIsKnown == LeaseInv => mode \in {"read", "write"}
  BY LeaseAssumption DEF LeaseInv, TypeOK

\* What the call does comes from the phase it is in and leaves the session to the server.
LEMMA CallQuiet ==
    ASSUME LeaseInv, Send \/ Unreachable \/ Late \/ Expire \/ GraceExpires \/ Answered
    PROVE  session' = session /\ pc # "done"
<1>1. conn = "busy" => pc # "done"
  BY DEF LeaseInv, JobAgrees, TypeOK, Phases
<1> QED
  BY <1>1 DEF Answered, Begun, Limited, CursorDeclared, Queried, Executed, Returned, Proceed,
     Fail, Lose, Send, Unreachable, Late, Expire, GraceExpires, server

\* What the call does leaves the session alone and an answer that agrees with it.
LEMMA CallLands ==
    ASSUME LeaseInv, WritesFollow, Alone, LandsAtOnce,
           Send \/ Unreachable \/ Late \/ Expire \/ GraceExpires \/ Answered
    PROVE  LandsAtOnce'
<1>1. /\ mode = "write" /\ Plain /\ WritesAreStaged /\ WritesAreKept
      /\ UNCHANGED <<mode, script, session, ended>> /\ Writes' = Writes
  BY AloneIsPlain DEF Alone, WritesFollow, Answered, Begun, Limited, CursorDeclared, Queried, Executed, Returned, Proceed,
     Fail, Lose, Send, Unreachable, Late, Expire, GraceExpires, server, Writes
<1>2. /\ conn = "none" => job = "none" /\ pc \in {"begin", "done"}
      /\ conn = "busy" => job = pc /\ pc \in Phases /\ pc # "done"
  BY DEF LeaseInv, JobAgrees, TypeOK, Phases
<1>3. outcome = "ok" => pc \in {"commit", "done"}
  BY <1>1 DEF WritesAreKept
<1>4. CASE Send
  <2>1. /\ pc # "done" /\ conn = (IF pc = "begin" THEN "none" ELSE "ready") /\ conn' = "busy" /\ job' = pc
        /\ at' = 1 /\ reply' = "none" /\ pc' = pc /\ outcome' = outcome /\ asked' = (asked \/ pc = "commit")
    BY <1>4 DEF Send
  <2>2. job # "commit"
    BY <1>2, <2>1 DEF LandsAtOnce
  <2> QED BY <1>1, <2>1, <2>2 DEF LandsAtOnce
<1>5. CASE Unreachable \/ Late
  <2>1. /\ conn \in {"none", "ready"} /\ pc # "done" /\ UNCHANGED <<job, at, reply>>
        /\ pc' \in {"done", "rollback"} /\ outcome' \in {"late", "unreachable"}
        /\ asked' => (asked \/ (pc = "commit" /\ pc' = "done" /\ outcome' = "late"))
    <3>1. CASE Unreachable
      BY <3>1 DEF Unreachable, server
    <3>2. CASE Late
      <4>1. /\ conn \in {"none", "ready"} /\ pc \notin {"done", "rollback"} /\ UNCHANGED <<job, at, reply>>
            /\ outcome' = "late" /\ asked' = (asked \/ pc = "commit")
            /\ pc' = IF pc \in {"begin", "commit", "rollback"} THEN "done" ELSE "rollback"
        BY <3>2 DEF Late, Detached, server
      <4> QED BY <4>1
    <3> QED BY <1>5, <3>1, <3>2
  <2>2. job # "commit" /\ ~asked
    BY <1>2, <2>1 DEF LandsAtOnce
  <2> QED BY <1>1, <2>1, <2>2 DEF LandsAtOnce, Working
<1>6. CASE Expire \/ GraceExpires \/ Lose
  <2>1. /\ conn = "busy" /\ UNCHANGED <<job, at, reply, asked>> /\ pc' = "done"
        /\ outcome' \in {"expired", "lost"} \/ (pc = "rollback" /\ outcome' = outcome)
    BY <1>1, <1>6 DEF Expire, GraceExpires, Lose, Detached, Answers, server
  <2> QED BY <1>1, <1>2, <1>3, <2>1 DEF LandsAtOnce, Working
<1>7. CASE Fail
  <2>1. /\ conn = "busy" /\ UNCHANGED <<job, at, reply, asked>>
        /\ outcome' = IF pc = "rollback" THEN outcome ELSE reply
        /\ reply \in {"failed", "denied", "canceled"} /\ pc' \in {"done", "rollback"} /\ (pc = "commit" => pc' = "done")
    BY <1>1, <1>7 DEF Fail, Failure, Unwind, Answers, server
  <2> QED BY <1>1, <1>2, <1>3, <2>1 DEF LandsAtOnce, Working
<1>8. CASE Begun \/ Limited \/ CursorDeclared \/ Queried \/ Executed \/ Returned
  <2>1. conn = "busy" /\ reply = "ok" /\ conn' = "ready" /\ UNCHANGED <<job, at, reply, asked>>
    BY <1>8 DEF Begun, Limited, CursorDeclared, Queried, Executed, Returned, Proceed, server
  <2>2. CASE Begun \/ Limited
    <3>1. pc \in {"begin", "limits"} /\ pc' \in {"limits", "script"} /\ outcome' = outcome
      BY <1>1, <2>2 DEF Begun, Limited, RefusedByGuard, Proceed
    <3> QED BY <1>1, <1>2, <2>1, <3>1 DEF LandsAtOnce, Working
  <2>3. CASE CursorDeclared \/ Queried
    BY <1>1, <2>3 DEF CursorDeclared, Queried, LeaseInv, Guarded
  <2>4. CASE Executed
    <3>1. pc = "script" /\ session.staged = Writes /\ session.tx = "T"
      BY <1>1, <2>1, <2>4 DEF Executed, WritesAreStaged, LandsAtOnce
    <3>2. (pc' = "rollback" /\ outcome' = "empty") \/ (pc' = "commit" /\ outcome' = "ok")
      BY <2>4, <3>1 DEF Executed, Proceed, Report
    <3> QED BY <1>1, <1>2, <2>1, <3>1, <3>2 DEF LandsAtOnce, Working
  <2>5. CASE Returned
    <3>1. pc \in {"commit", "rollback"} /\ pc' = "done" /\ outcome' = outcome
      BY <2>5 DEF Returned, Proceed
    <3> QED BY <1>1, <1>2, <1>3, <2>1, <3>1 DEF LandsAtOnce, Working
  <2> QED BY <1>8, <2>2, <2>3, <2>4, <2>5
<1> QED BY <1>4, <1>5, <1>6, <1>7, <1>8 DEF Answered

LEMMA Unhurried ==
    ASSUME Tick \/ UNCHANGED vars
    PROVE  UNCHANGED <<client, server>>
  BY DEF Tick, vars

LEMMA PromiseStep == LeaseInv /\ WritesFollow /\ PromiseInv /\ [Next]_vars => PromiseInv'
<1> SUFFICES ASSUME LeaseInv, WritesFollow, Alone, LandsAtOnce, [Next]_vars
             PROVE  LandsAtOnce'
  BY CallIsGiven DEF PromiseInv, Alone, ControlsTransactions
<1>1. CASE Execute
  BY <1>1, ExecuteLands
<1>2. CASE Refuse \/ Cancel \/ Finish \/ Die \/ Hangup
  BY <1>2, ServerLands
<1>3. CASE Send \/ Unreachable \/ Late \/ Expire \/ GraceExpires \/ Answered
  BY <1>3, CallLands
<1>4. CASE Tick \/ UNCHANGED vars
  BY <1>4, Unhurried DEF client, server, LandsAtOnce, Working, Writes
<1> QED BY <1>1, <1>2, <1>3, <1>4 DEF Next, Server

------------------------------------------------------------------------------
\* Every step of a call is a step of its promise, or none.
LEMMA PromiseKept ==
    ASSUME LeaseInv, LeaseInv', WritesFollow, PromiseInv, PromiseInv', [Next]_vars
    PROVE  [Promise!Next]_(Promise!vars)
<1> DEFINE durable == IF mode = "write" /\ ControlsTransactions THEN {} ELSE session.durable
           answer  == IF pc # "done" THEN "pending"
                      ELSE IF outcome = "ok" THEN "success"
                      ELSE IF asked /\ outcome \in {"expired", "lost"} THEN "doubt" ELSE "failure"
<1>1. mode' = mode /\ script' = script
  BY CallIsGiven
<1>2. AnswersFor' = AnswersFor /\ (Alone' <=> Alone) /\ Writes' = Writes
  BY <1>1 DEF AnswersFor, Alone, ControlsTransactions, Writes
<1>3. CASE Server
  <2>1. client' = client
    BY <1>3 DEF Server, Execute, Refuse, Cancel, Finish, Die, Hangup, Undo
  <2>2. answer' = answer
    BY <2>1 DEF client
  <2>3. durable' = durable \/ (durable' = AnswersFor /\ answer \in {"pending", "doubt"})
    <3>1. CASE ~Alone
      <4>1. durable = {} /\ durable' = {}
        BY <1>1, <3>1, ModeIsKnown DEF Alone, ControlsTransactions, LeaseInv, ReadStaysRead
      <4> QED BY <4>1
    <3>2. CASE Alone
      <4>1. LandsAtOnce
        BY <3>2 DEF PromiseInv
      <4>2. durable = session.durable /\ durable' = session'.durable /\ AnswersFor = Writes
        BY <1>1, <3>2 DEF Alone, ControlsTransactions, AnswersFor
      <4>3. \/ session'.durable = session.durable
            \/ job = "commit" /\ reply = "none" /\ session'.durable = Writes
        BY <1>3, <3>2, <4>1, ExecuteLands, ServerLands DEF Server
      <4>4. job = "commit" /\ reply = "none" => answer \in {"pending", "doubt"}
        BY <4>1 DEF LandsAtOnce
      <4> QED BY <4>2, <4>3, <4>4
    <3> QED BY <3>1, <3>2
  <2> HIDE DEF durable, answer
  <2> QED BY <1>2, <2>2, <2>3 DEF Promise!Next, Promise!Land, Promise!vars, durable, answer
<1>4. CASE Send \/ Unreachable \/ Late \/ Expire \/ GraceExpires \/ Answered
  <2>1. session' = session /\ pc # "done"
    BY <1>4, CallQuiet
  <2>2. durable' = durable /\ answer = "pending"
    BY <1>1, <2>1 DEF ControlsTransactions
  <2>3. \/ answer' = "pending" \/ answer' = "doubt"
        \/ answer' = "success" /\ durable = AnswersFor
        \/ answer' = "failure" /\ durable = {}
    <3>1. CASE ~Alone
      <4>1. durable = {} /\ AnswersFor = {}
        BY <1>1, <3>1, ModeIsKnown DEF Alone, ControlsTransactions, LeaseInv, ReadStaysRead, AnswersFor
      <4> QED BY <4>1
    <3>2. CASE Alone
      <4>1. LandsAtOnce'
        BY <1>2, <3>2 DEF PromiseInv
      <4>2. durable = session.durable /\ AnswersFor = Writes
        BY <3>2 DEF Alone, AnswersFor
      <4> QED BY <1>2, <2>1, <4>1, <4>2 DEF LandsAtOnce
    <3> QED BY <3>1, <3>2
  <2> HIDE DEF durable, answer
  <2> QED BY <1>2, <2>2, <2>3 DEF Promise!Next, Promise!Answer, Promise!vars, durable, answer
<1>5. CASE Tick \/ UNCHANGED vars
  <2>1. UNCHANGED <<client, session>>
    BY <1>5, Unhurried DEF server
  <2>2. durable' = durable /\ answer' = answer
    BY <1>1, <2>1 DEF client, ControlsTransactions
  <2> HIDE DEF durable, answer
  <2> QED BY <1>2, <2>2 DEF Promise!vars, durable, answer
<1> QED BY <1>3, <1>4, <1>5 DEF Next

LEMMA PromiseInit == Init => WritesFollow /\ PromiseInv /\ Promise!Init
  BY DEF Init, Fresh, WritesFollow, WritesAreStaged, WritesAreKept, PromiseInv, LandsAtOnce, Working, Promise!Init

\* Lease implements CallPromise: the changes of a call land all at once or not at all, a
\* success comes after the fact, a failure is final and a doubt is only a Commit unanswered.
THEOREM CallsKeepTheirPromise == Spec => KeepsPromise
<1>1. LeaseInv /\ LeaseInv' /\ WritesFollow /\ PromiseInv /\ PromiseInv' /\ [Next]_vars => [Promise!Next]_(Promise!vars)
  BY PromiseKept
<1> QED BY SpecInv, PromiseInit, WritesStep, PromiseStep, <1>1, PTL DEF Spec, KeepsPromise, Promise!Spec
------------------------------------------------------------------------------
(* A call goes on only so long *)

\* The server's work on a message is what is left of it, and a rollback, which is never
\* refused, meets no limit either: its statement starts anew and the clock of the call is
\* stopped.
WorkInv ==
    /\ script \in Scripts
    /\ Working => at <= Len(Message(job)) + 1
    /\ job = "rollback" => /\ pc \in {"rollback", "done"} /\ running = 0
                           /\ conn = "busy" => reply \in {"none", "ok", "lost"}

\* The message of a phase is one statement, or the script.
LEMMA MessageLength ==
    ASSUME script \in Scripts, NEW p \in Phases
    PROVE  Len(Message(p)) \in 0..(MaxScript + 1)
<1>1. script \in Seq(Statements) /\ Len(script) \in 0..MaxScript
  BY LeaseAssumption DEF Scripts
<1>2. CASE p \in {"begin", "limits", "commit", "rollback"}
  BY <1>2, LeaseAssumption DEF Message
<1>3. OneStatement(script) \in {script, <<"bad">>} /\ Len(OneStatement(script)) = 1
  BY DEF OneStatement
<1>4. CASE p = "declare"
  <2>1. Len(Declared(OneStatement(script))) = 1
    BY <1>1, <1>3 DEF Declared
  <2>2. Message(p) = Declared(OneStatement(script))
    BY <1>4 DEF Message
  <2> QED BY <2>1, <2>2, LeaseAssumption
<1>5. CASE p = "script"
  <2>1. Message(p) \in {OneStatement(script), script}
    BY <1>5 DEF Message
  <2> QED BY <1>1, <1>3, <2>1, LeaseAssumption
<1> QED BY <1>2, <1>4, <1>5 DEF Phases

\* The message of a phase is the same after any step.
LEMMA MessageStays ==
    ASSUME mode' = mode, script' = script, NEW p
    PROVE  Message(p)' = Message(p)
  BY DEF Message, Declared, OneStatement

LEMMA WorkInit == Init => WorkInv
<1> SUFFICES ASSUME Init PROVE WorkInv
  OBVIOUS
<1> QED BY DEF Init, WorkInv, Working

LEMMA WorkNext == LeaseInv /\ WorkInv /\ [Next]_vars => WorkInv'
<1> SUFFICES ASSUME LeaseInv, WorkInv, [Next]_vars PROVE WorkInv'
  OBVIOUS
<1> USE DEF WorkInv
<1>1. mode' = mode /\ script' = script
  BY DEF Next, Server, Answered, Execute, Refuse, Cancel, Undo, Finish, Die, Hangup, Send, Unreachable,
         Late, Expire, GraceExpires, Lose, Fail, Begun, Limited, CursorDeclared, Queried, Executed,
         Returned, Proceed, Tick, vars, client
<1>2. Message(job)' = Message(job) \/ job' # job
  BY <1>1, MessageStays
<1>3. CASE Execute
  <2>1. /\ at' = at + 1 /\ running' = 0 /\ job' = job /\ reply' = reply /\ pc' = pc /\ conn' = conn
        /\ at \in Nat /\ at <= Len(Message(job)) /\ job \in Phases
    BY <1>3 DEF Execute, Executing, Working, client, LeaseInv, TypeOK
  <2> QED BY <1>1, <1>2, <2>1 DEF Working
<1>4. CASE Refuse \/ Cancel
  <2>1. /\ Executing /\ UNCHANGED <<job, at, running, pc, conn>> /\ reply' # "none"
    BY <1>4 DEF Refuse, Cancel, Undo, client
  <2>2. ASSUME job = "rollback", conn = "busy" PROVE FALSE
    <3>1. Message(job)[at] = "rollback"
      BY <2>1, <2>2, Messages DEF LeaseInv
    <3>2. ~AtLimit
      BY <2>2, LeaseAssumption DEF AtLimit
    <3>3. ~Fails(session, "rollback")
      BY DEF Fails
    <3> QED BY <1>4, <2>2, <3>1, <3>2, <3>3 DEF Refuse, Cancel
  <2> QED BY <1>1, <2>1, <2>2 DEF Working
<1>5. CASE Finish \/ Die \/ Hangup
  BY <1>1, <1>5 DEF Finish, Die, Hangup, Working, client
<1>6. CASE Send
  <2>1. pc \in Phases /\ Len(Message(pc)) \in 0..(MaxScript + 1) /\ Len(Message(pc))' = Len(Message(pc))
    BY <1>1, <1>6, MessageLength, MessageStays DEF Send, LeaseInv, TypeOK
  <2> QED BY <1>1, <1>6, <2>1, LeaseAssumption DEF Send, Working
<1>7. CASE Answered \/ Unreachable \/ Late \/ Expire \/ GraceExpires
  <2>1. UNCHANGED <<job, at, reply, running>>
    BY <1>7 DEF Answered, Unreachable, Late, Expire, GraceExpires, Lose, Fail, Begun, Limited,
                CursorDeclared, Queried, Executed, Returned, Proceed, server
  <2>2. job = "rollback" => pc' \in {"rollback", "done"} /\ conn' # "busy"
    <3>1. CASE Unreachable \/ Late \/ Expire \/ GraceExpires \/ Lose
      BY <3>1 DEF Unreachable, Late, Expire, GraceExpires, Lose, Detached, LeaseInv, JobAgrees
    <3>2. CASE Fail
      BY <3>2 DEF Fail, Unwind, ReadToTheEnd, LeaseInv, JobAgrees
    <3>3. CASE Begun \/ Limited \/ CursorDeclared \/ Queried \/ Executed \/ Returned
      BY <3>3 DEF Begun, Limited, CursorDeclared, Queried, Executed, Returned, Proceed, LeaseInv, JobAgrees
    <3> QED BY <1>7, <3>1, <3>2, <3>3 DEF Answered
  <2> QED BY <1>1, <1>2, <2>1, <2>2 DEF Working
<1>8. CASE Tick
  BY <1>1, <1>2, <1>8 DEF Tick, Working, client, server
<1>9. CASE UNCHANGED vars
  BY <1>1, <1>2, <1>9 DEF vars, client, server, Working
<1> QED BY <1>3, <1>4, <1>5, <1>6, <1>7, <1>8, <1>9 DEF Next, Server

\* One phase ahead outweighs all there is to do in a phase.
LEMMA PhaseOutweighs ==
    ASSUME NEW a \in 0..13, NEW b \in 0..13, b < a
    PROVE  /\ (2 * MaxScript + 5) * b \in Nat
           /\ (2 * MaxScript + 5) * a >= (2 * MaxScript + 5) * b + (2 * MaxScript + 5)
<1> DEFINE w == 2 * MaxScript + 5
<1>1. w \in Nat
  BY LeaseAssumption
<1> HIDE DEF w
<1>2. w * b \in Nat /\ w * a >= w * (b + 1)
  BY <1>1
<1>3. w * (b + 1) = w * b + w
  BY <1>1
<1> QED BY <1>2, <1>3 DEF w

\* The parts of the distance are numbers, and one phase outweighs the server's part.
DistanceParts ==
    /\ ToGo[pc] \in 0..6 /\ Ahead \in 0..13 /\ Open \in 0..1
    /\ Unserved \in 0..(MaxScript + 2) /\ (Working => Unserved >= 1)
    /\ ClientDeadline - elapsed \in Nat
    /\ Distance \in Nat

LEMMA DistanceType == LeaseInv /\ WorkInv => DistanceParts
<1> SUFFICES ASSUME LeaseInv, WorkInv PROVE DistanceParts
  OBVIOUS
<1>1. pc \in Phases \cup {"done"} /\ elapsed \in 0..ClientDeadline /\ ClientDeadline \in Nat /\ MaxScript \in Nat
  BY LeaseAssumption DEF LeaseInv, TypeOK, ClientDeadline
<1>2. ToGo[pc] \in 0..6 /\ (pc = "done" => ToGo[pc] = 0)
  BY <1>1 DEF ToGo, Phases
<1>3. Ahead \in 0..13
  BY <1>2 DEF Ahead
<1>4. Unserved \in 0..(MaxScript + 2) /\ (Working => Unserved >= 1)
  <2>1. CASE Working
    <3>1. job \in Phases /\ at \in Nat \ {0} /\ at <= Len(Message(job)) + 1
      BY <2>1 DEF Working, LeaseInv, TypeOK, WorkInv
    <3>2. Len(Message(job)) \in 0..(MaxScript + 1)
      BY <3>1, MessageLength DEF WorkInv
    <3> QED BY <1>1, <2>1, <3>1, <3>2 DEF Unserved
  <2>2. CASE ~Working
    BY <1>1, <2>2 DEF Unserved
  <2> QED BY <2>1, <2>2
<1>5. (2 * MaxScript + 5) * Ahead \in Nat
  <2>1. \A x, y \in Nat : x * y \in Nat
    OBVIOUS
  <2>2. 2 * MaxScript + 5 \in Nat /\ Ahead \in Nat
    BY <1>1, <1>3
  <2> QED BY <2>1, <2>2
<1>6. Open \in 0..1 /\ ClientDeadline - elapsed \in Nat
  BY <1>1 DEF Open
<1>7. Distance \in Nat
  <2> HIDE DEF Ahead, Unserved, Open, ClientDeadline
  <2>1. Unserved \in Nat /\ Open \in Nat
    BY <1>1, <1>4, <1>6
  <2> QED BY <1>1, <1>5, <1>6, <2>1 DEF Distance
<1> QED BY <1>1, <1>2, <1>3, <1>4, <1>6, <1>7 DEF DistanceParts

LEMMA DistanceTypeLater == (LeaseInv /\ WorkInv => DistanceParts)'
  BY DistanceType, PTL

\* A step of the client takes the call into another phase, or sends the message of one.
LEMMA ClientMovesOn ==
    ASSUME LeaseInv, WorkInv, Send \/ Answered \/ Unreachable \/ Late \/ Expire \/ GraceExpires
    PROVE  Ahead' < Ahead
<1>1. pc \in Phases \cup {"done"}
  BY DEF LeaseInv, TypeOK
<1>2. CASE Send
  BY <1>1, <1>2 DEF Send, Ahead, ToGo, Phases
<1>3. CASE Unreachable \/ Late \/ Expire \/ GraceExpires \/ Lose
  <2>1. pc \in Phases /\ pc' \in {"rollback", "done"} /\ (pc' = "rollback" => pc # "rollback" /\ Late)
    BY <1>1, <1>3 DEF Unreachable, Late, Expire, GraceExpires, Lose, Detached, LeaseInv, TypeOK, JobAgrees, Phases
  <2>2. CASE pc' = "done"
    BY <2>1, <2>2 DEF Ahead, ToGo, Phases
  <2>3. CASE pc' = "rollback"
    <3>1. pc \in {"limits", "declare", "script"} /\ conn' = conn
      BY <2>1, <2>3 DEF Late, Phases
    <3> QED BY <2>3, <3>1 DEF Ahead, ToGo
  <2> QED BY <2>1, <2>2, <2>3
<1>4. CASE Fail
  <2>1. pc \in Phases \ {"rollback"}
    BY <1>1, <1>4 DEF Fail, LeaseInv, TypeOK, JobAgrees, WorkInv, Phases
  <2>2. CASE pc \in {"begin", "commit"}
    <3>1. pc' = "done"
      BY <1>4, <2>2 DEF Fail, Unwind, ReadToTheEnd
    <3> QED BY <2>2, <3>1 DEF Ahead, ToGo
  <2>3. CASE pc \in {"limits", "declare", "script"}
    <3>1. pc' = "rollback" /\ conn = "busy" /\ conn' = "ready"
      BY <1>4, <2>3 DEF Fail, Unwind, ReadToTheEnd
    <3> QED BY <2>3, <3>1 DEF Ahead, ToGo
  <2> QED BY <2>1, <2>2, <2>3 DEF Phases
<1>5. CASE Begun \/ Limited \/ CursorDeclared \/ Queried \/ Executed \/ Returned
  BY <1>5 DEF Begun, Limited, CursorDeclared, Queried, Executed, Returned, Proceed, Ahead, ToGo
<1> QED BY <1>2, <1>3, <1>4, <1>5 DEF Answered

\* It outweighs what it gives the server to do.
LEMMA ClientAdvances ==
    ASSUME LeaseInv, WorkInv, LeaseInv', WorkInv', UNCHANGED <<session, elapsed>>, Ahead' < Ahead
    PROVE  Distance' < Distance
<1>1. /\ Ahead \in 0..13 /\ Ahead' \in 0..13 /\ Unserved \in Nat /\ Unserved' \in 0..(MaxScript + 2)
      /\ ClientDeadline - elapsed \in Nat /\ Open \in 0..1 /\ MaxScript \in Nat
  BY DistanceType, DistanceTypeLater, LeaseAssumption DEF DistanceParts
<1>2. Unserved' \in 0..(MaxScript + 2) /\ Ahead' \in 0..13
  BY DistanceTypeLater DEF DistanceParts
<1>3. Open' = Open /\ ClientDeadline - elapsed' = ClientDeadline - elapsed
  BY DEF Open
<1> HIDE DEF Ahead, Unserved, Open, ClientDeadline
<1> DEFINE weigh(a) == (2 * MaxScript + 5) * a
<1>4. weigh(Ahead') \in Nat /\ weigh(Ahead) >= weigh(Ahead') + (2 * MaxScript + 5)
  BY <1>1, <1>2, PhaseOutweighs
<1>5. /\ Distance = weigh(Ahead) + 2 * Unserved + Open + (ClientDeadline - elapsed)
      /\ Distance' = weigh(Ahead') + 2 * Unserved' + Open' + (ClientDeadline - elapsed')
  BY DEF Distance, ClientDeadline
<1>6. weigh(Ahead) \in Nat
  <2>1. \A x, y \in Nat : x * y \in Nat
    OBVIOUS
  <2> QED BY <1>1, <2>1
<1> HIDE DEF weigh
<1> QED BY <1>1, <1>2, <1>3, <1>4, <1>5, <1>6

\* The sums in use, apart from what they count.
LEMMA Counting ==
    /\ \A u, v \in Nat, o, p \in 0..1 : v < u => 2 * v + p < 2 * u + o
    /\ \A a, x, y, c \in Nat : x < y => a + x + c < a + y + c
    /\ \A a, b, x, y \in Nat : x < y => a + b + x < a + b + y
  OBVIOUS

\* A step of the server leaves it less to do, or closes the transaction it has open.
LEMMA ServerAdvances ==
    ASSUME LeaseInv, WorkInv, LeaseInv', WorkInv', Server
    PROVE  2 * Unserved' + Open' < 2 * Unserved + Open
<1>1. job' = job /\ mode' = mode /\ script' = script
  BY DEF Server, Execute, Refuse, Cancel, Undo, Finish, Die, Hangup, client
<1>2. /\ Unserved \in Nat /\ Open \in 0..1 /\ (Working => Unserved >= 1)
      /\ Unserved' \in Nat /\ Open' \in 0..1
  BY DistanceType, DistanceTypeLater, LeaseAssumption DEF DistanceParts
<1>3. CASE Execute
  <2>1. Working /\ Working' /\ at' = at + 1 /\ Message(job)' = Message(job) /\ job' = job
    BY <1>1, <1>3, MessageStays DEF Execute, Executing, Working
  <2>2. Len(Message(job)) \in Nat /\ at \in Nat
    BY <1>1, <2>1, MessageLength, LeaseAssumption DEF Working, WorkInv, LeaseInv, TypeOK
  <2>3. Unserved' < Unserved
    BY <2>1, <2>2 DEF Unserved
  <2> QED BY <1>2, <2>3, Counting
<1>4. CASE Refuse \/ Cancel \/ Finish \/ Die
  <2>1. Working /\ ~Working'
    BY <1>4 DEF Refuse, Cancel, Undo, Finish, Die, Executing, Working
  <2>2. Unserved >= 1 /\ Unserved' = 0
    BY <1>2, <2>1 DEF Unserved
  <2>3. Unserved' < Unserved
    BY <1>2, <2>2
  <2> QED BY <1>2, <2>3, Counting
<1>5. CASE Hangup
  <2>1. ~Working /\ ~Working' /\ session.tx # "I" /\ session'.tx = "I"
    BY <1>5, SessionEnds DEF Hangup, Working, LeaseInv, TypeOK
  <2> QED BY <2>1 DEF Unserved, Open
<1> QED BY <1>3, <1>4, <1>5 DEF Server

\* Whatever the step, the distance shrinks.
LEMMA Advances ==
    ASSUME LeaseInv, WorkInv, LeaseInv', WorkInv', Next
    PROVE  Distance' \in Nat /\ Distance' < Distance
<1>1. Distance' \in Nat
  BY DistanceTypeLater DEF DistanceParts
<1>2. CASE Send \/ Answered \/ Unreachable \/ Late \/ Expire \/ GraceExpires
  <2>1. Ahead' < Ahead
    BY <1>2, ClientMovesOn
  <2>2. UNCHANGED <<session, elapsed>>
    BY <1>2 DEF Send, Answered, Unreachable, Late, Expire, GraceExpires, Lose, Fail, Begun, Limited,
                CursorDeclared, Queried, Executed, Returned, Proceed, server
  <2> QED BY <1>1, <2>1, <2>2, ClientAdvances
<1>3. (2 * MaxScript + 5) * Ahead \in Nat
  <2>1. \A x, y \in Nat : x * y \in Nat
    OBVIOUS
  <2>2. 2 * MaxScript + 5 \in Nat /\ Ahead \in Nat
    BY DistanceType, DistanceTypeLater, LeaseAssumption DEF DistanceParts
  <2> QED BY <2>1, <2>2
<1>4. /\ Unserved \in Nat /\ Open \in Nat /\ ClientDeadline - elapsed \in Nat
      /\ Unserved' \in Nat /\ Open' \in Nat /\ ClientDeadline \in Nat /\ elapsed \in Nat
  <2>1. ClientDeadline \in Nat /\ elapsed \in Nat
    BY LeaseAssumption DEF LeaseInv, TypeOK, ClientDeadline
  <2> QED BY <2>1, DistanceType, DistanceTypeLater, LeaseAssumption DEF DistanceParts
<1> DEFINE ahead == (2 * MaxScript + 5) * Ahead
<1> DEFINE serve == 2 * Unserved + Open
           time  == ClientDeadline - elapsed
<1>5. ahead \in Nat /\ serve \in Nat /\ serve' \in Nat /\ time \in Nat
  <2>1. \A u, o \in Nat : 2 * u + o \in Nat
    OBVIOUS
  <2> QED BY <1>3, <1>4, <2>1
<1>6. Distance = ahead + serve + time
  <2>1. Distance = ahead + 2 * Unserved + Open + time
    BY DEF Distance
  <2> HIDE DEF ahead, time, Unserved, Open
  <2> QED BY <1>4, <1>5, <2>1
<1>7. CASE Server
  <2>1. serve' < serve
    BY <1>7, ServerAdvances
  <2>2. Distance' = ahead + serve' + time
    <3>1. Ahead' = Ahead /\ elapsed' = elapsed
      BY <1>7 DEF Ahead, client, Server, Execute, Refuse, Cancel, Undo, Finish, Die, Hangup
    <3>2. Distance' = ahead + 2 * Unserved' + Open' + time
      BY <3>1 DEF Distance, ClientDeadline
    <3> HIDE DEF ahead, time, Unserved, Open
    <3> QED BY <1>4, <1>5, <3>2
  <2> HIDE DEF ahead, serve, time
  <2> QED BY <1>1, <1>5, <1>6, <2>1, <2>2, Counting
<1>8. CASE Tick
  <2>1. elapsed' = elapsed + 1 /\ UNCHANGED <<client, server>>
    BY <1>8 DEF Tick
  <2>2. ahead' = ahead /\ Unserved' = Unserved /\ Open' = Open
    BY <2>1 DEF Ahead, Unserved, Open, Working, client, server, Message, Declared, OneStatement
  <2>3. time' < time
    BY <1>4, <2>1 DEF ClientDeadline
  <2>4. Distance' = ahead + serve + time'
    <3>1. Distance' = ahead + 2 * Unserved + Open + time'
      BY <2>2 DEF Distance, ClientDeadline
    <3>2. time' \in Nat
      BY DistanceTypeLater DEF DistanceParts
    <3> HIDE DEF ahead, time, Unserved, Open
    <3> QED BY <1>4, <1>5, <3>1, <3>2
  <2>5. time' \in Nat
    BY DistanceTypeLater DEF DistanceParts
  <2> HIDE DEF ahead, serve, time
  <2> QED BY <1>1, <1>5, <1>6, <2>3, <2>4, <2>5, Counting
<1> QED BY <1>2, <1>7, <1>8 DEF Next

\* Every step of a call, of the server and of the clock brings the call nearer to its end,
\* for scripts of any length and any deadline: nothing is retried, so no call takes more
\* steps than its distance at the start (lease.go:98-138).
THEOREM CallsAdvance == Spec => CallAdvances
<1>1. LeaseInv /\ LeaseInv' /\ WorkInv /\ WorkInv' /\ [Next]_vars => [Distance' \in Nat /\ Distance' < Distance]_vars
  BY Advances
<1> QED BY SpecInv, WorkInit, WorkNext, <1>1, PTL DEF Spec, CallAdvances
=============================================================================
