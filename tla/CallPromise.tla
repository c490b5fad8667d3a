----------------------------- MODULE CallPromise -----------------------------
(***************************************************************************)
(* What one tool call promises about the changes it was asked for: they    *)
(* become durable all at once or not at all; a success is answered after   *)
(* the fact; a failure is final.  Only a call that loses the server while   *)
(* it commits answers without knowing, and its changes may land later.     *)
(***************************************************************************)

VARIABLES
    asked,    \* the changes asked for
    durable,  \* the changes made
    answer    \* "pending", "success", "failure" or "doubt"

vars == <<asked, durable, answer>>

Init ==
    /\ durable = {}
    /\ answer = "pending"

\* The changes land, all of them.
Land ==
    /\ answer \in {"pending", "doubt"}
    /\ durable' = asked
    /\ UNCHANGED <<asked, answer>>

Answer ==
    /\ answer = "pending"
    /\ \/ answer' = "success" /\ durable = asked
       \/ answer' = "failure" /\ durable = {}
       \/ answer' = "doubt"
    /\ UNCHANGED <<asked, durable>>

Next == Land \/ Answer

Spec == Init /\ [][Next]_vars
=============================================================================
