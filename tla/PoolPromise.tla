----------------------------- MODULE PoolPromise -----------------------------
(***************************************************************************)
(* What the pool cache promises a call, without saying how pools are found, *)
(* counted or ordered (ADR-0003): a pool handed out stays usable until its  *)
(* last user gives it back; a retired pool is handed out to nobody else;    *)
(* after the shutdown nothing is handed out; and every retired pool is      *)
(* closed in the end, so no connection is left behind.                      *)
(***************************************************************************)
CONSTANTS Users, Pools

VARIABLES fresh,    \* pools not made yet
          serving,  \* pools a user may be given
          retired,  \* pools given to nobody any more, not closed yet
          users,    \* pool -> who holds it
          shut      \* the shutdown has begun

vars == <<fresh, serving, retired, users, shut>>

Init ==
    /\ fresh   = Pools
    /\ serving = {}
    /\ retired = {}
    /\ users   = [p \in Pools |-> {}]
    /\ shut    = FALSE

\* u is given p, which may be made for it; some other pools are retired on the way.
Take(u, p) ==
    /\ ~shut
    /\ p \in fresh \cup serving
    /\ \A q \in Pools : u \notin users[q]
    /\ users' = [users EXCEPT ![p] = @ \cup {u}]
    /\ \E R \in SUBSET (serving \ {p}) :
         /\ serving' = (serving \cup {p}) \ R
         /\ retired' = retired \cup R
    /\ fresh' = fresh \ {p}
    /\ UNCHANGED shut

Give(u, p) ==
    /\ u \in users[p]
    /\ users' = [users EXCEPT ![p] = @ \ {u}]
    /\ UNCHANGED <<fresh, serving, retired, shut>>

\* Pools are retired for being idle, or because their user found them useless.
Retire ==
    /\ \E R \in (SUBSET serving) \ {{}} : serving' = serving \ R /\ retired' = retired \cup R
    /\ UNCHANGED <<fresh, users, shut>>

ClosePool(p) ==
    /\ p \in retired
    /\ users[p] = {}
    /\ retired' = retired \ {p}
    /\ UNCHANGED <<fresh, serving, users, shut>>

Shutdown ==
    /\ shut'    = TRUE
    /\ serving' = {}
    /\ retired' = retired \cup serving
    /\ UNCHANGED <<fresh, users>>

Next ==
    \/ \E u \in Users, p \in Pools : Take(u, p) \/ Give(u, p)
    \/ \E p \in Pools : ClosePool(p)
    \/ Retire
    \/ Shutdown

Safety == Init /\ [][Next]_vars

Spec == Safety /\ \A p \in Pools : WF_vars(ClosePool(p))
=============================================================================
