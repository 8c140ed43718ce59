---------------------------- MODULE SessionOwner ----------------------------
(***************************************************************************)
(* What the session manager and the workers together promise about a       *)
(* session: at any time it belongs to at most one worker; it is parked     *)
(* under the cookie of the worker that had it last, and it passes to       *)
(* another worker only if that worker's client presents this very cookie.  *)
(* A session may be lost in any state; it is never found again.            *)
(***************************************************************************)
CONSTANTS Workers, Sessions, None

VARIABLES
    owner,      \* what has become of each session
    presented   \* the cookie each worker's client presents (an input)

States ==
    [at : {"unborn", "starting", "worker", "parked", "lost"},
     who : Workers \cup {None}]

Unborn    == [at |-> "unborn",   who |-> None]
Starting  == [at |-> "starting", who |-> None]
With(w)   == [at |-> "worker",   who |-> w]
Parked(w) == [at |-> "parked",   who |-> w]
Lost      == [at |-> "lost",     who |-> None]

(***************************************************************************)
(* What may become of one session in a step.                               *)
(***************************************************************************)
Start(s)     == owner[s] = Unborn /\ owner'[s] = Starting

Attach(s, w) == owner[s] = Starting /\ owner'[s] = With(w)

\* A session nobody received is parked under no cookie at all.
Orphan(s)    == owner[s] = Starting /\ owner'[s] = Parked(None)

Park(s, w)   == owner[s] = With(w) /\ owner'[s] = Parked(w)

Resume(s, w) ==
    /\ presented[w] # None
    /\ owner[s] = Parked(presented[w])
    /\ owner'[s] = With(w)

Lose(s)      == owner'[s] = Lost

Change(s) ==
    \/ Start(s)
    \/ Orphan(s)
    \/ \E w \in Workers : Attach(s, w) \/ Park(s, w) \/ Resume(s, w)
    \/ Lose(s)
    \/ owner'[s] = owner[s]

Init == owner = [s \in Sessions |-> Unborn]

(***************************************************************************)
(* A sweep loses several sessions while one is parked or resumed.          *)
(***************************************************************************)
Next ==
    /\ owner' \in [Sessions -> States]
    /\ \A s \in Sessions : Change(s)

Spec == Init /\ [][Next]_owner
=============================================================================
