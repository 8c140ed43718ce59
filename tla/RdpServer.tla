----------------------------- MODULE RdpServer -----------------------------
(***************************************************************************)
(* The server's processes together: rdpd's workers, rdp-sessionmgr with    *)
(* its monitors, and the user sessions.  What they share is the manager's  *)
(* socket and the backend descriptors that travel over it.                 *)
(***************************************************************************)
EXTENDS SessMgr, Worker

vars == <<mgrVars, workerVars, protoVars>>

(***************************************************************************)
(* The user process ends: the user logs out, it crashes, or it reads the   *)
(* end of file on its backend socket.                                      *)
(***************************************************************************)
SessionExits(s) ==
    /\ proc[s] = "running"
    /\ proc' = [proc EXCEPT ![s] = "exited"]
    /\ UNCHANGED <<mgrVars, workerVars, conn, backlog, nthashes>>

Init == ProtoInit /\ MgrInit /\ WorkerInit

(***************************************************************************)
(* The bounded sets of workers and connections are used up.                *)
(***************************************************************************)
Finished ==
    /\ \A w \in Workers : wpc[w] \in {"done", "killed"}
    /\ \A c \in Conns : conn[c] = FreeConn
    /\ UNCHANGED vars

Next ==
    \/ MgrNext /\ UNCHANGED workerVars
    \/ \E w \in Workers : (WorkerStep(w) \/ Killed(w)) /\ UNCHANGED mgrVars
    \/ \E s \in Sessions : SessionExits(s)
    \/ Finished

Spec == Init /\ [][Next]_vars

(***************************************************************************)
(* Where the worker's end of session s's backend socket is held open.      *)
(***************************************************************************)
Carries(c, s) ==
    \/ conn[c].req # None /\ conn[c].req.fd = s
    \/ conn[c].rsp # None /\ conn[c].rsp.fd = s

HeldByWorker(s) == \E w \in Workers : be_fd[w] = s

HeldBySlot(s) == \E i \in Slots : suspended[i].in_use /\ suspended[i].be_fd = s

HeldByMonitor(s) == \E m \in Sessions : s \in inherited[m]

Reachable(s) ==
    \/ HeldByWorker(s)
    \/ HeldBySlot(s)
    \/ \E c \in Conns : Carries(c, s)
    \/ s \in {retained_fd, born}

(***************************************************************************)
(* The session reads the end of file on its backend socket.                *)
(***************************************************************************)
SessionEOF(s) == ~Reachable(s) /\ ~HeldByMonitor(s) /\ SessionExits(s)

(***************************************************************************)
(* Fairness.  The manager never blocks for good: its poll times out, and   *)
(* the authentication backend and the monitor's PAM calls return.  A       *)
(* pending signal is handled, an exit is waited for, a session that reads  *)
(* the end of file exits, a worker reads the answer it waits for.  Users   *)
(* need not log in or out, and nobody need be killed.                      *)
(***************************************************************************)
ReadsAnswer(w) ==
    \/ Resumed(w) \/ ResumeFailed(w)
    \/ LoggedIn(w) \/ LoginRefused(w)
    \/ Spawned(w) \/ SpawnDenied(w)
    \/ Suspended(w)

Fairness ==
    /\ WF_vars(MgrStep /\ UNCHANGED workerVars)
    /\ WF_vars(on_sigchld /\ UNCHANGED workerVars)
    /\ WF_vars(Clock /\ UNCHANGED workerVars)
    /\ \A s \in Sessions :
         /\ WF_vars(MonitorStep(s) /\ UNCHANGED workerVars)
         /\ WF_vars(SessionEOF(s))
    /\ \A w \in Workers : WF_vars(ReadsAnswer(w) /\ UNCHANGED mgrVars)

FairSpec == Spec /\ Fairness

-----------------------------------------------------------------------------

\* Types of the whole state: the socket, the manager and the workers.
TypeOK == ProtoTypeOK /\ MgrTypeOK /\ WorkerTypeOK

(***************************************************************************)
(* A worker that proxies a session is the only one that can reach it: no   *)
(* message, slot or handler of the manager holds its descriptor, and of    *)
(* the other workers only one that has handed it in with SUSPEND and waits *)
(* for the answer, so no second client can be connected to it.             *)
(***************************************************************************)
SoleProxy ==
    \A w \in Workers :
        wpc[w] = "proxy" =>
            /\ \A v \in Workers \ {w} :
                 be_fd[v] = be_fd[w] => wpc[v] = "suspend"
            /\ \A c \in Conns : ~Carries(c, be_fd[w])
            /\ ~HeldBySlot(be_fd[w])
            /\ born # be_fd[w]

(***************************************************************************)
(* No session is suspended in two slots: the first RESUME takes it out of  *)
(* the table for good.                                                     *)
(***************************************************************************)
SuspendedOnce ==
    \A i, j \in Slots :
        suspended[i].in_use /\ suspended[j].in_use
            /\ suspended[i].be_fd = suspended[j].be_fd => i = j

(***************************************************************************)
(* A reconnect cookie opens the session it was issued for and no other,    *)
(* whatever was suspended, resumed or expired in between and even when two *)
(* cookies share a logon id.                                               *)
(***************************************************************************)
CookieOpensItsSession ==
    \A w \in Workers :
        wpc[w] = "proxy" /\ mode[w] = "resume"
            => be_fd[w] = issued_for[presented[w]]

(***************************************************************************)
(* A login leads to a session of the account that logged in, although the  *)
(* manager serves many workers and passes sessions as bare descriptors.    *)
(***************************************************************************)
LoginGetsOwnSession ==
    \A w \in Workers :
        wpc[w] = "proxy" /\ mode[w] # "resume"
            => /\ sess_user[be_fd[w]] = AuthName[wuser[w]]
               /\ sess_user[be_fd[w]] \notin NoShell

(***************************************************************************)
(* handle_resume and sweep_expired take a session out of its slot only for *)
(* a client that proves the slot's random bits, or when the session is     *)
(* gone or its time is up: a wrong cookie leaves it to its owner.          *)
(***************************************************************************)
SlotKeptForOwner ==
    [][\A i \in Slots :
         suspended[i].in_use /\ suspended'[i] # suspended[i] =>
            \/ Stale(suspended[i])
            \/ /\ cur # None
               /\ conn[cur].req # None
               /\ conn[cur].req.op = "RESUME"
               /\ conn[cur].req.arc = suspended[i].arc_random]_vars

(***************************************************************************)
(* Suspending, resuming and sweeping leave the drive of a living session   *)
(* mounted: only the death of its monitor removes it.                      *)
(***************************************************************************)
DriveOutlivesSuspend ==
    [][\A u \in Users :
         mounted[u] # None /\ mounted'[u] # mounted[u]
            => monitor[mounted[u]] \in {"zombie", "reaped"}]_vars

(***************************************************************************)
(* The reaper never runs for a monitor whose mount is not recorded yet:    *)
(* once a monitor has been waited for, its drive is unmounted, unless the  *)
(* mount table was too small to record it.                                 *)
(***************************************************************************)
ReapedMeansUnmounted ==
    MountMax >= Cardinality(Sessions) =>
        \A u \in Users : mounted[u] # None => monitor[mounted[u]] # "reaped"

(***************************************************************************)
(* Every worker that waits for the manager hears from it, or finds the     *)
(* connection closed, although the manager serves one client at a time,    *)
(* waits for clients, backends and monitors, and drops the client at hand  *)
(* on a signal.                                                            *)
(***************************************************************************)
WorkersHearBack ==
    \A w \in Workers :
        wpc[w] \in {"resume", "auth", "spawn", "suspend"}
            ~> wpc[w] \notin {"resume", "auth", "spawn", "suspend"}

-----------------------------------------------------------------------------
(***************************************************************************)
(* The abstract view of a session: see SessionOwner.                       *)
(***************************************************************************)

Proxies(s) == {w \in Workers : wpc[w] = "proxy" /\ be_fd[w] = s}

(***************************************************************************)
(* The cookies under which the manager keeps session s, in a slot or on    *)
(* its way from or to a worker.                                            *)
(***************************************************************************)
Cookies(s) ==
    {suspended[i].arc_random : i \in
        {j \in Slots : suspended[j].in_use /\ suspended[j].be_fd = s}}
    \cup {conn[c].req.arc : c \in
        {d \in Conns : conn[d].req # None /\ conn[d].req.fd = s}}
    \cup {presented[conn[c].owner] : c \in
        {d \in Conns : /\ conn[d].rsp # None
                       /\ conn[d].rsp.fd = s
                       /\ mode[conn[d].owner] = "resume"}}
    \cup (IF pc = "resume" /\ born = s THEN {conn[cur].req.arc} ELSE {})

BeingSpawned(s) ==
    \/ born = s
    \/ retained_fd = s /\ ~spawn_done
    \/ \E c \in Conns : conn[c].rsp # None /\ conn[c].rsp.fd = s

OwnerOf(s) ==
    IF Proxies(s) # {}
    THEN [at |-> "worker", who |-> CHOOSE w \in Proxies(s) : TRUE]
    ELSE IF Cookies(s) # {}
    THEN [at |-> "parked", who |-> CHOOSE v \in Cookies(s) : TRUE]
    ELSE [at |-> IF BeingSpawned(s) THEN "starting"
                 ELSE IF monitor[s] = "unborn" THEN "unborn"
                 ELSE "lost",
          who |-> None]

Owner == INSTANCE SessionOwner
            WITH owner <- [s \in Sessions |-> OwnerOf(s)]

(***************************************************************************)
(* The protocol between workers and manager, with its messages, handlers,  *)
(* slots, crashes and signals, gives every session one owner at a time and *)
(* passes it on only by its cookie.                                        *)
(***************************************************************************)
OneOwnerAtATime == Owner!Spec

-----------------------------------------------------------------------------
(***************************************************************************)
(* What the documentation says and the code does not do.                   *)
(***************************************************************************)

(***************************************************************************)
(* README: "Sessmgr retains a dup of the backend fd at spawn time and      *)
(* auto-suspends on worker death, so sessions survive worker SIGKILL."     *)
(* When a proxying worker is killed the manager holds its session.         *)
(***************************************************************************)
SurvivesWorkerKill ==
    [][\A w \in Workers :
         wpc[w] = "proxy" /\ wpc'[w] = "killed" /\ fd_alive(be_fd[w])
            => HeldBySlot(be_fd[w]) \/ retained_fd = be_fd[w]]_vars

(***************************************************************************)
(* rdp-sessionmgr(8): "Suspended sessions expire after 120 seconds."  A    *)
(* session that nobody can reach any more comes to its end.                *)
(***************************************************************************)
UnreachableSessionsEnd ==
    \A s \in Sessions :
        proc[s] = "running" /\ ~Reachable(s) ~> proc[s] = "exited"

(***************************************************************************)
(* sessionmgr.c: "When the session process dies (clean exit or crash) the  *)
(* mount must be torn down so no stale mount lingers".                     *)
(***************************************************************************)
NoStaleMount ==
    \A u \in Users, s \in Sessions :
        mounted[u] = s /\ proc[s] = "exited" ~> mounted[u] # s
============================================================================
