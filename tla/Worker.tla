------------------------------- MODULE Worker -------------------------------
(***************************************************************************)
(* An rdpd worker's dealings with the session manager: the login paths at  *)
(* the end of rdp_conn_run (src/daemon/conn.c) and the client library they *)
(* call (src/sessionmgr/client.c).  A worker first tries the reconnect     *)
(* cookie its client presented, then logs in with the credentials NLA or   *)
(* the Client Info PDU gave it, or through the greeter; it then proxies    *)
(* the session and, on some of these paths, suspends it at the end.        *)
(***************************************************************************)
EXTENDS SessProto

CONSTANTS
    LoginPaths  \* login paths open besides the greeter: "nla", "auto"

ASSUME WorkerAssumption == LoginPaths \subseteq {"nla", "auto"}

VARIABLES
    wpc,        \* where rdp_conn_run is
    mode,       \* the path that is being taken
    wconn,      \* the worker's connection to the manager
    wuser,      \* the user name it logs in with
    be_fd,      \* the backend descriptor it holds
    presented,  \* the random bits its client's cookie proves
    logon_id,   \* the logon id of the cookie it issued
    issued_for  \* the session it issued that cookie for

workerVars ==
    <<wpc, mode, wconn, wuser, be_fd, presented, logon_id, issued_for>>

Places ==
    {"start", "resume", "login", "greeter", "auth", "authed", "spawn",
     "proxy", "suspend", "done", "killed"}

WorkerTypeOK ==
    /\ wpc \in [Workers -> Places]
    /\ mode \in [Workers -> {"none", "resume", "nla", "auto", "greeter"}]
    /\ wconn \in [Workers -> Conns \cup {None}]
    /\ wuser \in [Workers -> Users \cup {None}]
    /\ be_fd \in [Workers -> Sessions \cup {None}]
    /\ presented \in [Workers -> ArcRandom]
    /\ logon_id \in [Workers -> LogonIds \cup {None}]
    /\ issued_for \in [Workers -> Sessions \cup {None}]

WorkerInit ==
    /\ wpc = [w \in Workers |-> "start"]
    /\ mode = [w \in Workers |-> "none"]
    /\ wconn = [w \in Workers |-> None]
    /\ wuser = [w \in Workers |-> None]
    /\ be_fd = [w \in Workers |-> None]
    /\ presented = [w \in Workers |-> None]
    /\ logon_id = [w \in Workers |-> None]
    /\ issued_for = [w \in Workers |-> None]

Goto(w, p) == wpc' = [wpc EXCEPT ![w] = p]

(***************************************************************************)
(* The end of the worker: its variables are gone, but its client keeps the *)
(* cookie.                                                                 *)
(***************************************************************************)
Leave(w, p) ==
    /\ Goto(w, p)
    /\ mode' = [mode EXCEPT ![w] = "none"]
    /\ wuser' = [wuser EXCEPT ![w] = None]
    /\ be_fd' = [be_fd EXCEPT ![w] = None]
    /\ presented' = [presented EXCEPT ![w] = None]
    /\ logon_id' = [logon_id EXCEPT ![w] = None]
    /\ UNCHANGED issued_for

(***************************************************************************)
(* A reply can be read, or the manager has closed the connection.          *)
(***************************************************************************)
Reply(w) == conn[wconn[w]].rsp

Answered(w) == Reply(w) # None \/ conn[wconn[w]].srv = "closed"

Granted(w) == Reply(w) # None /\ Reply(w).ok

(***************************************************************************)
(* close() of the connection.                                              *)
(***************************************************************************)
CloseConn(w) ==
    /\ conn' = [conn EXCEPT ![wconn[w]] = ClosedByWorker(@)]
    /\ wconn' = [wconn EXCEPT ![w] = None]
    /\ UNCHANGED backlog

(***************************************************************************)
(* The client's cookie names a logon id and proves random bits that some   *)
(* worker has issued; the two need not belong together.                    *)
(***************************************************************************)
rdp_sessmgr_resume(w) ==
    /\ wpc[w] = "start"
    /\ \E c \in Conns, id \in LogonIds, v \in Workers :
         /\ issued_for[v] # None
         /\ Connect(w, c, ResumeReq(id, v))
         /\ wconn' = [wconn EXCEPT ![w] = c]
         /\ presented' = [presented EXCEPT ![w] = v]
    /\ mode' = [mode EXCEPT ![w] = "resume"]
    /\ Goto(w, "resume")
    /\ UNCHANGED <<wuser, be_fd, logon_id, issued_for, proc, nthashes>>

(***************************************************************************)
(* A fresh cookie for the client's next reconnect.                         *)
(***************************************************************************)
IssueCookie(w, s) ==
    /\ \E id \in LogonIds : logon_id' = [logon_id EXCEPT ![w] = id]
    /\ issued_for' = [issued_for EXCEPT ![w] = s]

Resumed(w) ==
    /\ wpc[w] = "resume"
    /\ Granted(w)
    /\ be_fd' = [be_fd EXCEPT ![w] = Reply(w).fd]
    /\ IssueCookie(w, Reply(w).fd)
    /\ CloseConn(w)
    /\ Goto(w, "proxy")
    /\ UNCHANGED <<mode, wuser, presented, proc, nthashes>>

ResumeFailed(w) ==
    /\ wpc[w] = "resume"
    /\ Answered(w)
    /\ ~Granted(w)
    /\ CloseConn(w)
    /\ mode' = [mode EXCEPT ![w] = "none"]
    /\ presented' = [presented EXCEPT ![w] = None]
    /\ Goto(w, "login")
    /\ UNCHANGED <<wuser, be_fd, logon_id, issued_for, proc, nthashes>>

(***************************************************************************)
(* rdp_sessmgr_open_auth: connect and send AUTH.  NLA has verified its     *)
(* user against the NT hash file; the greeter may be asked repeatedly.     *)
(***************************************************************************)
rdp_sessmgr_open_auth(w, m, u) ==
    /\ \/ wpc[w] \in {"start", "login"} /\ (m = "nla" => u \in nthashes)
       \/ wpc[w] = "greeter" /\ m = "greeter"
    /\ \E c \in Conns :
         /\ Connect(w, c, AuthReq(u))
         /\ wconn' = [wconn EXCEPT ![w] = c]
    /\ mode' = [mode EXCEPT ![w] = m]
    /\ wuser' = [wuser EXCEPT ![w] = u]
    /\ Goto(w, "auth")
    /\ UNCHANGED <<be_fd, presented, logon_id, issued_for, proc, nthashes>>

LoggedIn(w) ==
    /\ wpc[w] = "auth"
    /\ Granted(w)
    /\ conn' = [conn EXCEPT ![wconn[w]].rsp = None]
    /\ Goto(w, "authed")
    /\ UNCHANGED <<mode, wconn, wuser, be_fd, presented, logon_id, issued_for,
                   backlog, proc, nthashes>>

(***************************************************************************)
(* Where a refused login or SPAWN leads.                                   *)
(***************************************************************************)
GiveUp(w) ==
    /\ CloseConn(w)
    /\ IF mode[w] = "auto" \/ (mode[w] = "greeter" /\ wpc[w] = "auth")
       THEN /\ mode' = [mode EXCEPT ![w] = "greeter"]
            /\ wuser' = [wuser EXCEPT ![w] = None]
            /\ Goto(w, "greeter")
            /\ UNCHANGED <<be_fd, presented, logon_id, issued_for>>
       ELSE Leave(w, "done")
    /\ UNCHANGED <<proc, nthashes>>

LoginRefused(w) ==
    /\ wpc[w] = "auth"
    /\ Answered(w)
    /\ ~Granted(w)
    /\ GiveUp(w)

GreeterCancelled(w) ==
    /\ wpc[w] = "greeter"
    /\ Leave(w, "done")
    /\ UNCHANGED <<wconn, protoVars>>

(***************************************************************************)
(* rdp_sessmgr_spawn: send SPAWN on the same connection; the send fails    *)
(* when the manager has closed it meanwhile.                               *)
(***************************************************************************)
rdp_sessmgr_spawn(w) ==
    /\ wpc[w] = "authed"
    /\ conn[wconn[w]].srv # "closed"
    /\ conn' = [conn EXCEPT ![wconn[w]].req = SpawnReq]
    /\ Goto(w, "spawn")
    /\ UNCHANGED <<mode, wconn, wuser, be_fd, presented, logon_id, issued_for,
                   backlog, proc, nthashes>>

SpawnUnsent(w) ==
    /\ wpc[w] = "authed"
    /\ conn[wconn[w]].srv = "closed"
    /\ GiveUp(w)

SpawnDenied(w) ==
    /\ wpc[w] = "spawn"
    /\ Answered(w)
    /\ ~Granted(w)
    /\ GiveUp(w)

(***************************************************************************)
(* Only the greeter path gives the client a reconnect cookie.              *)
(***************************************************************************)
Spawned(w) ==
    /\ wpc[w] = "spawn"
    /\ Granted(w)
    /\ be_fd' = [be_fd EXCEPT ![w] = Reply(w).fd]
    /\ IF mode[w] = "greeter"
       THEN IssueCookie(w, Reply(w).fd)
       ELSE UNCHANGED <<logon_id, issued_for>>
    /\ CloseConn(w)
    /\ Goto(w, "proxy")
    /\ UNCHANGED <<mode, wuser, presented, proc, nthashes>>

(***************************************************************************)
(* run_proxy returns: the client or the session has gone.  The paths that  *)
(* issued a cookie suspend the session, whichever of the two it was.       *)
(***************************************************************************)
rdp_sessmgr_suspend(w) ==
    /\ wpc[w] = "proxy"
    /\ mode[w] \in {"resume", "greeter"}
    /\ \E c \in Conns :
         /\ Connect(w, c, SuspendReq(logon_id[w], w, be_fd[w]))
         /\ wconn' = [wconn EXCEPT ![w] = c]
    /\ Goto(w, "suspend")
    /\ UNCHANGED <<mode, wuser, be_fd, presented, logon_id, issued_for,
                   proc, nthashes>>

ProxyEnds(w) ==
    /\ wpc[w] = "proxy"
    /\ mode[w] \in {"nla", "auto"}
    /\ Leave(w, "done")
    /\ UNCHANGED <<wconn, protoVars>>

(***************************************************************************)
(* The worker closes its descriptor whatever SUSPEND was answered.         *)
(***************************************************************************)
Suspended(w) ==
    /\ wpc[w] = "suspend"
    /\ Answered(w)
    /\ CloseConn(w)
    /\ Leave(w, "done")
    /\ UNCHANGED <<proc, nthashes>>

(***************************************************************************)
(* The worker is killed: the kernel closes its descriptors.                *)
(***************************************************************************)
Killed(w) ==
    /\ wpc[w] \notin {"done", "killed"}
    /\ Leave(w, "killed")
    /\ IF wconn[w] = None THEN UNCHANGED <<conn, wconn, backlog>> ELSE CloseConn(w)
    /\ UNCHANGED <<proc, nthashes>>

WorkerStep(w) ==
    \/ rdp_sessmgr_resume(w) \/ Resumed(w) \/ ResumeFailed(w)
    \/ \E m \in LoginPaths \cup {"greeter"}, u \in Users :
         rdp_sessmgr_open_auth(w, m, u)
    \/ LoggedIn(w) \/ LoginRefused(w) \/ GreeterCancelled(w)
    \/ rdp_sessmgr_spawn(w) \/ SpawnUnsent(w) \/ SpawnDenied(w) \/ Spawned(w)
    \/ rdp_sessmgr_suspend(w) \/ ProxyEnds(w) \/ Suspended(w)
=============================================================================
