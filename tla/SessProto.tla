----------------------------- MODULE SessProto -----------------------------
(***************************************************************************)
(* The state shared by the rdpd workers and rdp-sessionmgr: the AF_UNIX    *)
(* SOCK_SEQPACKET connections that carry the AUTH, SPAWN, SUSPEND and      *)
(* RESUME requests (src/sessionmgr/protocol.h), the user session processes *)
(* whose backend socket is passed around as a descriptor, and the NT hash  *)
(* file that the manager writes and the workers read.                      *)
(*                                                                         *)
(* A backend descriptor is named by the session at its other end.          *)
(***************************************************************************)
EXTENDS Integers, Sequences, FiniteSets

CONSTANTS
    Workers,    \* rdpd worker processes, one per RDP connection
    Conns,      \* connections to the manager's socket that may exist at once
    Sessions,   \* rdp-session processes, each with its monitor
    Users,      \* account names
    LogonIds,   \* the 32-bit logon identifiers of the reconnect cookies
    None        \* no worker, connection, session, user, message or fd

ASSUME NoneAssumption ==
    None \notin Workers \cup Conns \cup Sessions \cup Users \cup LogonIds

ASSUME SessionsAssumption == IsFiniteSet(Sessions)

VARIABLES
    conn,       \* the connections, as both ends and the kernel see them
    backlog,    \* connections waiting for the manager's accept, in order
    proc,       \* the life of each user session process
    nthashes    \* users with an entry in /etc/rdpserver/nthashes

protoVars == <<conn, backlog, proc, nthashes>>

(***************************************************************************)
(* The 16 random bytes of a reconnect cookie are drawn fresh for every     *)
(* cookie and a worker draws one cookie at most, so the bytes, and the     *)
(* HMAC a client proves them with, are named by the worker that drew them. *)
(* None stands for the 16 zero bytes of an automatic suspend.              *)
(***************************************************************************)
ArcRandom == Workers \cup {None}

Ops == {"AUTH", "SPAWN", "SUSPEND", "RESUME"}

Requests ==
    [op   : Ops,
     user : Users \cup {None},
     id   : LogonIds \cup {None},
     arc  : ArcRandom,
     fd   : Sessions \cup {None}]

AuthReq(u) ==
    [op |-> "AUTH", user |-> u, id |-> None, arc |-> None, fd |-> None]

SpawnReq ==
    [op |-> "SPAWN", user |-> None, id |-> None, arc |-> None, fd |-> None]

SuspendReq(i, a, s) ==
    [op |-> "SUSPEND", user |-> None, id |-> i, arc |-> a, fd |-> s]

ResumeReq(i, a) ==
    [op |-> "RESUME", user |-> None, id |-> i, arc |-> a, fd |-> None]

Replies == [ok : BOOLEAN, fd : Sessions \cup {None}]

Refusal == [ok |-> FALSE, fd |-> None]
Success(s) == [ok |-> TRUE, fd |-> s]

(***************************************************************************)
(* One connection: the worker that opened it, whether the worker's end is  *)
(* still open, where the manager's end is, and the one message that may be *)
(* on its way in each direction (the client library is synchronous).       *)
(***************************************************************************)
ConnStates ==
    [owner : Workers \cup {None},
     up    : BOOLEAN,
     srv   : {"free", "queued", "serving", "closed"},
     req   : Requests \cup {None},
     rsp   : Replies \cup {None}]

FreeConn ==
    [owner |-> None, up |-> FALSE, srv |-> "free", req |-> None, rsp |-> None]

(***************************************************************************)
(* connect() and the send() that follows it.                               *)
(***************************************************************************)
Connect(w, c, r) ==
    /\ conn[c] = FreeConn
    /\ conn' = [conn EXCEPT ![c] =
                  [owner |-> w, up |-> TRUE, srv |-> "queued",
                   req |-> r, rsp |-> None]]
    /\ backlog' = Append(backlog, c)

(***************************************************************************)
(* close() of the worker's end.  A reply it has not read is lost, with the *)
(* descriptor it carries; a request it has sent can still be read.         *)
(***************************************************************************)
ClosedByWorker(k) ==
    IF k.srv = "closed" THEN FreeConn ELSE [k EXCEPT !.up = FALSE, !.rsp = None]

(***************************************************************************)
(* close() of the manager's end.  A reply already sent can still be read;  *)
(* a request it has not read is lost, with the descriptor it carries.      *)
(***************************************************************************)
ClosedByManager_Leaked(k) == k

ClosedByManager(k) ==
    IF k.up THEN [k EXCEPT !.srv = "closed", !.req = None] ELSE FreeConn

(***************************************************************************)
(* What reply() leaves on a connection: the message, or nothing when the   *)
(* worker's end is closed and sendmsg fails.                               *)
(***************************************************************************)
Replied(k, m) ==
    [k EXCEPT !.req = None, !.rsp = IF k.up THEN m ELSE None]

(***************************************************************************)
(* poll() on a backend descriptor: it hangs up once the process is gone.   *)
(***************************************************************************)
fd_alive(s) == proc[s] = "running"

ProtoTypeOK ==
    /\ conn \in [Conns -> ConnStates]
    /\ backlog \in Seq(Conns)
    /\ proc \in [Sessions -> {"unborn", "running", "exited"}]
    /\ nthashes \subseteq Users

ProtoInit ==
    /\ conn = [c \in Conns |-> FreeConn]
    /\ backlog = <<>>
    /\ proc = [s \in Sessions |-> "unborn"]
    /\ nthashes \in SUBSET Users
============================================================================
