---------------------------- MODULE RdpServerInv ----------------------------
(***************************************************************************)
(* The inductive invariants of workers and session manager together, from  *)
(* which the properties of RdpServer follow.                               *)
(***************************************************************************)
EXTENDS RdpServer

-----------------------------------------------------------------------------
(***************************************************************************)
(* Workers, connections and manager: both ends of a connection agree on    *)
(* what is said on it.                                                     *)
(***************************************************************************)

(***************************************************************************)
(* The manager's main flow: it has a client except in accept, and it works *)
(* on the request that its place in the code stands for.                   *)
(***************************************************************************)
Working(op) ==
    /\ cur # None
    /\ conn[cur].req # None
    /\ conn[cur].req.op = op

Serving ==
    /\ pc = "accept" <=> cur = None
    /\ cur # None => conn[cur].srv = "serving"
    /\ pc = "auth" => Working("AUTH")
    /\ pc \in {"record", "status"} => Working("SPAWN")
    /\ pc = "resume" => Working("RESUME")
    /\ born # None <=> pc \in {"record", "status", "resume"}

(***************************************************************************)
(* The connections that wait for accept, each once.                        *)
(***************************************************************************)
Queue ==
    /\ \A i \in 1 .. Len(backlog) : conn[backlog[i]].srv = "queued"
    /\ \A i, j \in 1 .. Len(backlog) : backlog[i] = backlog[j] => i = j

(***************************************************************************)
(* The two ends of a connection.                                           *)
(***************************************************************************)
ConnShape(k) ==
    /\ k.srv = "free" => k = FreeConn
    /\ k.srv # "free" => k.owner \in Workers
    /\ k.up => k.srv # "free"
    /\ ~k.up => k.rsp = None
    /\ k.srv = "closed" => k.up /\ k.req = None
    /\ k.req # None => k.rsp = None

Connected == {"resume", "auth", "authed", "spawn", "suspend"}

Links ==
    /\ \A c \in Conns : ConnShape(conn[c])
    /\ \A c \in Conns : conn[c].up => wconn[conn[c].owner] = c
    /\ \A w \in Workers :
         wconn[w] # None => conn[wconn[w]].up /\ conn[wconn[w]].owner = w
    /\ \A w \in Workers : wconn[w] # None <=> wpc[w] \in Connected

(***************************************************************************)
(* What is said on a connection, and where its worker then waits.          *)
(***************************************************************************)
AsksAt(op) ==
    CASE op = "AUTH" -> "auth" [] op = "SPAWN" -> "spawn"
      [] op = "SUSPEND" -> "suspend" [] op = "RESUME" -> "resume"

RequestShape(r) ==
    /\ r.op = "AUTH" => r.user \in Users
    /\ r.op = "SUSPEND" <=> r.fd # None
    /\ r.op = "SUSPEND" => r.arc # None

ReplyShape(m, place) ==
    /\ place \in Connected \ {"authed"}
    /\ m.ok => (m.fd # None <=> place \in {"resume", "spawn"})
    /\ ~m.ok => m.fd = None

Dialogue ==
    /\ \A c \in Conns : conn[c].req # None => RequestShape(conn[c].req)
    /\ \A c \in Conns :
         conn[c].req # None /\ conn[c].up
            => wpc[conn[c].owner] = AsksAt(conn[c].req.op)
    /\ \A c \in Conns :
         conn[c].rsp # None => ReplyShape(conn[c].rsp, wpc[conn[c].owner])

(***************************************************************************)
(* Who has a backend descriptor at all.                                    *)
(***************************************************************************)
Holding ==
    /\ \A w \in Workers : be_fd[w] # None <=> wpc[w] \in {"proxy", "suspend"}
    /\ \A i \in Slots : suspended[i].in_use => suspended[i].be_fd # None

CommInv == TypeOK /\ Serving /\ Queue /\ Links /\ Dialogue /\ Holding

-----------------------------------------------------------------------------
(***************************************************************************)
(* The hands a session can be in.                                          *)
(***************************************************************************)

(***************************************************************************)
(* The places that can hand a session on: a worker that proxies it, a      *)
(* message that carries its descriptor, a suspend slot, the handler that   *)
(* spawns or resumes it, a SPAWN that could not be answered; and, before   *)
(* all of them, the fork that is still to come.                            *)
(***************************************************************************)
Holders(s) ==
    {<<"proxy", w>> : w \in {v \in Workers : wpc[v] = "proxy" /\ be_fd[v] = s}}
    \cup {<<"message", c>> : c \in {d \in Conns : Carries(d, s)}}
    \cup {<<"slot", i>> : i \in {j \in Slots :
            suspended[j].in_use /\ suspended[j].be_fd = s}}
    \cup {<<"handler", None>> : x \in {y \in {None} : born = s}}
    \cup {<<"unanswered", None>> : x \in {y \in {None} : retained_fd = s /\ ~spawn_done}}
    \cup {<<"unborn", None>> : x \in {y \in {None} : monitor[s] = "unborn"}}

Exclusive == \A s \in Sessions : \A x, y \in Holders(s) : x = y

(***************************************************************************)
(* Two kinds of holder: the worker that proxies the session, and the slot  *)
(* it is suspended in.                                                     *)
(***************************************************************************)
Proxy(s, w) == wpc[w] = "proxy" /\ be_fd[w] = s

Slot(s, i) == suspended[i].in_use /\ suspended[i].be_fd = s

-----------------------------------------------------------------------------
(***************************************************************************)
(* A cookie and what carries it belong to the session it was issued for.   *)
(***************************************************************************)

(***************************************************************************)
(* The workers: a cookie is issued where a session is attached, and a      *)
(* worker that resumes has been shown a cookie that was issued.            *)
(***************************************************************************)
IssuedAt(w) ==
    /\ issued_for[w] # None => wpc[w] \in {"proxy", "suspend", "done", "killed"}
    /\ wpc[w] = "proxy" /\ mode[w] \in {"resume", "greeter"}
         => issued_for[w] = be_fd[w]
    /\ wpc[w] \in {"resume", "proxy"} /\ mode[w] = "resume"
         => presented[w] # None /\ issued_for[presented[w]] # None
    /\ wpc[w] = "resume" => mode[w] = "resume"
    /\ wpc[w] \in {"auth", "authed", "spawn"} => mode[w] # "resume"

OpensAt(w) ==
    wpc[w] = "proxy" /\ mode[w] = "resume" => be_fd[w] = issued_for[presented[w]]

(***************************************************************************)
(* The requests: SUSPEND brings a session with its own cookie, RESUME the  *)
(* cookie that its worker was shown.                                       *)
(***************************************************************************)
Asked(k) ==
    k.req # None =>
        /\ k.req.op = "SUSPEND" => issued_for[k.req.arc] = k.req.fd
        /\ k.req.op = "RESUME" => k.req.arc # None
        /\ k.req.op = "RESUME" /\ k.up => k.req.arc = presented[k.owner]

(***************************************************************************)
(* The replies to RESUME.                                                  *)
(***************************************************************************)
Told(k) ==
    k.rsp # None /\ k.rsp.fd # None /\ wpc[k.owner] = "resume"
        => issued_for[presented[k.owner]] = k.rsp.fd

(***************************************************************************)
(* The slots and the handler of RESUME.                                    *)
(***************************************************************************)
Bound(slot) ==
    slot.in_use /\ slot.arc_random # None => issued_for[slot.arc_random] = slot.be_fd

Taken == pc = "resume" => issued_for[conn[cur].req.arc] = born

CookieInv ==
    /\ \A w \in Workers : IssuedAt(w) /\ OpensAt(w)
    /\ \A c \in Conns : Asked(conn[c])
    /\ \A c \in Conns : Told(conn[c])
    /\ \A i \in Slots : Bound(suspended[i])
    /\ Taken

-----------------------------------------------------------------------------
(***************************************************************************)
(* The account a login was accepted for, from the reply to AUTH to the     *)
(* session that SPAWN returns.                                             *)
(***************************************************************************)

(***************************************************************************)
(* What a connection says about its worker's account: an AUTH on it names  *)
(* the worker's user, the authentication handle of the client at hand is   *)
(* for that user, and the reply to SPAWN brings a session of the account.  *)
(***************************************************************************)
Named(c) ==
    conn[c].req # None /\ conn[c].req.op = "AUTH" /\ conn[c].up
        => conn[c].req.user = wuser[conn[c].owner]

Linked(c) ==
    auth # None /\ c = cur /\ conn[c].up => auth = AuthName[wuser[conn[c].owner]]

Given(c) ==
    conn[c].rsp # None /\ conn[c].rsp.fd # None /\ wpc[conn[c].owner] = "spawn"
        => /\ sess_user[conn[c].rsp.fd] = AuthName[wuser[conn[c].owner]]
           /\ sess_user[conn[c].rsp.fd] \notin NoShell

(***************************************************************************)
(* The session being spawned is one of the account of the handle.          *)
(***************************************************************************)
Opened ==
    pc \in {"record", "status"} =>
        auth # None /\ auth \notin NoShell /\ sess_user[born] = auth

OwnAt(w) ==
    wpc[w] = "proxy" /\ mode[w] # "resume"
        => /\ sess_user[be_fd[w]] = AuthName[wuser[w]]
           /\ sess_user[be_fd[w]] \notin NoShell

AccountInv ==
    /\ auth # None => cur # None
    /\ \A c \in Conns : Named(c) /\ Linked(c) /\ Given(c)
    /\ Opened
    /\ \A w \in Workers : OwnAt(w)

-----------------------------------------------------------------------------
(***************************************************************************)
(* The mounts.                                                             *)
(***************************************************************************)

(***************************************************************************)
(* A mount belongs to the user of a session that was forked, and the table *)
(* names no session twice, nor the one whose mount is still to be recorded.*)
(***************************************************************************)
MountShape ==
    /\ \A u \in Users :
         mounted[u] # None =>
            monitor[mounted[u]] # "unborn" /\ sess_user[mounted[u]] = u
    /\ \A m \in Mounts :
         fuse_mounts[m] # None =>
            /\ monitor[fuse_mounts[m]] # "unborn"
            /\ pc = "record" => fuse_mounts[m] # born
    /\ \A m, n \in Mounts :
         fuse_mounts[m] # None /\ fuse_mounts[m] = fuse_mounts[n] => m = n
    /\ pc = "record" => monitor[born] # "unborn"

(***************************************************************************)
(* With a table that is large enough, every mount is recorded or about to  *)
(* be, under the mask, and its monitor has not been waited for.            *)
(***************************************************************************)
Recorded(s) == \E m \in Mounts : fuse_mounts[m] = s

MountKept ==
    \A u \in Users :
        mounted[u] # None =>
            /\ Recorded(mounted[u]) \/ (pc = "record" /\ born = mounted[u])
            /\ monitor[mounted[u]] # "reaped"

MountInv == MountShape /\ (MountMax >= Cardinality(Sessions) => MountKept)
=============================================================================
