------------------------------ MODULE SessMgr ------------------------------
(***************************************************************************)
(* rdp-sessionmgr (src/sessionmgr/sessionmgr.c), the Linux build with      *)
(* FUSE.  The manager accepts one client at a time and serves its requests *)
(* in handle_client until the client leaves.  It forks one monitor per     *)
(* session, which opens the PAM session and forks the user process, keeps  *)
(* the descriptors of disconnected sessions in a table of suspend slots,   *)
(* and unmounts a session's RemoteDrive when SIGCHLD tells it that the     *)
(* session's monitor is gone.                                              *)
(*                                                                         *)
(* A step of the manager's main flow reaches to the next point where       *)
(* another process can be noticed: a blocking call or a window in which    *)
(* the treatment of SIGCHLD differs.                                       *)
(***************************************************************************)
EXTENDS SessProto, AuthThrottle

CONSTANTS
    AuthName,        \* rdp_auth_username: the account behind a typed name
    NoShell,         \* users whom handle_spawn refuses: uid 0, or no entry
    DriveUsers,      \* users whose home takes a RemoteDrive mount
    ClientIP,        \* the source address each worker reports
    SuspendMax,      \* RDP_SESSMGR_SUSPEND_MAX
    SuspendTimeout,  \* RDP_SESSMGR_SUSPEND_TIMEOUT, seconds
    MountMax,        \* FUSE_MOUNT_MAX
    ResumeFailMax    \* failures after which handle_resume first sleeps

ASSUME SessMgrAssumption ==
    /\ AuthName \in [Users -> Users]
    /\ NoShell \subseteq Users
    /\ DriveUsers \subseteq Users
    /\ ClientIP \in [Workers -> IPs]
    /\ SuspendMax \in Nat \ {0}
    /\ SuspendTimeout \in Nat
    /\ MountMax \in Nat
    /\ ResumeFailMax \in Nat

VARIABLES
    pc,                 \* where the main flow is
    cur,                \* the client connection in handle_client
    job_at,             \* the time handle_auth read when it began
    auth,               \* user of the authentication handle
    retained_fd,        \* dup of the descriptor the last SPAWN returned
    spawn_done,         \* a SPAWN was answered on this connection
    born,               \* the session being spawned or resumed
    status,             \* the monitor's report in the status pipe
    suspended,          \* the suspend slots
    resume_fail_count,
    monitor,            \* the life of each session's monitor
    sess_user,          \* the user each session was started for
    inherited,          \* backend descriptors a monitor got at its fork
    sigchld,            \* a SIGCHLD is pending
    fuse_mounts,        \* table of monitors whose drive is to be unmounted
    mounted             \* per user, the session mounted on ~/RemoteDrive

clientVars  == <<cur, job_at, auth, retained_fd, spawn_done, born, status>>
slotVars    == <<suspended, resume_fail_count>>
monitorVars == <<monitor, sess_user, inherited, sigchld>>
mountVars   == <<fuse_mounts, mounted>>

mgrVars == <<pc, clientVars, slotVars, monitorVars, mountVars,
             auth_throttle, now>>

Slots  == 1 .. SuspendMax
Mounts == 1 .. MountMax

NoSlot == [in_use |-> FALSE, logon_id |-> None, be_fd |-> None,
           suspended_at |-> 0, arc_random |-> None]

SlotStates ==
    [in_use       : BOOLEAN,
     logon_id     : LogonIds \cup {None},
     be_fd        : Sessions \cup {None},
     suspended_at : Nat,
     arc_random   : ArcRandom]

MgrTypeOK ==
    /\ pc \in {"accept", "poll", "auth", "record", "status", "resume", "end"}
    /\ cur \in Conns \cup {None}
    /\ job_at \in Nat
    /\ auth \in Users \cup {None}
    /\ retained_fd \in Sessions \cup {None}
    /\ spawn_done \in BOOLEAN
    /\ born \in Sessions \cup {None}
    /\ status \in {"none", "started", "failed"}
    /\ suspended \in [Slots -> SlotStates]
    /\ resume_fail_count \in 0 .. ResumeFailMax + 1
    /\ monitor \in [Sessions -> {"unborn", "opening", "waiting", "zombie", "reaped"}]
    /\ sess_user \in [Sessions -> Users \cup {None}]
    /\ inherited \in [Sessions -> SUBSET Sessions]
    /\ sigchld \in BOOLEAN
    /\ fuse_mounts \in [Mounts -> Sessions \cup {None}]
    /\ mounted \in [Users -> Sessions \cup {None}]
    /\ auth_throttle \in Tables
    /\ now \in Nat

MgrInit ==
    /\ pc = "accept"
    /\ cur = None
    /\ job_at = 0
    /\ auth = None
    /\ retained_fd = None
    /\ spawn_done = FALSE
    /\ born = None
    /\ status = "none"
    /\ suspended = [i \in Slots |-> NoSlot]
    /\ resume_fail_count = 0
    /\ monitor = [s \in Sessions |-> "unborn"]
    /\ sess_user = [s \in Sessions |-> None]
    /\ inherited = [s \in Sessions |-> {}]
    /\ sigchld = FALSE
    /\ fuse_mounts = [m \in Mounts |-> None]
    /\ mounted = [u \in Users |-> None]
    /\ ThrottleInit

-----------------------------------------------------------------------------
(***************************************************************************)
(* Drive mounts.                                                           *)
(***************************************************************************)

(***************************************************************************)
(* fuse_mount_reap for every monitor in dead: the table entries are freed  *)
(* and the mounts of those monitors' sessions detached.                    *)
(***************************************************************************)
ReapTable(dead) ==
    [m \in Mounts |-> IF fuse_mounts[m] \in dead THEN None ELSE fuse_mounts[m]]

ReapMounted(dead) ==
    LET gone == {fuse_mounts[m] : m \in Mounts} \cap dead
    IN  [u \in Users |-> IF mounted[u] \in gone THEN None ELSE mounted[u]]

fuse_mount_reap(dead) ==
    /\ fuse_mounts' = ReapTable(dead)
    /\ mounted' = ReapMounted(dead)

(***************************************************************************)
(* fuse_mount_setup fails, or mounts session s's drive; it can mount only  *)
(* where the mountpoint is free.                                           *)
(***************************************************************************)
fuse_mount_setup(u, s) ==
    \/ UNCHANGED mounted
    \/ /\ u \in DriveUsers
       /\ mounted[u] = None
       /\ mounted' = [mounted EXCEPT ![u] = s]

(***************************************************************************)
(* fuse_mount_record: the first free entry; a full table forgets the       *)
(* mount, which then is never detached.                                    *)
(***************************************************************************)
fuse_mount_record(s) ==
    LET free == {m \in Mounts : fuse_mounts[m] = None}
    IN  IF free = {} THEN UNCHANGED fuse_mounts
        ELSE fuse_mounts' = [fuse_mounts EXCEPT ![First(free)] = s]

-----------------------------------------------------------------------------
(***************************************************************************)
(* Signals.                                                                *)
(***************************************************************************)

Zombies == {s \in Sessions : monitor[s] = "zombie"}

(***************************************************************************)
(* spawn_session masks SIGCHLD from the fork to fuse_mount_record when the *)
(* session has a drive mount.                                              *)
(***************************************************************************)
Masked_Never == FALSE

Masked == pc = "record" /\ \E u \in Users : mounted[u] = born

(***************************************************************************)
(* A pending signal that is not masked runs its handler before the main    *)
(* flow goes on.                                                           *)
(***************************************************************************)
Undisturbed == sigchld => Masked

(***************************************************************************)
(* on_sigchld: every child that has exited is waited for and its mount     *)
(* detached.  poll() is not restarted after a handler, so handle_client    *)
(* gives up a client it is waiting for.                                    *)
(***************************************************************************)
on_sigchld ==
    /\ sigchld
    /\ ~Masked
    /\ sigchld' = FALSE
    /\ monitor' = [s \in Sessions |->
                     IF s \in Zombies THEN "reaped" ELSE monitor[s]]
    /\ fuse_mount_reap(Zombies)
    /\ \/ UNCHANGED pc
       \/ /\ pc = "poll"
          /\ conn[cur].req = None
          /\ conn[cur].up
          /\ pc' = "end"
    /\ UNCHANGED <<clientVars, slotVars, sess_user, inherited, auth_throttle,
                   now, protoVars>>

(***************************************************************************)
(* A child's exit.  While handle_auth has the default action in force the  *)
(* signal is discarded.                                                    *)
(***************************************************************************)
ChildExits(s) ==
    /\ monitor' = [monitor EXCEPT ![s] = "zombie"]
    /\ inherited' = [inherited EXCEPT ![s] = {}]
    /\ sigchld' = (sigchld \/ pc # "auth")

-----------------------------------------------------------------------------
(***************************************************************************)
(* The suspend slots.                                                      *)
(***************************************************************************)

(***************************************************************************)
(* sweep_expired, second half: the slots that time out or whose session is *)
(* gone are freed.                                                         *)
(***************************************************************************)
Stale(slot) ==
    /\ slot.in_use
    /\ \/ now - slot.suspended_at > SuspendTimeout
       \/ ~fd_alive(slot.be_fd)

Swept_OneEarly ==
    [i \in Slots |-> IF Stale(suspended[i])
                       \/ now - suspended[i].suspended_at >= SuspendTimeout
                    THEN NoSlot ELSE suspended[i]]

Swept == [i \in Slots |-> IF Stale(suspended[i]) THEN NoSlot ELSE suspended[i]]

(***************************************************************************)
(* sweep_expired, first half: kill(pid, 0) finds a monitor gone only after *)
(* it has been waited for.                                                 *)
(***************************************************************************)
SweepMounts_All == fuse_mount_reap(Sessions)

SweepMounts == fuse_mount_reap({s \in Sessions : monitor[s] = "reaped"})

FreeSlots(t) == {i \in Slots : ~t[i].in_use}

(***************************************************************************)
(* The slot table after sweeping and storing a descriptor in the first     *)
(* free slot; without one the descriptor is closed.                        *)
(***************************************************************************)
Stored_NoRandom(id, s, a) ==
    IF FreeSlots(Swept) = {} THEN Swept
    ELSE [Swept EXCEPT ![First(FreeSlots(Swept))] =
            [in_use |-> TRUE, logon_id |-> id, be_fd |-> s,
             suspended_at |-> now, arc_random |-> None]]

Stored(id, s, a) ==
    IF FreeSlots(Swept) = {} THEN Swept
    ELSE [Swept EXCEPT ![First(FreeSlots(Swept))] =
            [in_use |-> TRUE, logon_id |-> id, be_fd |-> s,
             suspended_at |-> now, arc_random |-> a]]

(***************************************************************************)
(* auto_suspend: under a random logon id and zero random bytes.            *)
(***************************************************************************)
auto_suspend(s) ==
    /\ \E id \in LogonIds : suspended' = Stored(id, s, None)
    /\ SweepMounts

-----------------------------------------------------------------------------
(***************************************************************************)
(* main and handle_client: accepting, waiting for and losing a client.     *)
(***************************************************************************)

accept ==
    /\ pc = "accept"
    /\ Undisturbed
    /\ backlog # <<>>
    /\ cur' = Head(backlog)
    /\ backlog' = Tail(backlog)
    /\ conn' = [conn EXCEPT ![Head(backlog)].srv = "serving"]
    /\ pc' = "poll"
    /\ UNCHANGED <<job_at, auth, retained_fd, spawn_done, born, status,
                   slotVars, monitorVars, mountVars, auth_throttle, now,
                   proc, nthashes>>

(***************************************************************************)
(* The client has closed its end, or stays silent for 30 seconds.          *)
(***************************************************************************)
ClientLeaves ==
    /\ pc = "poll"
    /\ Undisturbed
    /\ conn[cur].req = None
    /\ pc' = "end"
    /\ UNCHANGED <<clientVars, slotVars, monitorVars, mountVars,
                   auth_throttle, now, protoVars>>

(***************************************************************************)
(* The retained descriptor belongs to a SPAWN that could not be answered.  *)
(***************************************************************************)
Unanswered_Any == retained_fd # None /\ fd_alive(retained_fd)

Unanswered == retained_fd # None /\ ~spawn_done /\ fd_alive(retained_fd)

(***************************************************************************)
(* The end of handle_client.  A retained descriptor whose SPAWN could not  *)
(* be answered is suspended automatically; any other is closed.            *)
(***************************************************************************)
EndClient ==
    /\ pc = "end"
    /\ Undisturbed
    /\ IF Unanswered
       THEN auto_suspend(retained_fd)
       ELSE UNCHANGED <<suspended, mountVars>>
    /\ retained_fd' = None
    /\ spawn_done' = FALSE
    /\ auth' = None
    /\ conn' = [conn EXCEPT ![cur] = ClosedByManager(@)]
    /\ cur' = None
    /\ pc' = "accept"
    /\ UNCHANGED <<job_at, born, status, resume_fail_count, monitorVars,
                   auth_throttle, now, backlog, proc, nthashes>>

(***************************************************************************)
(* A request of kind op has arrived.                                       *)
(***************************************************************************)
Received(op) ==
    /\ pc = "poll"
    /\ Undisturbed
    /\ conn[cur].req # None
    /\ conn[cur].req.op = op

Answer(m) == conn' = [conn EXCEPT ![cur] = Replied(@, m)]

-----------------------------------------------------------------------------
(***************************************************************************)
(* handle_auth.                                                            *)
(***************************************************************************)

PeerIP == ClientIP[conn[cur].owner]

(***************************************************************************)
(* The address is over the threshold: the backend is not asked.            *)
(***************************************************************************)
AuthThrottled ==
    /\ Received("AUTH")
    /\ RateLimited(auth_throttle, PeerIP, now)
    /\ Answer(Refusal)
    /\ UNCHANGED <<pc, clientVars, slotVars, monitorVars, mountVars,
                   auth_throttle, now, backlog, proc, nthashes>>

(***************************************************************************)
(* rdp_auth_user is called, with SIGCHLD back at its default action.       *)
(***************************************************************************)
AuthBegin ==
    /\ Received("AUTH")
    /\ ~RateLimited(auth_throttle, PeerIP, now)
    /\ job_at' = now
    /\ pc' = "auth"
    /\ UNCHANGED <<cur, auth, retained_fd, spawn_done, born, status, slotVars,
                   monitorVars, mountVars, auth_throttle, now, protoVars>>

(***************************************************************************)
(* cache_nthash rewrites the NT hash file with an entry for the user; when *)
(* the temporary file cannot be written the old file stays.                *)
(***************************************************************************)
cache_nthash(u) == nthashes' \in {nthashes, nthashes \cup {u}}

(***************************************************************************)
(* rdp_auth_user accepts.  The handle replaces the one of an earlier AUTH  *)
(* on this connection.                                                     *)
(***************************************************************************)
AuthAccepts ==
    /\ pc = "auth"
    /\ cache_nthash(conn[cur].req.user)
    /\ auth' = AuthName[conn[cur].req.user]
    /\ auth_throttle' = auth_throttle_clear(auth_throttle, PeerIP)
    /\ Answer(Success(None))
    /\ job_at' = 0
    /\ pc' = "poll"
    /\ UNCHANGED <<cur, retained_fd, spawn_done, born, status, slotVars,
                   monitorVars, mountVars, now, backlog, proc>>

(***************************************************************************)
(* rdp_auth_user refuses.                                                  *)
(***************************************************************************)
AuthRefuses ==
    /\ pc = "auth"
    /\ auth_throttle' = auth_throttle_fail(auth_throttle, PeerIP, job_at)
    /\ Answer(Refusal)
    /\ job_at' = 0
    /\ pc' = "poll"
    /\ UNCHANGED <<cur, auth, retained_fd, spawn_done, born, status, slotVars,
                   monitorVars, mountVars, now, backlog, proc, nthashes>>

-----------------------------------------------------------------------------
(***************************************************************************)
(* handle_spawn, spawn_session and session_monitor.                        *)
(***************************************************************************)

(***************************************************************************)
(* Somebody is logged in and may have a session.                           *)
(***************************************************************************)
MaySpawn_Root(u) == u # None

MaySpawn(u) == u # None /\ u \notin NoShell

(***************************************************************************)
(* Before the fork: nobody is logged in, or may not have a session (the    *)
(* handle is kept); or socketpair, pipe or fork fails (it is freed).  The  *)
(* mount made for a fork that fails is detached at once.                   *)
(***************************************************************************)
SpawnRefused ==
    /\ Received("SPAWN")
    /\ \/ ~MaySpawn(auth) /\ UNCHANGED auth
       \/ MaySpawn(auth) /\ auth' = None
    /\ Answer(Refusal)
    /\ spawn_done' = (spawn_done \/ conn[cur].up)
    /\ UNCHANGED <<pc, cur, job_at, retained_fd, born, status, slotVars,
                   monitorVars, mountVars, auth_throttle, now,
                   backlog, proc, nthashes>>

(***************************************************************************)
(* The mount and the fork.  The monitor inherits every descriptor the      *)
(* manager has open.                                                       *)
(***************************************************************************)
SpawnFork(s) ==
    /\ Received("SPAWN")
    /\ MaySpawn(auth)
    /\ monitor[s] = "unborn"
    /\ monitor' = [monitor EXCEPT ![s] = "opening"]
    /\ sess_user' = [sess_user EXCEPT ![s] = auth]
    /\ inherited' = [inherited EXCEPT ![s] =
                       {suspended[i].be_fd : i \in Slots \ FreeSlots(suspended)}
                         \cup ({retained_fd} \ {None})]
    /\ fuse_mount_setup(auth, s)
    /\ born' = s
    /\ pc' = "record"
    /\ UNCHANGED <<cur, job_at, auth, retained_fd, spawn_done, status,
                   slotVars, sigchld, fuse_mounts, auth_throttle, now,
                   protoVars>>

(***************************************************************************)
(* The parent records the mount and unmasks SIGCHLD.                       *)
(***************************************************************************)
SpawnRecord ==
    /\ pc = "record"
    /\ Undisturbed
    /\ IF mounted[sess_user[born]] = born
       THEN fuse_mount_record(born)
       ELSE UNCHANGED fuse_mounts
    /\ pc' = "status"
    /\ UNCHANGED <<clientVars, slotVars, monitorVars, mounted,
                   auth_throttle, now, protoVars>>

(***************************************************************************)
(* The status byte arrives, or the pipe closes without one.  The           *)
(* authentication handle is freed whatever the outcome.                    *)
(***************************************************************************)
SpawnFailed ==
    /\ pc = "status"
    /\ Undisturbed
    /\ status = "failed"
    /\ auth' = None
    /\ Answer(Refusal)
    /\ spawn_done' = (spawn_done \/ conn[cur].up)
    /\ born' = None
    /\ status' = "none"
    /\ pc' = "poll"
    /\ UNCHANGED <<cur, job_at, retained_fd, slotVars, monitorVars,
                   mountVars, auth_throttle, now, backlog, proc, nthashes>>

SpawnStarted ==
    /\ pc = "status"
    /\ Undisturbed
    /\ status = "started"
    /\ auth' = None
    /\ retained_fd' = born
    /\ Answer(Success(born))
    /\ spawn_done' = (spawn_done \/ conn[cur].up)
    /\ born' = None
    /\ status' = "none"
    /\ pc' = "poll"
    /\ UNCHANGED <<cur, job_at, slotVars, monitorVars, mountVars,
                   auth_throttle, now, backlog, proc, nthashes>>

(***************************************************************************)
(* session_monitor: the PAM session or the fork fails, or the monitor dies *)
(* before it can report.                                                   *)
(***************************************************************************)
MonitorFails(s) ==
    /\ monitor[s] = "opening"
    /\ ChildExits(s)
    /\ status' = "failed"
    /\ UNCHANGED <<pc, cur, job_at, auth, retained_fd, spawn_done, born,
                   slotVars, sess_user, mountVars, auth_throttle, now,
                   protoVars>>

MonitorStarts(s) ==
    /\ monitor[s] = "opening"
    /\ monitor' = [monitor EXCEPT ![s] = "waiting"]
    /\ proc' = [proc EXCEPT ![s] = "running"]
    /\ status' = "started"
    /\ UNCHANGED <<pc, cur, job_at, auth, retained_fd, spawn_done, born,
                   slotVars, sess_user, inherited, sigchld, mountVars,
                   auth_throttle, now, conn, backlog, nthashes>>

(***************************************************************************)
(* The monitor has waited for the user process and closes the session.     *)
(***************************************************************************)
MonitorExits(s) ==
    /\ monitor[s] = "waiting"
    /\ proc[s] = "exited"
    /\ ChildExits(s)
    /\ UNCHANGED <<pc, clientVars, slotVars, sess_user, mountVars,
                   auth_throttle, now, protoVars>>

-----------------------------------------------------------------------------
(***************************************************************************)
(* handle_suspend and handle_resume.                                       *)
(***************************************************************************)

handle_suspend ==
    /\ Received("SUSPEND")
    /\ LET r == conn[cur].req
       IN  /\ suspended' = Stored(r.id, r.fd, r.arc)
           /\ Answer(IF FreeSlots(Swept) = {} THEN Refusal ELSE Success(None))
    /\ SweepMounts
    /\ retained_fd' = None
    /\ UNCHANGED <<pc, cur, job_at, auth, spawn_done, born, status,
                   resume_fail_count, monitorVars, auth_throttle, now,
                   backlog, proc, nthashes>>

(***************************************************************************)
(* The slot a RESUME is tried against: the first with its logon id.        *)
(***************************************************************************)
Candidates(t, id) == {i \in Slots : t[i].in_use /\ t[i].logon_id = id}

(***************************************************************************)
(* Too many failures in a row cost a delay and restart the count.          *)
(***************************************************************************)
FailCount_NoReset == resume_fail_count

FailCount == IF resume_fail_count > ResumeFailMax THEN 0 ELSE resume_fail_count

(***************************************************************************)
(* The verifier proves the random bits of the slot's cookie.              *)
(***************************************************************************)
Verified_Skipped(slot, r) == TRUE

Verified(slot, r) == slot.arc_random = r.arc

Freed_Kept(t, i) == t

Freed(t, i) == [t EXCEPT ![i] = NoSlot]

ResumeRefused ==
    /\ Received("RESUME")
    /\ LET r == conn[cur].req
           found == Candidates(Swept, r.id)
       IN  found # {} => ~Verified(Swept[First(found)], r)
    /\ suspended' = Swept
    /\ SweepMounts
    /\ resume_fail_count' = FailCount + 1
    /\ Answer(Refusal)
    /\ UNCHANGED <<pc, clientVars, monitorVars, auth_throttle, now,
                   backlog, proc, nthashes>>

(***************************************************************************)
(* The slot is freed and its descriptor taken out.                         *)
(***************************************************************************)
ResumeTake ==
    /\ Received("RESUME")
    /\ LET r == conn[cur].req
           found == Candidates(Swept, r.id)
       IN  /\ found # {}
           /\ Verified(Swept[First(found)], r)
           /\ born' = Swept[First(found)].be_fd
           /\ suspended' = Freed(Swept, First(found))
    /\ SweepMounts
    /\ resume_fail_count' = FailCount
    /\ pc' = "resume"
    /\ UNCHANGED <<cur, job_at, auth, retained_fd, spawn_done, status,
                   monitorVars, auth_throttle, now, protoVars>>

(***************************************************************************)
(* The descriptor is checked once more and handed over; the manager closes *)
(* its copy whether or not the reply could be sent.                        *)
(***************************************************************************)
ResumeReply ==
    /\ pc = "resume"
    /\ Undisturbed
    /\ Answer(IF fd_alive(born) THEN Success(born) ELSE Refusal)
    /\ born' = None
    /\ pc' = "poll"
    /\ UNCHANGED <<cur, job_at, auth, retained_fd, spawn_done, status,
                   slotVars, monitorVars, mountVars, auth_throttle, now,
                   backlog, proc, nthashes>>

-----------------------------------------------------------------------------

Clock ==
    /\ now < MaxTime
    /\ now' = now + 1
    /\ UNCHANGED <<pc, clientVars, slotVars, monitorVars, mountVars,
                   auth_throttle, protoVars>>

MgrStep ==
    \/ accept \/ ClientLeaves \/ EndClient
    \/ AuthThrottled \/ AuthBegin \/ AuthAccepts \/ AuthRefuses
    \/ SpawnRefused \/ (\E s \in Sessions : SpawnFork(s))
    \/ SpawnRecord \/ SpawnFailed \/ SpawnStarted
    \/ handle_suspend \/ ResumeRefused \/ ResumeTake \/ ResumeReply

MonitorStep(s) == MonitorFails(s) \/ MonitorStarts(s) \/ MonitorExits(s)

MgrNext ==
    \/ MgrStep
    \/ on_sigchld
    \/ \E s \in Sessions : MonitorStep(s)
    \/ Clock
============================================================================
