------------------------------ MODULE Devices ------------------------------
(***************************************************************************)
(* Device redirection.  The worker speaks RDPDR to the client (rdpdr.c and *)
(* its dispatch in conn.c): handshake, device lists, and I/O requests that *)
(* the client completes in any order.  Requests come from the session: the *)
(* file system ones are answered with FS_RSP, a print job is a chain of    *)
(* CREATE, WRITEs and CLOSE that the worker drives itself (print_job_start).*)
(* The session (printer.c) makes a CUPS queue of every printer and takes   *)
(* the spools from CUPS backend processes (cups_backend.c) over a socket.  *)
(***************************************************************************)
EXTENDS Integers, Sequences, FiniteSets, FiniteSetsExt, SequencesExt

CONSTANTS DevLoads,      \* the histories of the instance
          DevMaxDevices, \* RDPDR_MAX_DEVICES
          DevMaxPending, \* RDPDR_MAX_PENDING
          DevMaxJobs,    \* RDPDR_MAX_PRINT_JOBS
          DevMaxQueues,  \* RDP_PRINTER_MAX_QUEUES
          DevMaxConns,   \* RDP_PRINTER_MAX_CONNS
          DevMaxSpool,   \* RDP_BE_PRINT_JOB_MAX_SPOOL
          DevPrintChunk, \* RDPDR_PRINT_CHUNK
          DevVcChunk,    \* channel chunk of the client
          DevMaxPdu,     \* RDPDR_MAX_PDU
          DevNil         \* absent

VARIABLES dr_w,      \* the worker: struct dr_state
          dr_s,      \* the session: struct rdp_printer, drives, requests
          dr_cl,     \* the client
          dr_cups,   \* the CUPS backend of each job, and its socket
          dr_down,   \* worker to client
          dr_up,     \* client to worker, in chunks
          dr_to_s,   \* worker to session
          dr_to_w,   \* session to worker
          dr_load

dev_vars == <<dr_w, dr_s, dr_cl, dr_cups, dr_down, dr_up, dr_to_s, dr_to_w>>

-----------------------------------------------------------------------------
(* Channel PDUs                                                             *)

\* A PDU of the client in the chunks of its channel
Chunks(pdu) ==
    LET n == (pdu.size + DevVcChunk - 1) \div DevVcChunk
    IN [k \in 1 .. n |-> [first |-> k = 1, last |-> k = n, total |-> pdu.size, pdu |-> pdu,
                          len |-> Min({DevVcChunk, pdu.size - (k - 1) * DevVcChunk})]]

NoReasm == [active |-> FALSE, cap |-> 0, len |-> 0]

\* A PDU is complete with its last fragment; what does not fit is dropped.
rdp_vc_reasm_feed(r, c) ==
    LET s == IF c.first THEN [active |-> c.total \in 1 .. DevMaxPdu, cap |-> c.total, len |-> 0] ELSE r
    IN IF c.first /\ c.last THEN [rc |-> 1, r |-> NoReasm]
       ELSE IF ~s.active \/ c.len > s.cap - s.len THEN [rc |-> -1, r |-> NoReasm]
       ELSE [rc |-> IF c.last THEN 1 ELSE 0, r |-> [s EXCEPT !.len = @ + c.len]]

-----------------------------------------------------------------------------
(* I/O requests of the worker                                               *)

\* alloc_pending: the first free entry and the next completion id
FreePending(w) == {i \in 1 .. DevMaxPending : w.pending[i] = DevNil}

alloc_pending(w, device, major, req) ==
    [w EXCEPT !.pending[Min(FreePending(w))] =
                [cid |-> w.next_cid, device |-> device, major |-> major, req |-> req],
              !.next_cid = @ + 1]

\* rdp_rdpdr_build_irp_*: the request as it goes out
Irp(w, device, major, file, data, for) ==
    [p |-> "irp", cid |-> w.next_cid, device |-> device, major |-> major, file |-> file,
     data |-> data, for |-> for]

\* A step of the worker: its state, and what it sends
Stay(w) == [w |-> w, down |-> <<>>, up |-> <<>>]

\* An IRP of print job j goes out, or the job is freed: no entry is left.
SendJobIrp(w, j, major, state, data) ==
    IF FreePending(w) = {} THEN Stay([w EXCEPT !.jobs[j] = DevNil])
    ELSE LET job == w.jobs[j]
         IN [Stay([alloc_pending(w, job.device, major, 0) EXCEPT
                      !.jobs[j].cid = w.next_cid, !.jobs[j].state = state])
                EXCEPT !.down = <<Irp(w, job.device, major, job.file, data, 0)>>]

Slice(job) == Min({DevPrintChunk, Len(job.spool) - job.off})

print_job_send_write_FromStart(w, j) ==
    LET job == w.jobs[j]
    IN SendJobIrp(w, j, "WRITE", "PJ_WRITE", SubSeq(job.spool, 1, Slice(job)))

print_job_send_write(w, j) ==
    LET job == w.jobs[j]
    IN SendJobIrp(w, j, "WRITE", "PJ_WRITE", SubSeq(job.spool, job.off + 1, job.off + Slice(job)))

print_job_send_close(w, j) == SendJobIrp(w, j, "CLOSE", "PJ_CLOSE", <<>>)

\* The printer is opened for a spool that fits a free slot of the table.
print_job_start(w, device, spool) ==
    LET free == {j \in 1 .. DevMaxJobs : w.jobs[j] = DevNil}
    IN IF free = {} \/ FreePending(w) = {} THEN Stay(w)
       ELSE [Stay([alloc_pending(w, device, "CREATE", 0) EXCEPT
                      !.jobs[Min(free)] = [state |-> "PJ_CREATE", device |-> device, file |-> 0,
                                           cid |-> w.next_cid, spool |-> spool, off |-> 0]])
                EXCEPT !.down = <<Irp(w, device, "CREATE", 0, <<>>, 0)>>]

\* The completion of a job's request sends the next one of its chain.
AdvanceJob(w, j, c) ==
    LET job == w.jobs[j]
        off == job.off + Slice(job)
    IN CASE job.state = "PJ_CREATE" ->
              LET v == [w EXCEPT !.jobs[j].file = c.file]
              IN IF job.spool = <<>> THEN print_job_send_close(v, j) ELSE print_job_send_write(v, j)
         [] job.state = "PJ_WRITE" ->
              LET v == [w EXCEPT !.jobs[j].off = off]
              IN IF off < Len(job.spool) THEN print_job_send_write(v, j) ELSE print_job_send_close(v, j)
         [] job.state = "PJ_CLOSE" -> Stay([w EXCEPT !.jobs[j] = DevNil])

JobsOf(w, c) == {j \in 1 .. DevMaxJobs : w.jobs[j] # DevNil /\ w.jobs[j].cid = c.cid}

print_job_on_completion_Keeps(w, c) ==
    IF JobsOf(w, c) = {} \/ ~c.ok THEN Stay(w) ELSE AdvanceJob(w, Min(JobsOf(w, c)), c)

print_job_on_completion(w, c) ==
    IF JobsOf(w, c) = {} THEN Stay(w)
    ELSE IF ~c.ok THEN Stay([w EXCEPT !.jobs[Min(JobsOf(w, c))] = DevNil])
    ELSE AdvanceJob(w, Min(JobsOf(w, c)), c)

\* RDP_BE_FS_REQ: sent on with the number of the request kept, or refused
OnFsReq_Unnumbered(w, m) ==
    IF FreePending(w) = {}
    THEN [Stay(w) EXCEPT !.up = <<[m |-> "FS_RSP", req |-> m.req, for |-> m.req]>>]
    ELSE [Stay(alloc_pending(w, m.device, m.op, 0)) EXCEPT
             !.down = <<Irp(w, m.device, m.op, m.file, <<>>, m.req)>>]

OnFsReq_Silent(w, m) ==
    IF FreePending(w) = {} THEN Stay(w)
    ELSE [Stay(alloc_pending(w, m.device, m.op, m.req)) EXCEPT
             !.down = <<Irp(w, m.device, m.op, m.file, <<>>, m.req)>>]

OnFsReq(w, m) ==
    IF FreePending(w) = {}
    THEN [Stay(w) EXCEPT !.up = <<[m |-> "FS_RSP", req |-> m.req, for |-> m.req]>>]
    ELSE [Stay(alloc_pending(w, m.device, m.op, m.req)) EXCEPT
             !.down = <<Irp(w, m.device, m.op, m.file, <<>>, m.req)>>]

-----------------------------------------------------------------------------
(* What the client says                                                     *)

\* handle_device_list: an id names one device; all are confirmed.
AddDevice_Again(devices, d) ==
    IF Len(devices) < DevMaxDevices THEN Append(devices, [announced |-> FALSE] @@ d) ELSE devices

AddDevice_Unbounded(devices, d) ==
    IF \A i \in DOMAIN devices : devices[i].id # d.id
    THEN Append(devices, [announced |-> FALSE] @@ d) ELSE devices

AddDevice(devices, d) ==
    IF Len(devices) < DevMaxDevices /\ \A i \in DOMAIN devices : devices[i].id # d.id
    THEN Append(devices, [announced |-> FALSE] @@ d) ELSE devices

handle_device_list(w, list) ==
    [Stay([w EXCEPT !.devices = FoldLeft(AddDevice, @, list)]) EXCEPT
        !.down = [i \in DOMAIN list |-> [p |-> "reply", device |-> list[i].id]]]

dr_is_printer_device(w, device) ==
    \E i \in DOMAIN w.devices : w.devices[i].id = device /\ w.devices[i].type = "print"

\* A completion goes to its request's job or session, by the device that the
\* request was for.
OnCompletion(w, c) ==
    LET mine == {i \in 1 .. DevMaxPending : w.pending[i] # DevNil /\ w.pending[i].cid = c.cid}
        p == w.pending[Min(mine)]
        v == [w EXCEPT !.pending[Min(mine)] = DevNil]
    IN IF mine = {} THEN Stay(w)
       ELSE IF dr_is_printer_device(w, p.device) THEN print_job_on_completion(v, c)
       ELSE [Stay(v) EXCEPT !.up = <<[m |-> "FS_RSP", req |-> p.req, for |-> c.for]>>]

rdp_rdpdr_handle(w, pdu) ==
    CASE pdu.p = "confirm" -> Stay([w EXCEPT !.client_id = pdu.id])
      [] pdu.p = "name" -> [Stay(w) EXCEPT !.down = <<[p |-> "caps"], [p |-> "clientid", id |-> w.client_id]>>]
      [] pdu.p = "caps" -> [Stay([w EXCEPT !.handshake_done = TRUE]) EXCEPT !.down = <<[p |-> "loggedon"]>>]
      [] pdu.p = "list" -> handle_device_list(w, pdu.list)
      [] pdu.p = "remove" -> Stay(w)
      [] pdu.p = "done" -> OnCompletion(w, pdu)

\* After every PDU, drives and printers the session was not told of yet
AnnounceDevices(step) ==
    LET new == SelectSeq(step.w.devices, LAMBDA d : ~d.announced /\ d.type \in {"print", "drive"})
        msg(d) == [m |-> IF d.type = "print" THEN "PRINTER_DEVICE" ELSE "FS_DEVICE", device |-> d.id, name |-> d.name]
    IN [step EXCEPT !.up = @ \o [i \in DOMAIN new |-> msg(new[i])],
                    !.w.devices = [i \in DOMAIN @ |-> [@[i] EXCEPT !.announced = @ \/ step.w.devices[i].type \in {"print", "drive"}]]]

WorkerDoes(step) ==
    dr_w' = step.w /\ dr_down' = dr_down \o step.down /\ dr_to_s' = dr_to_s \o step.up

WorkerReadsClient ==
    /\ dr_up # <<>>
    /\ LET c == Head(dr_up)
           fed == rdp_vc_reasm_feed(dr_w.reasm, c)
           whole == (c.first /\ c.last) \/ fed.r.len = c.pdu.size
       IN IF fed.rc # 1 THEN WorkerDoes(Stay([dr_w EXCEPT !.reasm = fed.r]))
          ELSE WorkerDoes(AnnounceDevices(
                 IF whole THEN rdp_rdpdr_handle([dr_w EXCEPT !.reasm = NoReasm], c.pdu)
                 ELSE Stay([dr_w EXCEPT !.reasm = NoReasm])))
    /\ dr_up' = Tail(dr_up)
    /\ UNCHANGED <<dr_s, dr_cl, dr_cups, dr_to_w, dr_load>>

\* FS_REQ and PRINT_JOB branches of run_proxy; a spool beyond the limit is drained.
WorkerReadsSession ==
    /\ dr_to_w # <<>>
    /\ LET m == Head(dr_to_w)
       IN WorkerDoes(CASE m.m = "FS_REQ" -> OnFsReq(dr_w, m)
                       [] m.m = "PRINT_JOB" -> IF Len(m.spool) > DevMaxSpool THEN Stay(dr_w)
                                               ELSE print_job_start(dr_w, m.device, m.spool))
    /\ dr_to_w' = Tail(dr_to_w)
    /\ UNCHANGED <<dr_s, dr_cl, dr_cups, dr_up, dr_load>>

-----------------------------------------------------------------------------
(* The session: drives and printers                                         *)

\* Characters a queue name may have; the rest become "_".
Plain == {"a", "b", "1", "-", "_"}
Stem == <<"r", "d", "p", "-">>
rdp_printer_sanitize(name) ==
    Stem \o IF name = <<>> THEN <<"printer">> ELSE [i \in DOMAIN name |-> IF name[i] \in Plain THEN name[i] ELSE "_"]

Digit == <<"1", "2", "3", "4", "5", "6", "7", "8", "9">>
TakenNames(s) == {s.queues[i].name : i \in {k \in 1 .. DevMaxQueues : s.queues[k] # DevNil}}

QueueName_Stem(s, name) == rdp_printer_sanitize(name)

\* The first of stem, stem-1, stem-2, ... that no queue has
QueueName(s, name) ==
    LET base == rdp_printer_sanitize(name)
        nth(n) == IF n = 0 THEN base ELSE base \o <<"-", Digit[n]>>
    IN nth(Min({n \in 0 .. 9 : nth(n) \notin TakenNames(s)}))

\* lpadmin runs (rdp_run) and fails or not; one queue for a device id
rdp_printer_handle_device(s, m, runs) ==
    LET free == {i \in 1 .. DevMaxQueues : s.queues[i] = DevNil}
    IN IF ~s.lpadmin \/ (\E i \in 1 .. DevMaxQueues : s.queues[i] # DevNil /\ s.queues[i].device = m.device)
           \/ free = {} \/ ~runs
       THEN s
       ELSE [s EXCEPT !.queues[Min(free)] = [device |-> m.device, name |-> QueueName(s, m.name)]]

SessionReadsWorker ==
    /\ dr_s.ph = "run" /\ dr_to_s # <<>>
    /\ LET m == Head(dr_to_s)
       IN \/ /\ m.m = "FS_DEVICE"
             /\ dr_s' = [dr_s EXCEPT !.drives = @ \cup {m.device}]
          \/ /\ m.m = "FS_RSP"
             /\ dr_s' = [dr_s EXCEPT !.asked = @ \ {m.req}, !.stray = @ \/ m.req \notin dr_s.asked \/ m.req # m.for]
          \/ /\ m.m = "PRINTER_DEVICE"
             /\ \E runs \in {TRUE, ~dr_load.lpadmin_fails} :
                  dr_s' = [rdp_printer_handle_device(dr_s, m, runs) EXCEPT
                             !.told = @ \cup {[device |-> m.device, name |-> m.name]}]
    /\ dr_to_s' = Tail(dr_to_s)
    /\ UNCHANGED <<dr_w, dr_cl, dr_cups, dr_down, dr_up, dr_to_w, dr_load>>

\* A request of the drives (fuse_drive.c), numbered
SessionAsks ==
    /\ dr_s.ph = "run" /\ dr_s.next < dr_load.requests
    /\ \E d \in dr_s.drives, op \in {"CREATE", "READ", "CLOSE"} :
         /\ dr_to_w' = Append(dr_to_w, [m |-> "FS_REQ", req |-> dr_s.next + 1, device |-> d, op |-> op, file |-> 0])
         /\ dr_s' = [dr_s EXCEPT !.next = @ + 1, !.asked = @ \cup {dr_s.next + 1}]
    /\ UNCHANGED <<dr_w, dr_cl, dr_cups, dr_down, dr_up, dr_to_s, dr_load>>

-----------------------------------------------------------------------------
(* Print socket                                                             *)

JobIds == DOMAIN dr_load.jobs
SpoolOf(j) == [i \in 1 .. Min({dr_load.jobs[j].len, DevMaxSpool}) |-> <<j, i>>]

\* slurp_spool keeps the first DevMaxSpool units; a queue's URI has the device.
BackendConnects(j) ==
    /\ dr_cups[j].ph = "idle" /\ dr_s.ph = "run"
    /\ \E i \in 1 .. DevMaxQueues : dr_s.queues[i] # DevNil /\ dr_s.queues[i].device = dr_load.jobs[j].device
    /\ dr_cups' = [dr_cups EXCEPT ![j].ph = "header"]
    /\ dr_s' = [dr_s EXCEPT !.backlog = Append(@, j)]
    /\ UNCHANGED <<dr_w, dr_cl, dr_down, dr_up, dr_to_s, dr_to_w, dr_load>>

\* The header, then unit by unit, then exit 0; a closed socket fails the write.
BackendWrites(j) ==
    LET b == dr_cups[j]
    IN /\ b.ph \in {"header", "spool"}
       /\ dr_cups' = [dr_cups EXCEPT ![j] =
            IF b.closed THEN [b EXCEPT !.ph = "failed"]
            ELSE IF b.ph = "header" THEN [b EXCEPT !.ph = IF SpoolOf(j) = <<>> THEN "ok" ELSE "spool", !.sent = 1]
            ELSE [b EXCEPT !.sent = @ + 1, !.ph = IF b.sent = Len(SpoolOf(j)) THEN "ok" ELSE "spool"]]
       /\ UNCHANGED <<dr_w, dr_s, dr_cl, dr_down, dr_up, dr_to_s, dr_to_w, dr_load>>

\* The job is cancelled: the process dies.
BackendDies(j) ==
    /\ dr_load.cancel /\ dr_cups[j].ph \in {"header", "spool"}
    /\ dr_cups' = [dr_cups EXCEPT ![j].ph = "killed"]
    /\ UNCHANGED <<dr_w, dr_s, dr_cl, dr_down, dr_up, dr_to_s, dr_to_w, dr_load>>

NoConn == [job |-> DevNil, hdr |-> FALSE, got |-> 0]

\* accept_conn: into a free slot, else dropped
accept_conn ==
    /\ dr_s.ph = "run" /\ dr_s.backlog # <<>>
    /\ LET j == Head(dr_s.backlog)
           free == {i \in 1 .. DevMaxConns : dr_s.conns[i].job = DevNil}
       IN /\ dr_s' = [dr_s EXCEPT !.backlog = Tail(@),
                                  !.conns = IF free = {} THEN @ ELSE [@ EXCEPT ![Min(free)] = [NoConn EXCEPT !.job = j]]]
          /\ dr_cups' = IF free = {} THEN [dr_cups EXCEPT ![j].closed = TRUE, ![j].dropped = TRUE] ELSE dr_cups
    /\ UNCHANGED <<dr_w, dr_cl, dr_down, dr_up, dr_to_s, dr_to_w, dr_load>>

Gone(j) == dr_cups[j].ph \in {"ok", "failed", "killed"}

\* service_conn: all that is there; the whole spool, or what there is of one when
\* the backend has gone, makes a job.
service_conn(i) ==
    LET c == dr_s.conns[i]
        j == c.job
        avail == dr_cups[j].sent - 1
        job == [m |-> "PRINT_JOB", device |-> dr_load.jobs[j].device, spool |-> SubSeq(SpoolOf(j), 1, avail)]
    IN /\ dr_s.ph = "run" /\ j # DevNil
       /\ \/ /\ avail = -1 /\ Gone(j)
             /\ dr_s' = [dr_s EXCEPT !.conns[i] = NoConn]
             /\ UNCHANGED dr_to_w
          \/ /\ avail >= 0 /\ (avail = Len(SpoolOf(j)) \/ Gone(j))
             /\ dr_s' = [dr_s EXCEPT !.conns[i] = NoConn]
             /\ dr_to_w' = Append(dr_to_w, job)
          \/ /\ avail >= 0 /\ avail < Len(SpoolOf(j)) /\ ~Gone(j) /\ (c.got < avail \/ ~c.hdr)
             /\ dr_s' = [dr_s EXCEPT !.conns[i].hdr = TRUE, !.conns[i].got = avail]
             /\ UNCHANGED dr_to_w
       /\ dr_cups' = IF dr_s'.conns[i] = NoConn THEN [dr_cups EXCEPT ![j].closed = TRUE] ELSE dr_cups
       /\ UNCHANGED <<dr_w, dr_cl, dr_down, dr_up, dr_to_s, dr_load>>

\* The session ends: queues removed, connections and the socket closed.
rdp_printer_close ==
    /\ dr_load.logoff /\ dr_s.ph = "run"
    /\ dr_s' = [dr_s EXCEPT !.ph = "ended", !.queues = [i \in 1 .. DevMaxQueues |-> DevNil], !.backlog = <<>>,
                            !.conns = [i \in 1 .. DevMaxConns |-> NoConn], !.asked = {}]
    /\ dr_cups' = [j \in JobIds |-> [dr_cups[j] EXCEPT !.closed = TRUE]]
    /\ UNCHANGED <<dr_w, dr_cl, dr_down, dr_up, dr_to_s, dr_to_w, dr_load>>

-----------------------------------------------------------------------------
(* The client (external)                                                    *)

SendPdus(pdus) == dr_up' = dr_up \o FoldLeft(LAMBDA acc, p : acc \o Chunks(p), <<>>, pdus)

ClientHears ==
    /\ dr_down # <<>>
    /\ LET m == Head(dr_down)
       IN \/ /\ m.p = "announce"
             /\ SendPdus(<<[p |-> "confirm", id |-> m.id, size |-> 1], [p |-> "name", size |-> 1]>>)
             /\ UNCHANGED dr_cl
          \/ /\ m.p = "clientid"
             /\ dr_cl' = [dr_cl EXCEPT !.known = m.id = dr_load.client_id]
             /\ SendPdus(<<[p |-> "caps", size |-> 1]>>)
          \/ /\ m.p = "loggedon"
             /\ SendPdus(<<[p |-> "list", list |-> dr_load.devices, size |-> dr_load.list_size]>>)
             /\ dr_cl' = [dr_cl EXCEPT !.listed = TRUE]
          \/ /\ m.p \in {"caps", "reply"}
             /\ UNCHANGED <<dr_cl, dr_up>>
          \/ /\ m.p = "irp"
             /\ dr_cl' = [dr_cl EXCEPT !.todo = @ \cup {m}]
             /\ UNCHANGED dr_up
    /\ dr_down' = Tail(dr_down)
    /\ UNCHANGED <<dr_w, dr_s, dr_cups, dr_to_s, dr_to_w, dr_load>>

\* Devices plugged in or out later
ClientSendsLater ==
    /\ dr_cl.plugs < Len(dr_load.later) /\ dr_w.handshake_done
    /\ SendPdus(<<dr_load.later[dr_cl.plugs + 1]>>)
    /\ dr_cl' = [dr_cl EXCEPT !.plugs = @ + 1]
    /\ UNCHANGED <<dr_w, dr_s, dr_cups, dr_down, dr_to_s, dr_to_w, dr_load>>

IsPrinter(d) == \E i \in DOMAIN dr_load.devices : dr_load.devices[i].id = d /\ dr_load.devices[i].type = "print"

\* A request in any order, refused for a device not announced yet; a CLOSE prints what was written.
ClientCompletes ==
    \E r \in dr_cl.todo, ok \in {dr_cl.listed, dr_cl.listed /\ ~dr_load.errors} :
       /\ SendPdus(<<[p |-> "done", cid |-> r.cid, ok |-> ok, file |-> IF r.major = "CREATE" /\ ok THEN dr_cl.next_file ELSE 0,
                 for |-> r.for, size |-> IF r.major = "READ" THEN dr_load.read_size ELSE 1]>>)
       /\ dr_cl' = LET c == [dr_cl EXCEPT !.todo = @ \ {r}]
                   IN IF ~ok \/ ~IsPrinter(r.device) THEN c
                      ELSE CASE r.major = "CREATE" -> [c EXCEPT !.next_file = @ + 1, !.open = @ \cup {[file |-> c.next_file, data |-> <<>>]}]
                             [] r.major = "WRITE" -> [c EXCEPT !.open = {IF f.file = r.file THEN [f EXCEPT !.data = @ \o r.data] ELSE f : f \in @}]
                             [] r.major = "CLOSE" -> [c EXCEPT !.printed = @ \cup {f.data : f \in {g \in c.open : g.file = r.file}},
                                                               !.open = {f \in @ : f.file # r.file}]
       /\ UNCHANGED <<dr_w, dr_s, dr_cups, dr_down, dr_to_s, dr_to_w, dr_load>>

-----------------------------------------------------------------------------

FreshWorker == [handshake_done |-> FALSE, client_id |-> 0, devices |-> <<>>, next_cid |-> 0, reasm |-> NoReasm,
                pending |-> [i \in 1 .. DevMaxPending |-> DevNil], jobs |-> [i \in 1 .. DevMaxJobs |-> DevNil]]
Announce == <<[p |-> "announce", id |-> dr_load.client_id]>>
FreshClient == [known |-> FALSE, listed |-> FALSE, todo |-> {}, open |-> {}, printed |-> {}, next_file |-> 1, plugs |-> 0, times |-> 0]

DevInit ==
    /\ dr_load \in DevLoads
    /\ dr_w = FreshWorker
    /\ dr_s = [ph |-> "run", drives |-> {}, told |-> {}, asked |-> {}, stray |-> FALSE, next |-> 0, lpadmin |-> dr_load.lpadmin,
               queues |-> [i \in 1 .. DevMaxQueues |-> DevNil], conns |-> [i \in 1 .. DevMaxConns |-> NoConn], backlog |-> <<>>]
    /\ dr_cl = FreshClient
    /\ dr_cups = [j \in JobIds |-> [ph |-> "idle", sent |-> 0, closed |-> FALSE, dropped |-> FALSE]]
    /\ dr_down = Announce
    /\ dr_up = <<>> /\ dr_to_s = <<>> /\ dr_to_w = <<>>

\* The client comes back: another worker on the same session and socket
Reconnects ==
    /\ dr_cl.times < dr_load.reconnects
    /\ dr_w' = FreshWorker /\ dr_down' = Announce /\ dr_up' = <<>>
    /\ dr_cl' = [FreshClient EXCEPT !.times = dr_cl.times + 1, !.printed = dr_cl.printed]
    /\ UNCHANGED <<dr_s, dr_cups, dr_to_s, dr_to_w, dr_load>>

DevWorkerStep == WorkerReadsClient \/ WorkerReadsSession
DevSessionStep == SessionReadsWorker \/ accept_conn \/ \E i \in 1 .. DevMaxConns : service_conn(i)
DevClientStep == ClientHears \/ ClientCompletes
DevBackendStep == \E j \in JobIds : BackendWrites(j)

DevNext ==
    \/ DevWorkerStep \/ DevSessionStep \/ DevClientStep \/ DevBackendStep
    \/ SessionAsks \/ ClientSendsLater \/ Reconnects \/ rdp_printer_close
    \/ \E j \in JobIds : BackendConnects(j) \/ BackendDies(j)

DevSpec == DevInit /\ [][DevNext]_<<dev_vars, dr_load>>

\* Both loops poll, the client answers what it is asked, a backend runs on.
DevFairness ==
    /\ WF_dev_vars(WorkerReadsClient) /\ WF_dev_vars(WorkerReadsSession) /\ WF_dev_vars(SessionReadsWorker)
    /\ WF_dev_vars(accept_conn) /\ \A i \in 1 .. DevMaxConns : WF_dev_vars(service_conn(i))
    /\ WF_dev_vars(ClientHears) /\ WF_dev_vars(ClientCompletes) /\ WF_dev_vars(DevBackendStep)

-----------------------------------------------------------------------------
(* Properties                                                               *)

\* Types, and the limits of the tables
DevTypeOK ==
    /\ Len(dr_w.devices) <= DevMaxDevices
    /\ dr_w.reasm.len <= dr_w.reasm.cap /\ dr_w.reasm.cap <= DevMaxPdu
    /\ \A i \in 1 .. DevMaxConns : dr_s.conns[i].job = DevNil => dr_s.conns[i] = NoConn
    /\ dr_s.asked \subseteq 1 .. dr_load.requests
    /\ dr_cl.plugs \in 0 .. Len(dr_load.later)

\* A print job in the table waits for exactly one request, of its own device,
\* so that its slot is given back: no chain of CREATE, WRITE and CLOSE is cut
\* without the job being freed (print_job_on_completion).
JobsWait ==
    \A j \in 1 .. DevMaxJobs : dr_w.jobs[j] # DevNil =>
        Cardinality({i \in 1 .. DevMaxPending : dr_w.pending[i] # DevNil /\ dr_w.pending[i].cid = dr_w.jobs[j].cid
                                                 /\ dr_w.pending[i].device = dr_w.jobs[j].device}) = 1

\* Every document a printer of the client has printed is the beginning of one
\* job's spool, whatever other jobs and drives did meanwhile, and the whole of
\* it (up to the limit) when CUPS saw the job succeed.
PrintsWhole ==
    \A doc \in dr_cl.printed : \E j \in JobIds :
        /\ IsPrefix(doc, SpoolOf(j))
        /\ doc # SpoolOf(j) => dr_cups[j].ph # "ok"

\* The session gets one answer to each of its requests and each answer is that
\* of the request it names, in whatever order the client completes them.
AnswersMatch == ~dr_s.stray

\* The session's queues are distinct, each of one printer it was told of by
\* that name; a device id stands for one printer or drive.
QueuesDistinct ==
    LET used == {i \in 1 .. DevMaxQueues : dr_s.queues[i] # DevNil}
    IN \A i, k \in used : i # k => dr_s.queues[i].name # dr_s.queues[k].name
                                    /\ dr_s.queues[i].device # dr_s.queues[k].device

\* A device id means the same thing to the session for the whole connection:
\* never two names, never both a printer and a drive (handle_device_list).
DevicesAgree ==
    /\ \A t \in dr_s.told : t.device \notin dr_s.drives
    /\ \A t, u \in dr_s.told : t.device = u.device => t.name = u.name

\* Print jobs are whole and leave no slot taken, beside each other and beside
\* drive requests on the same channel (print_job_on_completion, printer.c).
JobsRight == JobsWait /\ PrintsWhole

\* Worker, session and client mean the same device and the same request by a
\* number, and the session the same printer by a queue (rdpdr.c, printer.c).
DevicesRight == AnswersMatch /\ QueuesDistinct /\ DevicesAgree

\* A job for which the backend told CUPS that it succeeded is not lost in the
\* session: if there was no slot for its connection, "CUPS will retry the job"
\* (accept_conn).
AcceptedJobsKept == \A j \in JobIds : dr_cups[j].dropped => dr_cups[j].ph # "ok"

\* Every request of the session is answered, every print job leaves the table
\* and every connection of a backend ends, once no more come: whatever table
\* was full and whatever the client refused.
DevicesSettle ==
    <>[](/\ dr_s.asked = {} /\ dr_s.backlog = <<>>
         /\ \A j \in 1 .. DevMaxJobs : dr_w.jobs[j] = DevNil
         /\ \A i \in 1 .. DevMaxConns : dr_s.conns[i] = NoConn)
=============================================================================
