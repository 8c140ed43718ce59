----------------------------- MODULE FuseDrive -----------------------------
(***************************************************************************)
(* Drive redirection in the session: src/session/fuse_drive.c turns the    *)
(* kernel's file system requests into requests to the RDP client, several  *)
(* at a time, and answers each when the client's replies have come, in     *)
(* whatever order.  The nodes the kernel knows, the client handles opened  *)
(* for them, the table of requests in flight and the cached directory      *)
(* listings are its state.  The kernel and the client are external.        *)
(*                                                                         *)
(* A request in flight is named by its slot: the 32-bit req_id is drawn    *)
(* afresh for each, and a slot is freed only by the reply that carries its *)
(* req_id.  A client handle is opened and its reply handled in one step.   *)
(***************************************************************************)
EXTENDS Integers, FiniteSets

CONSTANTS
    Drives,       \* node ids of the announced drives' own directories
    NodeIds,      \* node ids of what is below them
    Names,        \* leaf names
    DirNames,     \* the names that are directories on the client
    Uniques,      \* ids of kernel requests that may be open at once
    Fids,         \* the client's handles
    Accesses,     \* open(2) access modes the kernel asks for
    NodeMax,      \* FD_MAX_NODES, the root not counted
    InflightMax,  \* FD_INFLIGHT_MAX
    DirCacheMax,  \* FD_DIRCACHE_SLOTS
    ListMax,      \* FD_DIR_MAX_ENTRIES
    Workloads,    \* what the kernel may do in one history, and its bounds:
                  \*   ops     the operations it asks for
                  \*   drives  the drives announced, names the names used
                  \*   refs    bound on the lookups and descriptors of a node
                  \*   ids     the node ids to draw from
                  \*   losses  bound on the times the worker is lost
    IndexOffsets, \* READDIR offsets are entry indexes (Linux, not OpenBSD)
    None

AllIds == Drives \cup NodeIds
FlightSlots == 1..InflightMax
DirSlots == 1..DirCacheMax

NodeRecords ==
    [parent  : AllIds \cup {None},
     name    : Names \cup {None},
     device  : Drives,
     is_dir  : BOOLEAN,
     file_id : Fids \cup {None},            \* None: no open handle
     access  : SUBSET {"read", "write", "delete"},
     refs    : Nat,                         \* open_refs
     nlookup : Nat]

OpenTags ==
    {"OPENFILE", "OPENDIR", "GETATTR", "CREATE", "MKNOD", "MKDIR"}

Flights ==
    [op      : OpenTags \cup {"UNLINK", "RENAME", "READ", "WRITE", "LIST",
                              "QUERY", "SETATTR", "CLOSE"},
     unique  : Uniques \cup {None},         \* fuse_unique, None for CLOSE
     node    : AllIds,
     phase   : {"NONE", "STD", "BASIC", "EOF_THEN_TIME", "OPEN", "SET"},
     file_id : Fids \cup {None},            \* the handle it is sent on
     access  : SUBSET {"read", "write", "delete"},   \* req_access
     lookup  : BOOLEAN,                     \* reply_op is LOOKUP
     is_dir  : BOOLEAN,                     \* acc.is_dir
     cache   : DirSlots \cup {0},
     target  : (AllIds \X Names) \cup {None}]

Listings == [node : AllIds, filling : BOOLEAN, count : 0..ListMax]

KernelRequests(ops) ==
    [op : ops, on : SUBSET AllIds, dirs : SUBSET AllIds, name : Names \cup {None}]

ASSUME FuseDriveAssumption ==
    /\ InflightMax \in Nat /\ NodeMax \in Nat /\ DirCacheMax \in Nat
    /\ ListMax \in Nat
    /\ \A w \in Workloads : /\ w.drives \subseteq Drives /\ w.names \subseteq Names
                            /\ w.refs \in Nat /\ w.ids \subseteq NodeIds /\ w.losses \in Nat
    /\ Drives \cap NodeIds = {}
    /\ DirNames \subseteq Names
    /\ Accesses \subseteq SUBSET {"read", "write"}
    /\ IndexOffsets \in BOOLEAN
    /\ IsFiniteSet(Uniques)

ASSUME DriveNoneAssumption ==
    /\ None \notin Drives \cup NodeIds \cup Names \cup Uniques \cup Fids
    /\ None \notin NodeRecords \cup Flights \cup Listings \cup AllIds \X Names
    /\ \A w \in Workloads : None \notin KernelRequests(w.ops)

VARIABLES
    nodes,      \* the node table, by node id
    inflight,   \* the requests in flight, by slot
    closes,     \* handles whose CLOSE was sent without a slot
    dircache,   \* the directory listings
    asked,      \* the kernel's open requests
    kref,       \* lookups of a node that the kernel counts
    kfds,       \* descriptors the kernel has open on a node
    workload,   \* the one of Workloads of this history
    stray,      \* a reply was written to no open request
    handles,    \* the client's open handles, and the node each is for
    lost,       \* slots whose reply died with a worker
    losses

coreVars == <<nodes, inflight, closes, dircache>>
kernelVars == <<asked, kref, kfds, stray>>
clientVars == <<handles, lost, losses>>
drive_vars == <<coreVars, kernelVars, clientVars>>

-----------------------------------------------------------------------------
(***************************************************************************)
(* The node table.                                                         *)
(***************************************************************************)

HaveNode(n) == nodes[n] # None

HaveOpen(n) == nodes[n].file_id # None

IsFile(n) == HaveNode(n) /\ ~nodes[n].is_dir

(***************************************************************************)
(* fd_child_find returns the first of these in the table; a rename onto    *)
(* an existing name leaves two until the kernel forgets the older.         *)
(***************************************************************************)
fd_child_find(p, x) ==
    {n \in NodeIds : HaveNode(n) /\ nodes[n].parent = p /\ nodes[n].name = x}

(***************************************************************************)
(* fd_node_path walks from a node to its drive.  It fails when an ancestor *)
(* has left the table: such a node has no path.                            *)
(***************************************************************************)
Rooted(N, n) ==
    \E A \in SUBSET AllIds :
        /\ n \in A
        /\ \A m \in A : N[m] # None /\ (m \notin Drives => N[m].parent \in A)

(***************************************************************************)
(* The 64-bit next_nodeid is never used twice: an id is fresh when nothing *)
(* refers to it.                                                           *)
(***************************************************************************)
Fresh(n) ==
    /\ n \in workload.ids /\ ~HaveNode(n) /\ kref[n] = 0 /\ kfds[n] = 0
    /\ \A i \in FlightSlots : inflight[i] # None =>
         /\ inflight[i].node # n
         /\ inflight[i].target # None => inflight[i].target[1] # n
    /\ \A m \in NodeIds : HaveNode(m) => nodes[m].parent # n
    /\ \A d \in DirSlots : dircache[d] # None => dircache[d].node # n
    /\ \A u \in Uniques : asked[u] # None => n \notin asked[u].on

NodeTableFull == Cardinality({n \in AllIds : HaveNode(n)}) >= NodeMax

NewNode(p, x, dev, dir) ==
    [parent |-> p, name |-> x, device |-> dev, is_dir |-> dir,
     file_id |-> None, access |-> {}, refs |-> 0, nlookup |-> 0]

(***************************************************************************)
(* fd_child_make: the node it finds or allocates, none when it returns     *)
(* NULL.                                                                   *)
(***************************************************************************)
fd_child_make(p, x) ==
    IF fd_child_find(p, x) # {} THEN fd_child_find(p, x)
    ELSE IF NodeTableFull THEN {}
    ELSE {CHOOSE n \in NodeIds : Fresh(n)}

CanMake(p, x) ==
    fd_child_find(p, x) # {} \/ NodeTableFull \/ \E n \in NodeIds : Fresh(n)

-----------------------------------------------------------------------------
(***************************************************************************)
(* The tables as a handler leaves them, and the senders that change them.  *)
(***************************************************************************)
DriveTables == [node |-> nodes, flight |-> inflight, close |-> closes]

Become(S) ==
    nodes' = S.node /\ inflight' = S.flight /\ closes' = S.close

SetNode(S, n, r) == [S EXCEPT !.node[n] = r]

AddLookup(S, n) == SetNode(S, n, [S.node[n] EXCEPT !.nlookup = @ + 1])

AddRef(S, n) == SetNode(S, n, [S.node[n] EXCEPT !.refs = @ + 1])

WithChild(n, p, x, dir) ==
    IF HaveNode(n) THEN DriveTables
    ELSE SetNode(DriveTables, n, NewNode(p, x, nodes[p].device, dir))

HasSlot(S) == \E i \in FlightSlots : S.flight[i] = None

(***************************************************************************)
(* fd_inflight_alloc takes the first free slot and clears it.              *)
(***************************************************************************)
fd_inflight_alloc(S, f) ==
    LET i == CHOOSE j \in FlightSlots :
               /\ S.flight[j] = None
               /\ \A k \in FlightSlots : S.flight[k] = None => j <= k
    IN  [S EXCEPT !.flight[i] = f]

Flight(op, u, n) ==
    [op |-> op, unique |-> u, node |-> n, phase |-> "NONE", file_id |-> None,
     access |-> {}, lookup |-> FALSE, is_dir |-> FALSE, cache |-> 0,
     target |-> None]

(***************************************************************************)
(* A request on the handle that the node holds.                            *)
(***************************************************************************)
OnHandle(S, op, u, n) ==
    [Flight(op, u, n) EXCEPT !.file_id = S.node[n].file_id]

CanOpen(S, n) == Rooted(S.node, n) /\ HasSlot(S)

fd_send_close_KeptHandle(S, n) ==
    IF S.node[n].file_id # None /\ HasSlot(S)
    THEN fd_inflight_alloc(S, OnHandle(S, "CLOSE", None, n)) ELSE S

fd_send_close(S, n) ==
    LET h == S.node[n].file_id
        T == IF HasSlot(S)
             THEN fd_inflight_alloc(S, OnHandle(S, "CLOSE", None, n))
             ELSE [S EXCEPT !.close = @ \cup {h}]
    IN  IF h = None THEN S
        ELSE SetNode(T, n, [S.node[n] EXCEPT !.file_id = None, !.access = {}])

fd_send_query(S, u, n, phase, lookup, dir) ==
    fd_inflight_alloc(S,
        [OnHandle(S, "QUERY", u, n) EXCEPT
            !.phase = phase, !.lookup = lookup, !.is_dir = dir])

-----------------------------------------------------------------------------
(***************************************************************************)
(* The kernel.  What a reply does to its counts, and when it asks.         *)
(***************************************************************************)
KernelGets(reply, n) ==
    /\ kref' = IF reply \in {"entry", "create"}
               THEN [kref EXCEPT ![n] = @ + 1] ELSE kref
    /\ kfds' = IF reply \in {"open", "create"}
               THEN [kfds EXCEPT ![n] = @ + 1] ELSE kfds

(***************************************************************************)
(* A handler that has sent a request and returned without a reply.         *)
(***************************************************************************)
Waits(u, r, S) ==
    /\ Become(S)
    /\ asked' = [asked EXCEPT ![u] = r]
    /\ UNCHANGED <<kref, kfds, stray>>

(***************************************************************************)
(* A handler that has replied at once.                                     *)
(***************************************************************************)
AtOnce(S, reply, n) ==
    /\ Become(S)
    /\ KernelGets(reply, n)
    /\ UNCHANGED <<asked, stray>>

(***************************************************************************)
(* A completion that has sent the next request of its chain.               *)
(***************************************************************************)
Chained(S) == Become(S) /\ UNCHANGED kernelVars

(***************************************************************************)
(* A completion that has written the reply to u.                           *)
(***************************************************************************)
Replied(u, S, reply, n) ==
    /\ Become(S)
    /\ KernelGets(reply, n)
    /\ asked' = [asked EXCEPT ![u] = None]
    /\ stray' = (stray \/ asked[u] = None)

Idle(u, op) == asked[u] = None /\ op \in workload.ops

Known(n) == kref[n] > 0 \/ (n \in Drives /\ HaveNode(n))

(***************************************************************************)
(* An open request: the nodes it pins, and for one that names an entry of  *)
(* a directory, the directories it locks and the name.                     *)
(***************************************************************************)
KernelRequest(op, on, dirs, name) ==
    [op |-> op, on |-> on, dirs |-> dirs, name |-> name]

(***************************************************************************)
(* The kernel locks a directory to change it, to read it and to look up a  *)
(* name it does not know; a name it knows is looked up again without.  A   *)
(* node leaves the table by FORGET, by UNLINK or by a LOOKUP that fails:   *)
(* each ends the name for the kernel too.                                  *)
(***************************************************************************)
KnownAs(p, x) == {n \in fd_child_find(p, x) : kref[n] > 0}

DirFree(p) == \A u \in Uniques : asked[u] # None => p \notin asked[u].dirs

IsDirectory(p) == Known(p) /\ (HaveNode(p) => nodes[p].is_dir)

Pinned(n) == \E u \in Uniques : asked[u] # None /\ n \in asked[u].on

(***************************************************************************)
(* A descriptor of n with no request under way.                            *)
(***************************************************************************)
FdIdle(n) ==
    Cardinality({u \in Uniques : /\ asked[u] # None
                                 /\ asked[u].op \in {"READ", "WRITE", "READDIR"}
                                 /\ n \in asked[u].on}) < kfds[n]

-----------------------------------------------------------------------------
(***************************************************************************)
(* The kernel's requests, one action each: the whole of the op handler.    *)
(***************************************************************************)

GetattrStarts(S, n) ==
    IF S.node[n].file_id = None THEN CanOpen(S, n) ELSE HasSlot(S)

(***************************************************************************)
(* Open the node unless it holds a handle; query it otherwise.             *)
(***************************************************************************)
fd_start_getattr(S, u, n, lookup) ==
    IF S.node[n].file_id = None
    THEN fd_inflight_alloc(S,
            [Flight("GETATTR", u, n) EXCEPT
                !.access = {"read"}, !.lookup = lookup,
                !.is_dir = S.node[n].is_dir])
    ELSE fd_send_query(S, u, n, "STD", lookup, S.node[n].is_dir)

fd_op_getattr(u, n) ==
    /\ Idle(u, "GETATTR") /\ Known(n)
    /\ IF HaveNode(n) /\ n \notin Drives /\ GetattrStarts(DriveTables, n)
       THEN Waits(u, KernelRequest("GETATTR", {n}, {}, None),
                  fd_start_getattr(DriveTables, u, n, FALSE))
       ELSE AtOnce(DriveTables, "attr", n)
    /\ UNCHANGED <<dircache, clientVars>>

(***************************************************************************)
(* The child counts the lookup before the client has confirmed it.         *)
(***************************************************************************)
fd_op_lookup(u, p, x) ==
    /\ Idle(u, "LOOKUP") /\ IsDirectory(p) /\ CanMake(p, x)
    /\ KnownAs(p, x) = {} => DirFree(p)
    /\ \A n \in fd_child_find(p, x) :
          nodes[n].nlookup < workload.refs /\ kref[n] < workload.refs
    /\ \/ /\ ~HaveNode(p) \/ fd_child_make(p, x) = {}
          /\ AtOnce(DriveTables, "error", p)
       \/ /\ HaveNode(p)
          /\ \E n \in fd_child_make(p, x) :
               LET made == WithChild(n, p, x, FALSE)
                   S == AddLookup(made, n)
                   r == KernelRequest("LOOKUP", {p} \cup KnownAs(p, x),
                                IF KnownAs(p, x) = {} THEN {p} ELSE {}, x)
               IN  IF GetattrStarts(S, n)
                   THEN Waits(u, r, fd_start_getattr(S, u, n, TRUE))
                   ELSE AtOnce(IF S.node[n].file_id = None
                               THEN made ELSE S, "entry", n)
    /\ UNCHANGED <<dircache, clientVars>>

fd_op_opendir(u, n) ==
    /\ Idle(u, "OPENDIR") /\ IsDirectory(n) /\ kfds[n] < workload.refs
    /\ \/ ~HaveNode(n) /\ AtOnce(DriveTables, "error", n)
       \/ /\ HaveNode(n) /\ HaveOpen(n)
          /\ AtOnce(AddRef(DriveTables, n), "open", n)
       \/ /\ HaveNode(n) /\ ~HaveOpen(n)
          /\ IF CanOpen(DriveTables, n)
             THEN Waits(u, KernelRequest("OPENDIR", {n}, {}, None),
                        fd_inflight_alloc(DriveTables, Flight("OPENDIR", u, n)))
             ELSE AtOnce(DriveTables, "error", n)
    /\ UNCHANGED <<dircache, clientVars>>

(***************************************************************************)
(* fd_dircache_claim: a free slot, or else the least recently used of the  *)
(* finished ones; which that is depends on stamps that are left out.       *)
(***************************************************************************)
fd_dircache_claim ==
    LET free == {d \in DirSlots : dircache[d] = None}
    IN  IF free # {} THEN {CHOOSE d \in free : \A e \in free : d <= e}
        ELSE {d \in DirSlots : ~dircache[d].filling}

Listed(n) ==
    \E d \in DirSlots : /\ dircache[d] # None
                        /\ ~dircache[d].filling
                        /\ dircache[d].node = n

fd_op_readdir(u, n, off) ==
    /\ Idle(u, "READDIR") /\ kfds[n] > 0 /\ IsDirectory(n) /\ DirFree(n)
    /\ IF /\ HaveNode(n) /\ HaveOpen(n)
          /\ off # 0 => IndexOffsets /\ ~Listed(n)
          /\ fd_dircache_claim # {}
       THEN \E d \in fd_dircache_claim :
               IF Rooted(nodes, n) /\ HasSlot(DriveTables)
               THEN /\ Waits(u, KernelRequest("READDIR", {n}, {n}, None),
                             fd_inflight_alloc(DriveTables,
                                [OnHandle(DriveTables, "LIST", u, n) EXCEPT
                                    !.cache = d]))
                    /\ dircache' = [dircache EXCEPT ![d] =
                          [node |-> n, filling |-> TRUE, count |-> 0]]
               ELSE /\ AtOnce(DriveTables, "error", n)
                    /\ dircache' = [dircache EXCEPT ![d] = None]
       ELSE AtOnce(DriveTables, "dirents", n) /\ UNCHANGED dircache
    /\ UNCHANGED clientVars

(***************************************************************************)
(* A handle with too little access is closed and the node opened again     *)
(* with the union; the descriptors that shared it keep their count.        *)
(***************************************************************************)
fd_op_open(u, n, want) ==
    /\ Idle(u, "OPEN") /\ Known(n) /\ n \notin Drives /\ kfds[n] < workload.refs
    /\ \/ ~IsFile(n) /\ AtOnce(DriveTables, "error", n)
       \/ /\ IsFile(n)
          /\ HaveOpen(n) /\ want \subseteq nodes[n].access
          /\ AtOnce(AddRef(DriveTables, n), "open", n)
       \/ /\ IsFile(n)
          /\ ~(HaveOpen(n) /\ want \subseteq nodes[n].access)
          /\ LET S == fd_send_close(DriveTables, n)
             IN  IF CanOpen(S, n)
                 THEN Waits(u, KernelRequest("OPEN", {n}, {}, None),
                            fd_inflight_alloc(S,
                              [Flight("OPENFILE", u, n) EXCEPT
                                 !.access = want \cup nodes[n].access]))
                 ELSE AtOnce(S, "error", n)
    /\ UNCHANGED <<dircache, clientVars>>

(***************************************************************************)
(* READ, and WRITE on a handle that may be written.                        *)
(***************************************************************************)
fd_op_transfer(u, n, op) ==
    /\ Idle(u, op) /\ kfds[n] > 0 /\ n \notin Drives
    /\ IF /\ IsFile(n) /\ HaveOpen(n)
          /\ op = "WRITE" => "write" \in nodes[n].access
          /\ HasSlot(DriveTables)
       THEN Waits(u, KernelRequest(op, {n}, {}, None),
                  fd_inflight_alloc(DriveTables, OnHandle(DriveTables, op, u, n)))
       ELSE AtOnce(DriveTables, "error", n)
    /\ UNCHANGED <<dircache, clientVars>>

(***************************************************************************)
(* what: a new size, new times, both, or neither.                          *)
(***************************************************************************)
fd_op_setattr(u, n, what) ==
    /\ Idle(u, "SETATTR") /\ Known(n)
    /\ IF ~HaveNode(n) \/ ~HaveOpen(n) \/ ~HasSlot(DriveTables)
       THEN AtOnce(DriveTables, "attr", n)
       ELSE Waits(u, KernelRequest("SETATTR", {n}, {}, None),
              IF what = "neither"
              THEN fd_start_getattr(DriveTables, u, n, FALSE)
              ELSE fd_inflight_alloc(DriveTables,
                     [OnHandle(DriveTables, "SETATTR", u, n) EXCEPT
                        !.phase = IF what = "both" THEN "EOF_THEN_TIME"
                                  ELSE "NONE",
                        !.is_dir = what # "size" /\ nodes[n].is_dir]))
    /\ UNCHANGED <<dircache, clientVars>>

(***************************************************************************)
(* CREATE, MKNOD and MKDIR: open a name the kernel does not know with      *)
(* FILE_CREATE.                                                            *)
(***************************************************************************)
fd_op_create(u, p, x, op, access) ==
    /\ Idle(u, op) /\ IsDirectory(p) /\ CanMake(p, x)
    /\ KnownAs(p, x) = {} /\ DirFree(p)
    /\ (op = "MKDIR") <=> (x \in DirNames)
    /\ \/ /\ ~HaveNode(p) \/ fd_child_make(p, x) = {}
          /\ AtOnce(DriveTables, "error", p)
       \/ /\ HaveNode(p)
          /\ \E n \in fd_child_make(p, x) :
               LET S == WithChild(n, p, x, op = "MKDIR")
               IN  IF CanOpen(S, n)
                   THEN Waits(u, KernelRequest(op, {p}, {p}, x),
                              fd_inflight_alloc(S,
                                [Flight(op, u, n) EXCEPT !.access = access]))
                   ELSE AtOnce(IF S.node[n].file_id = None
                               THEN SetNode(S, n, None)
                               ELSE S, "error", p)
    /\ UNCHANGED <<dircache, clientVars>>

(***************************************************************************)
(* UNLINK and RMDIR: close the handle at hand, open for DELETE.            *)
(***************************************************************************)
fd_op_unlink(u, p, x) ==
    /\ Idle(u, "UNLINK") /\ IsDirectory(p) /\ DirFree(p)
    /\ KnownAs(p, x) # {}
    /\ \/ ~HaveNode(p) /\ AtOnce(DriveTables, "error", p)
       \/ /\ HaveNode(p)
          /\ \E n \in fd_child_make(p, x) :
               LET S == fd_send_close(DriveTables, n)
               IN  IF CanOpen(S, n)
                   THEN Waits(u, KernelRequest("UNLINK", {p} \cup KnownAs(p, x),
                                         {p}, x),
                              fd_inflight_alloc(S,
                                [Flight("UNLINK", u, n) EXCEPT
                                   !.phase = "OPEN"]))
                   ELSE AtOnce(S, "error", p)
    /\ UNCHANGED <<dircache, clientVars>>

(***************************************************************************)
(* The kernel does not move a directory below itself.                      *)
(***************************************************************************)
BelowIt(q, n) ==
    \A A \in SUBSET AllIds :
        (q \in A /\ \A m \in A : HaveNode(m) /\ m \notin Drives
                                    => nodes[m].parent \in A)
            => n \in A

fd_op_rename(u, p, x, q, y) ==
    /\ Idle(u, "RENAME") /\ IsDirectory(p) /\ IsDirectory(q)
    /\ DirFree(p) /\ DirFree(q)
    /\ <<p, x>> # <<q, y>> /\ (x \in DirNames <=> y \in DirNames)
    /\ KnownAs(p, x) # {} /\ \A n \in KnownAs(p, x) : ~BelowIt(q, n)
    /\ IF /\ HaveNode(p) /\ HaveNode(q)
          /\ nodes[p].device = nodes[q].device
          /\ Rooted(nodes, q)
       THEN \E n \in fd_child_make(p, x) :
              LET S == fd_send_close(DriveTables, n)
              IN  \/ ~CanOpen(S, n) /\ AtOnce(S, "error", p)
                  \/ /\ CanOpen(S, n)
                     /\ Waits(u, KernelRequest("RENAME",
                                   {p, q} \cup KnownAs(p, x) \cup KnownAs(q, y),
                                   {p, q}, x),
                              fd_inflight_alloc(S,
                                [Flight("RENAME", u, n) EXCEPT
                                   !.phase = "OPEN", !.target = <<q, y>>]))
       ELSE AtOnce(DriveTables, "error", p)
    /\ UNCHANGED <<dircache, clientVars>>

(***************************************************************************)
(* RELEASE and RELEASEDIR: the last descriptor closes the handle and drops *)
(* the finished listings.                                                  *)
(***************************************************************************)
fd_op_release(n) ==
    /\ "RELEASE" \in workload.ops /\ FdIdle(n)
    /\ kfds' = [kfds EXCEPT ![n] = @ - 1]
    /\ LET left == IF nodes[n].refs > 0 THEN nodes[n].refs - 1 ELSE 0
           S == SetNode(DriveTables, n, [nodes[n] EXCEPT !.refs = left])
           drop == HaveNode(n) /\ left = 0
       IN  /\ Become(IF ~HaveNode(n) THEN DriveTables
                     ELSE IF drop THEN fd_send_close(S, n) ELSE S)
           /\ dircache' = [d \in DirSlots |->
                 IF /\ drop /\ dircache[d] # None
                    /\ ~dircache[d].filling /\ dircache[d].node = n
                 THEN None ELSE dircache[d]]
    /\ UNCHANGED <<asked, kref, stray, clientVars>>

fd_op_forget_Kept(n) ==
    /\ "FORGET" \in workload.ops
    /\ kref[n] > 0 /\ kfds[n] = 0 /\ ~Pinned(n)
    /\ kref' = [kref EXCEPT ![n] = 0]
    /\ Become(IF ~HaveNode(n) THEN DriveTables
              ELSE SetNode(DriveTables, n,
                      IF nodes[n].nlookup = kref[n] THEN None
                      ELSE [nodes[n] EXCEPT !.nlookup = @ - kref[n]]))
    /\ UNCHANGED <<asked, kfds, stray, dircache, clientVars>>

(***************************************************************************)
(* FORGET, with every lookup the kernel has counted: it forgets a node     *)
(* that has no descriptors, requests or known entries.                     *)
(***************************************************************************)
fd_op_forget(n) ==
    /\ "FORGET" \in workload.ops
    /\ kref[n] > 0 /\ kfds[n] = 0 /\ ~Pinned(n)
    /\ \A m \in NodeIds : HaveNode(m) /\ nodes[m].parent = n => kref[m] = 0
    /\ kref' = [kref EXCEPT ![n] = 0]
    /\ Become(
         IF ~HaveNode(n) THEN DriveTables
         ELSE IF kref[n] >= nodes[n].nlookup
         THEN SetNode(fd_send_close(DriveTables, n), n, None)
         ELSE SetNode(DriveTables, n, [nodes[n] EXCEPT !.nlookup = @ - kref[n]]))
    /\ UNCHANGED <<asked, kfds, stray, dircache, clientVars>>

-----------------------------------------------------------------------------
(***************************************************************************)
(* The client's replies.  fuse_drive_handle_fs_rsp frees the slot before   *)
(* the completion runs, so what the completion sends takes it again.       *)
(***************************************************************************)
RepliedTo(i, op) ==
    i \in FlightSlots \ lost /\ inflight[i] # None /\ inflight[i].op = op

Freed(i) == [DriveTables EXCEPT !.flight[i] = None]

(***************************************************************************)
(* The client grants a request on a handle only while the handle is open.  *)
(***************************************************************************)
Grants(i, ok) ==
    ok => inflight[i].file_id # None /\ handles[inflight[i].file_id] # None

NewHandle(h, n) ==
    handles[h] = None /\ handles' = [handles EXCEPT ![h] = n]

NowOpen(S, n, h, access) ==
    SetNode(S, n, [S.node[n] EXCEPT !.file_id = h, !.access = access])

OpenFailed_NotDropped(i) ==
    LET n == inflight[i].node
    IN  IF HaveNode(n) /\ inflight[i].lookup
        THEN SetNode(Freed(i), n, [nodes[n] EXCEPT !.nlookup = @ - 1])
        ELSE Freed(i)

(***************************************************************************)
(* The OPEN failed.  A LOOKUP takes its count back and drops the node it   *)
(* made; a create drops a node that nothing else uses.                     *)
(***************************************************************************)
OpenFailed(i) ==
    LET f == inflight[i]
        n == f.node
        left == IF nodes[n].nlookup > 0 THEN nodes[n].nlookup - 1 ELSE 0
        unused == ~HaveOpen(n) /\ nodes[n].nlookup = 0
    IN  IF ~HaveNode(n) \/ n \in Drives THEN Freed(i)
        ELSE IF f.op = "GETATTR" /\ f.lookup
        THEN IF left = 0 THEN SetNode(Freed(i), n, None)
             ELSE SetNode(Freed(i), n, [nodes[n] EXCEPT !.nlookup = left])
        ELSE IF f.op \in {"CREATE", "MKNOD", "MKDIR"} /\ unused
        THEN SetNode(Freed(i), n, None)
        ELSE Freed(i)

(***************************************************************************)
(* The OPEN succeeded with handle h.                                       *)
(***************************************************************************)
Opened(i, h) ==
    LET f == inflight[i]
        n == f.node
        S == NowOpen(Freed(i), n, h,
                     IF f.access = {} THEN {"read"} ELSE f.access)
        looked == AddLookup(S, n)
    IN  \/ /\ f.op = "GETATTR"
          /\ Chained(fd_send_query(S, f.unique, n, "STD", f.lookup, f.is_dir))
       \/ /\ f.op \in {"OPENFILE", "OPENDIR"}
          /\ Replied(f.unique, AddRef(S, n), "open", n)
       \/ /\ f.op = "CREATE"
          /\ Replied(f.unique, AddRef(looked, n), "create", n)
       \/ /\ f.op \in {"MKNOD", "MKDIR"}
          /\ Replied(f.unique,
                     fd_send_close(
                        SetNode(looked, n,
                           [looked.node[n] EXCEPT !.is_dir = @ \/ f.op = "MKDIR"]), n),
                     "entry", n)

fd_complete_open_NoReturn(i) ==
    /\ \E op \in OpenTags : RepliedTo(i, op)
    /\ LET f == inflight[i]
       IN  \E h \in Fids :
             /\ NewHandle(h, f.node)
             /\ LET S == NowOpen(Freed(i), f.node, h, f.access)
                IN  Replied(f.unique,
                            fd_send_query(S, f.unique, f.node, "STD", f.lookup,
                                          f.is_dir), "open", f.node)
    /\ UNCHANGED <<dircache, lost, losses>>

fd_complete_open(i) ==
    /\ \E op \in OpenTags : RepliedTo(i, op)
    /\ LET f == inflight[i]
       IN  \/ /\ Replied(f.unique, OpenFailed(i), "error", f.node)
              /\ UNCHANGED handles
           \/ \E h \in Fids :
                /\ NewHandle(h, f.node)
                /\ IF HaveNode(f.node) THEN Opened(i, h)
                   ELSE Replied(f.unique, Freed(i), "error", f.node)
    /\ UNCHANGED <<dircache, lost, losses>>

fd_complete_query(i, ok) ==
    /\ RepliedTo(i, "QUERY") /\ Grants(i, ok)
    /\ LET f == inflight[i]
           n == f.node
           dir == IF ok THEN nodes[n].name \in DirNames \/ n \in Drives
                  ELSE f.is_dir
           reply == IF f.lookup THEN "entry" ELSE "attr"
       IN  \/ ~HaveNode(n) /\ Replied(f.unique, Freed(i), "error", n)
           \/ /\ HaveNode(n) /\ f.phase = "STD" /\ HaveOpen(n)
              /\ Chained(fd_send_query(Freed(i), f.unique, n, "BASIC",
                                       f.lookup, dir))
           \/ /\ HaveNode(n) /\ f.phase = "STD" /\ ~HaveOpen(n)
              /\ Replied(f.unique, Freed(i), reply, n)
           \/ /\ HaveNode(n) /\ f.phase = "BASIC"
              /\ Replied(f.unique, SetNode(Freed(i), n, [nodes[n] EXCEPT !.is_dir = dir]),
                         reply, n)
    /\ UNCHANGED <<dircache, clientVars>>

fd_complete_set_info_Silent(i, ok) ==
    /\ RepliedTo(i, "SETATTR") /\ Grants(i, ok)
    /\ Chained(Freed(i))
    /\ UNCHANGED <<dircache, clientVars>>

(***************************************************************************)
(* A time set follows the size; the attributes are then queried afresh.    *)
(***************************************************************************)
fd_complete_set_info(i, ok) ==
    /\ RepliedTo(i, "SETATTR") /\ Grants(i, ok)
    /\ LET f == inflight[i]
           n == f.node
       IN  IF HaveNode(n) /\ ok /\ HaveOpen(n)
           THEN Chained(
                  IF f.phase = "EOF_THEN_TIME"
                  THEN fd_inflight_alloc(Freed(i),
                         [OnHandle(DriveTables, "SETATTR", f.unique, n) EXCEPT
                            !.is_dir = f.is_dir])
                  ELSE fd_send_query(Freed(i), f.unique, n, "STD", FALSE,
                                     f.is_dir))
           ELSE Replied(f.unique, Freed(i), "attr", n)
    /\ UNCHANGED <<dircache, clientVars>>

fd_complete_transfer(i, ok) ==
    /\ RepliedTo(i, "READ") \/ RepliedTo(i, "WRITE")
    /\ Grants(i, ok)
    /\ Replied(inflight[i].unique, Freed(i), "data", inflight[i].node)
    /\ UNCHANGED <<dircache, clientVars>>

(***************************************************************************)
(* The OPEN and the SET_INFO of a delete or a rename: the first is         *)
(* answered with a handle, the second with the handle's CLOSE and the one  *)
(* reply.  fd_drop_node frees the node of a deleted file at once.          *)
(***************************************************************************)
HandleOpened(i, h, access) ==
    LET f == inflight[i]
        S == NowOpen(Freed(i), f.node, h, access)
    IN  fd_inflight_alloc(S,
          [OnHandle(S, f.op, f.unique, f.node) EXCEPT
             !.phase = "SET", !.target = f.target])

DeleteOrRenameOpened(i, access) ==
    LET f == inflight[i]
    IN  /\ f.phase = "OPEN"
        /\ \/ /\ Replied(f.unique, Freed(i), "error", f.node)
              /\ UNCHANGED handles
           \/ \E h \in Fids :
                /\ NewHandle(h, f.node)
                /\ IF HaveNode(f.node) THEN Chained(HandleOpened(i, h, access))
                   ELSE Replied(f.unique, Freed(i), "error", f.node)

fd_complete_unlink(i, ok) ==
    /\ RepliedTo(i, "UNLINK")
    /\ LET f == inflight[i]
           n == f.node
           S == fd_send_close(Freed(i), n)
       IN  \/ DeleteOrRenameOpened(i, {"delete"})
           \/ /\ f.phase = "SET" /\ Grants(i, ok)
              /\ Replied(f.unique,
                         IF ~HaveNode(n) THEN Freed(i)
                         ELSE IF ok THEN SetNode(S, n, None)
                         ELSE S, "done", n)
              /\ UNCHANGED handles
    /\ UNCHANGED <<dircache, lost, losses>>

fd_complete_rename(i, ok) ==
    /\ RepliedTo(i, "RENAME")
    /\ LET f == inflight[i]
           n == f.node
           S == fd_send_close(Freed(i), n)
       IN  \/ DeleteOrRenameOpened(i, {"delete", "write"})
           \/ /\ f.phase = "SET" /\ Grants(i, ok)
              /\ Replied(f.unique,
                         IF ~HaveNode(n) THEN Freed(i)
                         ELSE IF ok
                         THEN SetNode(S, n, [S.node[n] EXCEPT !.parent = f.target[1],
                                                             !.name = f.target[2]])
                         ELSE S, "done", n)
              /\ UNCHANGED handles
    /\ UNCHANGED <<dircache, lost, losses>>

fd_complete_list_NotReleased(i, status) ==
    /\ RepliedTo(i, "LIST") /\ Grants(i, status = "more")
    /\ Replied(inflight[i].unique, Freed(i), "dirents", inflight[i].node)
    /\ dircache' = [dircache EXCEPT ![inflight[i].cache].filling =
                       status = "error"]
    /\ UNCHANGED clientVars

(***************************************************************************)
(* A listing that has ended is kept, unless it failed with no entry.       *)
(***************************************************************************)
ListEnds(listing, status, more) ==
    IF status = "error" /\ listing.count = 0 THEN None
    ELSE [listing EXCEPT !.filling = FALSE, !.count = IF more THEN @ + 1 ELSE @]

(***************************************************************************)
(* A LIST reply: one more entry, no more of them, or another error.  The   *)
(* listing goes on until it is full or the directory has lost its path.    *)
(***************************************************************************)
fd_complete_list(i, status) ==
    /\ RepliedTo(i, "LIST") /\ Grants(i, status = "more")
    /\ LET f == inflight[i]
           n == f.node
           d == f.cache
           more == status = "more" /\ dircache[d].count < ListMax
       IN  \/ /\ ~HaveNode(n)
              /\ Replied(f.unique, Freed(i), "error", n)
              /\ dircache' = [dircache EXCEPT ![d] = None]
           \/ /\ HaveNode(n) /\ more /\ Rooted(nodes, n)
              /\ dircache' = [dircache EXCEPT ![d].count = @ + 1]
              /\ Chained(fd_inflight_alloc(Freed(i),
                    [OnHandle(DriveTables, "LIST", f.unique, n) EXCEPT
                       !.cache = d]))
           \/ /\ HaveNode(n) /\ ~(more /\ Rooted(nodes, n))
              /\ Replied(f.unique, Freed(i), "dirents", n)
              /\ dircache' = [dircache EXCEPT ![d] = ListEnds(@, status, more)]
    /\ UNCHANGED clientVars

(***************************************************************************)
(* The reply to a CLOSE: its slot is freed and nothing else happens.       *)
(***************************************************************************)
ClosedReply(i) ==
    /\ RepliedTo(i, "CLOSE")
    /\ Chained(Freed(i))
    /\ handles' = [handles EXCEPT ![inflight[i].file_id] = None]
    /\ UNCHANGED <<dircache, lost, losses>>

-----------------------------------------------------------------------------
(***************************************************************************)
(* The client carries out a CLOSE that has no slot.                        *)
(***************************************************************************)
ClosedUnseen(h) ==
    /\ h \in closes
    /\ closes' = closes \ {h}
    /\ handles' = [handles EXCEPT ![h] = None]
    /\ UNCHANGED <<nodes, inflight, dircache, kernelVars, lost, losses>>

(***************************************************************************)
(* A drive is announced, if the table has room; announcing it again        *)
(* changes nothing.                                                        *)
(***************************************************************************)
fuse_drive_add_device(d) ==
    /\ ~HaveNode(d) /\ ~NodeTableFull
    /\ nodes' = [nodes EXCEPT ![d] = NewNode(None, None, d, TRUE)]
    /\ UNCHANGED <<inflight, closes, dircache, kernelVars, clientVars>>

(***************************************************************************)
(* The worker goes, and its client with it; another takes over later.      *)
(* Replies under way are lost, and the handles with them.                  *)
(***************************************************************************)
DriveWorkerLost ==
    /\ losses < workload.losses
    /\ losses' = losses + 1
    /\ lost' = {i \in FlightSlots : inflight[i] # None}
    /\ handles' = [h \in Fids |-> None]
    /\ closes' = {}
    /\ UNCHANGED <<nodes, inflight, dircache, kernelVars>>

-----------------------------------------------------------------------------

DriveInit ==
    /\ nodes = [n \in AllIds |-> None]
    /\ inflight = [i \in FlightSlots |-> None]
    /\ closes = {}
    /\ dircache = [d \in DirSlots |-> None]
    /\ asked = [u \in Uniques |-> None]
    /\ kref = [n \in AllIds |-> 0]
    /\ kfds = [n \in AllIds |-> 0]
    /\ workload \in Workloads
    /\ stray = FALSE
    /\ handles = [h \in Fids |-> None]
    /\ lost = {}
    /\ losses = 0

KernelAsks(u) ==
    \E n \in AllIds :
        \/ fd_op_getattr(u, n)
        \/ fd_op_opendir(u, n)
        \/ \E off \in {0, 1} : fd_op_readdir(u, n, off)
        \/ \E want \in Accesses : fd_op_open(u, n, want)
        \/ \E op \in {"READ", "WRITE"} : fd_op_transfer(u, n, op)
        \/ \E what \in {"size", "time", "both", "neither"} :
              fd_op_setattr(u, n, what)
        \/ \E x \in workload.names :
              \/ fd_op_lookup(u, n, x)
              \/ \E want \in Accesses :
                   fd_op_create(u, n, x, "CREATE", want \cup {"write"})
              \/ fd_op_create(u, n, x, "MKNOD", {"read", "write"})
              \/ fd_op_create(u, n, x, "MKDIR", {"read"})
              \/ fd_op_unlink(u, n, x)
              \/ \E q \in AllIds, y \in workload.names : fd_op_rename(u, n, x, q, y)

(***************************************************************************)
(* fuse_drive_handle_fs_rsp: the reply to the request in slot i.           *)
(***************************************************************************)
fuse_drive_handle_fs_rsp(i) ==
    \/ fd_complete_open(i)
    \/ ClosedReply(i)
    \/ \E ok \in BOOLEAN :
          \/ fd_complete_query(i, ok)
          \/ fd_complete_set_info(i, ok)
          \/ fd_complete_transfer(i, ok)
          \/ fd_complete_unlink(i, ok)
          \/ fd_complete_rename(i, ok)
    \/ \E status \in {"more", "end", "error"} : fd_complete_list(i, status)

DriveNext ==
    /\ UNCHANGED workload
    /\ \/ \E u \in Uniques : KernelAsks(u)
       \/ \E n \in AllIds : fd_op_release(n) \/ fd_op_forget(n)
       \/ \E i \in FlightSlots : fuse_drive_handle_fs_rsp(i)
       \/ \E h \in Fids : ClosedUnseen(h)
       \/ \E d \in workload.drives : fuse_drive_add_device(d)
       \/ DriveWorkerLost

DriveSpec == DriveInit /\ [][DriveNext]_<<drive_vars, workload>>

(***************************************************************************)
(* The client answers every request that reaches it.                       *)
(***************************************************************************)
DriveFairness == \A i \in FlightSlots : WF_drive_vars(fuse_drive_handle_fs_rsp(i))

DriveFairSpec == DriveSpec /\ DriveFairness

-----------------------------------------------------------------------------

\* Types of the node table, the requests in flight, the listings and the kernel's
\* and client's counts.
DriveTypeOK ==
    /\ nodes \in [AllIds -> NodeRecords \cup {None}]
    /\ inflight \in [FlightSlots -> Flights \cup {None}]
    /\ closes \subseteq Fids
    /\ dircache \in [DirSlots -> Listings \cup {None}]
    /\ asked \in [Uniques -> KernelRequests(workload.ops) \cup {None}]
    /\ kref \in [AllIds -> Nat]
    /\ kfds \in [AllIds -> Nat]
    /\ stray \in BOOLEAN
    /\ handles \in [Fids -> AllIds \cup {None}]
    /\ lost \subseteq FlightSlots
    /\ losses \in 0..workload.losses

Serves(i, u) == inflight[i] # None /\ inflight[i].unique = u

(***************************************************************************)
(* Every kernel request is answered exactly once: one that is open has one *)
(* request in flight that will answer it, whatever chain it is on, and     *)
(* nothing in flight answers one that is not open.                         *)
(***************************************************************************)
OneReply ==
    /\ ~stray
    /\ \A u \in Uniques :
         IF asked[u] = None THEN \A i \in FlightSlots : ~Serves(i, u)
         ELSE \E i \in FlightSlots :
                Serves(i, u) /\ \A j \in FlightSlots : Serves(j, u) => j = i

Closing(h) ==
    \/ h \in closes
    \/ \E i \in FlightSlots : /\ inflight[i] # None
                         /\ inflight[i].op = "CLOSE"
                         /\ inflight[i].file_id = h

(***************************************************************************)
(* The handle a node holds is open on the client, was opened for that      *)
(* node, and has no CLOSE on its way to it: no read or write of one file   *)
(* can reach another.  (Until a worker is lost; see the README.)           *)
(***************************************************************************)
HandleIsOwn ==
    losses = 0 =>
        \A n \in AllIds : HaveNode(n) /\ HaveOpen(n) =>
            handles[nodes[n].file_id] = n /\ ~Closing(nodes[n].file_id)

Lists(i, d) ==
    inflight[i] # None /\ inflight[i].op = "LIST" /\ inflight[i].cache = d

(***************************************************************************)
(* A listing that is being built has its LIST in flight, and no other      *)
(* READDIR fills it: a slot of the cache is never taken for good.          *)
(***************************************************************************)
ListingsProgress ==
    /\ \A d \in DirSlots : dircache[d] # None /\ dircache[d].filling =>
         \E i \in FlightSlots :
            /\ Lists(i, d) /\ inflight[i].node = dircache[d].node
            /\ \A j \in FlightSlots : Lists(j, d) => j = i
    /\ \A i \in FlightSlots, d \in DirSlots :
         Lists(i, d) => dircache[d] # None /\ dircache[d].filling

(***************************************************************************)
(* A node is in the table because the kernel knows it or a request is      *)
(* under way for it: the table does not fill with forgotten files.         *)
(***************************************************************************)
NodesAreKnown ==
    \A n \in NodeIds : HaveNode(n) =>
        \/ kref[n] > 0
        \/ \E i \in FlightSlots : /\ inflight[i] # None
                             /\ inflight[i].unique # None
                             /\ inflight[i].node = n

\* The tables of nodes and listings empty themselves: what fuse_drive.c keeps is
\* known to the kernel or waits for an answer of the client.
TablesDrain == NodesAreKnown /\ ListingsProgress

(***************************************************************************)
(* fuse_drive.c: every chain "still replies so the kernel is never left    *)
(* waiting".  While the client answers what reaches it, a kernel request   *)
(* is answered.                                                            *)
(***************************************************************************)
AllAnswered == \A u \in Uniques : asked[u] # None ~> asked[u] = None

-----------------------------------------------------------------------------
(***************************************************************************)
(* What the comments say and the code does not do.                         *)
(***************************************************************************)

(***************************************************************************)
(* fuse_drive.c: "reusing it avoids a second OPEN that would leak the      *)
(* prior client handle".  Every handle open on the client is held by a     *)
(* node, or its CLOSE was sent.                                            *)
(***************************************************************************)
NoHandleLeaks ==
    \A h \in Fids : handles[h] # None =>
        Closing(h) \/ \E n \in AllIds : HaveNode(n) /\ nodes[n].file_id = h

=============================================================================
