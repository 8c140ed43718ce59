----------------------------- MODULE CommProofs -----------------------------
(***************************************************************************)
(* The facts on connections, tables and descriptors that the proofs about  *)
(* workers and session manager share, for any number of workers,           *)
(* connections, sessions, users, logon ids and slots.                      *)
(***************************************************************************)
EXTENDS RdpServerInv, AuthThrottleProofs

(***************************************************************************)
(* Most leaves are first-order: Zenon is tried first, then SMT.            *)
(***************************************************************************)
USE ZenonT(5), SMTT(90)

-----------------------------------------------------------------------------
(***************************************************************************)
(* The requests and what close() and reply() do to a connection.           *)
(***************************************************************************)

(***************************************************************************)
(* The four requests have their types.                                     *)
(***************************************************************************)
LEMMA RequestTypes ==
    /\ \A u \in Users : AuthReq(u) \in Requests
    /\ SpawnReq \in Requests
    /\ \A i \in LogonIds \cup {None}, a \in ArcRandom, s \in Sessions \cup {None} :
         SuspendReq(i, a, s) \in Requests
    /\ \A i \in LogonIds, a \in ArcRandom : ResumeReq(i, a) \in Requests
  BY DEF AuthReq, SpawnReq, SuspendReq, ResumeReq, Requests, Ops, ArcRandom

(***************************************************************************)
(* close() of the worker's end leaves a well-formed connection that        *)
(* carries no reply.                                                       *)
(***************************************************************************)
LEMMA ClosedByWorkerShape ==
    ASSUME NEW k \in ConnStates, ConnShape(k), k.up
    PROVE  LET z == ClosedByWorker(k) IN
           /\ z \in ConnStates /\ ConnShape(z)
           /\ ~z.up /\ z.rsp = None /\ z.req = k.req
           /\ \/ z = FreeConn /\ k.srv = "closed"
              \/ z.srv = k.srv /\ z.owner = k.owner /\ k.srv # "closed"
  BY DEF ClosedByWorker, ConnStates, ConnShape, FreeConn

(***************************************************************************)
(* close() of the manager's end leaves a well-formed connection that       *)
(* carries no request.                                                     *)
(***************************************************************************)
LEMMA ClosedByManagerShape ==
    ASSUME NEW k \in ConnStates, ConnShape(k), k.srv = "serving"
    PROVE  LET z == ClosedByManager(k) IN
           /\ z \in ConnStates /\ ConnShape(z)
           /\ z.up = k.up /\ z.req = None /\ z.rsp = k.rsp
           /\ z.srv \in {"free", "closed"}
           /\ z.up => z.owner = k.owner
  BY DEF ClosedByManager, ConnStates, ConnShape, FreeConn

(***************************************************************************)
(* reply() takes the request off a connection and leaves the answer only   *)
(* where somebody can read it.                                             *)
(***************************************************************************)
LEMMA RepliedShape ==
    ASSUME NEW k \in ConnStates, ConnShape(k), k.srv = "serving", NEW m \in Replies
    PROVE  LET z == Replied(k, m) IN
           /\ z \in ConnStates /\ ConnShape(z)
           /\ z.up = k.up /\ z.req = None /\ z.srv = k.srv /\ z.owner = k.owner
           /\ z.rsp = IF k.up THEN m ELSE None
  BY DEF Replied, ConnStates, ConnShape, FreeConn

-----------------------------------------------------------------------------
(***************************************************************************)
(* The tables of the manager.                                              *)
(***************************************************************************)

(***************************************************************************)
(* sweep_expired only empties slots.                                       *)
(***************************************************************************)
LEMMA SweptShape ==
    ASSUME suspended \in [Slots -> SlotStates]
    PROVE  /\ Swept \in [Slots -> SlotStates]
           /\ \A i \in Slots : Swept[i] = suspended[i] \/ Swept[i] = NoSlot
           /\ \A i \in Slots :
                Swept[i].in_use => suspended[i].in_use /\ Swept[i] = suspended[i]
<1>1. NoSlot \in SlotStates /\ ~NoSlot.in_use
  BY DEF NoSlot, SlotStates, ArcRandom
<1> QED
  BY <1>1 DEF Swept

(***************************************************************************)
(* A descriptor is stored in a slot that was free after the sweep, or not  *)
(* at all.                                                                 *)
(***************************************************************************)
NewSlot(id, s, a) ==
    [in_use |-> TRUE, logon_id |-> id, be_fd |-> s,
     suspended_at |-> now, arc_random |-> a]

(***************************************************************************)
(* Storing a descriptor changes the swept table in one free slot, or not   *)
(* at all.                                                                 *)
(***************************************************************************)
LEMMA StoredShape ==
    ASSUME suspended \in [Slots -> SlotStates], now \in Nat,
           NEW id \in LogonIds \cup {None}, NEW s \in Sessions \cup {None},
           NEW a \in ArcRandom
    PROVE  /\ Stored(id, s, a) \in [Slots -> SlotStates]
           /\ \/ Stored(id, s, a) = Swept
              \/ \E i \in Slots :
                   /\ ~Swept[i].in_use
                   /\ Stored(id, s, a) = [Swept EXCEPT ![i] = NewSlot(id, s, a)]
<1>1. FreeSlots(Swept) \subseteq Slots /\ Slots \subseteq Nat
  BY SMTT(60) DEF FreeSlots, Slots
<1>2. NewSlot(id, s, a) \in SlotStates
  BY DEF NewSlot, SlotStates
<1>3. CASE FreeSlots(Swept) = {}
  BY <1>3, SweptShape DEF Stored
<1>4. CASE FreeSlots(Swept) # {}
  <2>1. PICK i \in Slots : i = First(FreeSlots(Swept)) /\ ~Swept[i].in_use
    BY <1>1, <1>4, FirstInSet DEF FreeSlots
  <2>2. Stored(id, s, a) = [Swept EXCEPT ![i] = NewSlot(id, s, a)]
    BY <1>4, <2>1 DEF Stored, NewSlot
  <2> QED
    BY <1>2, <2>1, <2>2, SweptShape
<1> QED
  BY <1>3, <1>4

-----------------------------------------------------------------------------
(***************************************************************************)
(* What CommInv says where the manager and a worker stand.                 *)
(***************************************************************************)

(***************************************************************************)
(* Every reply the manager can send suits the request it answers.          *)
(***************************************************************************)
LEMMA ReplyShapes ==
    /\ Refusal \in Replies
    /\ \A op \in Ops : ReplyShape(Refusal, AsksAt(op))
    /\ Success(None) \in Replies
    /\ \A op \in {"AUTH", "SUSPEND"} : ReplyShape(Success(None), AsksAt(op))
    /\ \A s \in Sessions :
         /\ Success(s) \in Replies
         /\ \A op \in {"SPAWN", "RESUME"} : ReplyShape(Success(s), AsksAt(op))
<1>1. None \notin Sessions
  BY NoneAssumption
<1> QED
  BY <1>1 DEF Refusal, Success, Replies, ReplyShape, Ops, AsksAt, Connected

(***************************************************************************)
(* What holds when a request has been received.                            *)
(***************************************************************************)
LEMMA ReceivedFacts ==
    ASSUME CommInv, NEW op, Received(op)
    PROVE  /\ cur \in Conns /\ cur # None /\ pc = "poll" /\ born = None
           /\ conn[cur].req \in Requests /\ conn[cur].req # None
           /\ conn[cur].req.op = op /\ RequestShape(conn[cur].req)
           /\ conn[cur].owner \in Workers
<1>1. pc = "poll" /\ conn[cur].req # None /\ conn[cur].req.op = op
  BY DEF Received
<1>2. cur # None /\ cur \in Conns /\ born = None /\ conn[cur].srv = "serving"
  BY <1>1 DEF CommInv, Serving, TypeOK, MgrTypeOK
<1>3. conn[cur] \in ConnStates /\ ConnShape(conn[cur])
  BY <1>2 DEF CommInv, TypeOK, ProtoTypeOK, Links
<1> QED
  BY <1>1, <1>2, <1>3 DEF CommInv, Dialogue, ConnShape, ConnStates

(***************************************************************************)
(* What holds while the manager works on a request.                        *)
(***************************************************************************)
LEMMA WorkingFacts ==
    ASSUME CommInv, NEW op, Working(op)
    PROVE  /\ cur \in Conns
           /\ conn[cur].req \in Requests /\ conn[cur].req # None
           /\ conn[cur].req.op = op /\ RequestShape(conn[cur].req)
           /\ conn[cur].owner \in Workers
<1>1. cur # None /\ conn[cur].req # None /\ conn[cur].req.op = op
  BY DEF Working
<1>2. cur \in Conns /\ conn[cur].srv = "serving"
  BY <1>1 DEF CommInv, Serving, TypeOK, MgrTypeOK
<1>3. conn[cur] \in ConnStates /\ ConnShape(conn[cur])
  BY <1>2 DEF CommInv, TypeOK, ProtoTypeOK, Links
<1> QED
  BY <1>1, <1>2, <1>3 DEF CommInv, Dialogue, ConnShape, ConnStates

(***************************************************************************)
(* What handle_resume takes out of the table.                              *)
(***************************************************************************)
LEMMA TakenSlot ==
    ASSUME CommInv, ResumeTake
    PROVE  \E i \in Slots :
             /\ Swept[i].in_use /\ Swept[i] = suspended[i] /\ suspended[i].in_use
             /\ suspended[i].be_fd \in Sessions
             /\ suspended[i].arc_random = conn[cur].req.arc
             /\ born' = suspended[i].be_fd
             /\ suspended' = [Swept EXCEPT ![i] = NoSlot]
<1>0. PICK found : found = Candidates(Swept, conn[cur].req.id)
  OBVIOUS
<1>1. found \subseteq Nat /\ \A i \in found : i \in Slots /\ Swept[i].in_use
  BY SMTT(60), <1>0 DEF Candidates, Slots
<1>2. /\ found # {}
      /\ Verified(Swept[First(found)], conn[cur].req)
      /\ born' = Swept[First(found)].be_fd
      /\ suspended' = Freed(Swept, First(found))
  BY <1>0 DEF ResumeTake
<1>3. First(found) \in found
  <2>1. found \subseteq Nat
    BY <1>1
  <2>2. found # {}
    BY <1>2
  <2> QED
    BY <2>1, <2>2, FirstInSet, Zenon
<1>4. PICK i \in Slots : i = First(found) /\ Swept[i].in_use
  BY <1>1, <1>3
<1>5. suspended \in [Slots -> SlotStates]
  BY DEF CommInv, TypeOK, MgrTypeOK
<1>6. Swept[i] = suspended[i] /\ suspended[i].in_use
  BY <1>4, <1>5, SweptShape
<1>7. suspended[i].be_fd \in Sessions
  BY <1>5, <1>6 DEF CommInv, Holding, SlotStates
<1>8. born' = suspended[i].be_fd /\ suspended[i].arc_random = conn[cur].req.arc
  BY <1>2, <1>4, <1>6 DEF Verified
<1>9. suspended' = [Swept EXCEPT ![i] = NoSlot]
  BY <1>2, <1>4 DEF Freed
<1>10. /\ Swept[i].in_use /\ Swept[i] = suspended[i] /\ suspended[i].in_use
       /\ suspended[i].be_fd \in Sessions
       /\ suspended[i].arc_random = conn[cur].req.arc
       /\ born' = suspended[i].be_fd
       /\ suspended' = [Swept EXCEPT ![i] = NoSlot]
  BY <1>4, <1>6, <1>7, <1>8, <1>9
<1> QED
  BY <1>10, Zenon

(***************************************************************************)
(* The worker's variables other than its place, connection and descriptor. *)
(***************************************************************************)
LoginVarsTyped ==
    /\ mode \in [Workers -> {"none", "resume", "nla", "auto", "greeter"}]
    /\ wuser \in [Workers -> Users \cup {None}]
    /\ presented \in [Workers -> ArcRandom]
    /\ logon_id \in [Workers -> LogonIds \cup {None}]
    /\ issued_for \in [Workers -> Sessions \cup {None}]

(***************************************************************************)
(* What CommInv says about one worker.                                     *)
(***************************************************************************)
LEMMA WorkerFacts ==
    ASSUME CommInv
    PROVE  /\ conn \in [Conns -> ConnStates] /\ backlog \in Seq(Conns)
           /\ wpc \in [Workers -> Places]
           /\ wconn \in [Workers -> Conns \cup {None}]
           /\ be_fd \in [Workers -> Sessions \cup {None}]
           /\ LoginVarsTyped
           /\ \A w \in Workers : wconn[w] # None <=> wpc[w] \in Connected
           /\ \A w \in Workers : be_fd[w] # None <=> wpc[w] \in {"proxy", "suspend"}
  BY DEF CommInv, TypeOK, ProtoTypeOK, WorkerTypeOK, LoginVarsTyped, Links, Holding

(***************************************************************************)
(* What a worker's step leaves alone of the manager's main flow.           *)
(***************************************************************************)
LEMMA MgrQuiet ==
    ASSUME UNCHANGED mgrVars
    PROVE  UNCHANGED <<pc, cur, born>>
  BY DEF mgrVars, clientVars

(***************************************************************************)
(* The reply that carries a session.                                       *)
(***************************************************************************)
LEMMA GrantedSession ==
    ASSUME CommInv, NEW w \in Workers, wpc[w] \in {"resume", "spawn"}, Granted(w)
    PROVE  /\ wconn[w] \in Conns
           /\ conn[wconn[w]].rsp # None /\ conn[wconn[w]].owner = w
           /\ Reply(w) = conn[wconn[w]].rsp
           /\ Reply(w).fd \in Sessions /\ Reply(w).fd # None
<1>1. PICK c \in Conns : c = wconn[w]
  BY WorkerFacts DEF Connected
<1>2. conn[c].owner = w /\ conn[c] \in ConnStates
  BY SMTT(60), <1>1, WorkerFacts, NoneAssumption DEF CommInv, Links
<1>3. conn[c].rsp # None /\ conn[c].rsp.ok /\ conn[c].rsp \in Replies
  BY <1>1, <1>2 DEF Granted, Reply, ConnStates
<1>4. conn[c].rsp.fd # None
  BY <1>2, <1>3 DEF CommInv, Dialogue, ReplyShape
<1> QED
  BY <1>1, <1>2, <1>3, <1>4 DEF Reply, Replies

(***************************************************************************)
(* Membership in Holders, before and after a step.                         *)
(***************************************************************************)
LEMMA HoldersAre ==
    ASSUME NEW s \in Sessions, NEW x
    PROVE  x \in Holders(s) <=>
             \/ \E w \in Workers : x = <<"proxy", w>> /\ Proxy(s, w)
             \/ \E c \in Conns : x = <<"message", c>> /\ Carries(c, s)
             \/ \E i \in Slots : x = <<"slot", i>> /\ Slot(s, i)
             \/ x = <<"handler", None>> /\ born = s
             \/ x = <<"unanswered", None>> /\ retained_fd = s /\ ~spawn_done
             \/ x = <<"unborn", None>> /\ monitor[s] = "unborn"
  BY DEF Holders, Proxy, Slot
=============================================================================
