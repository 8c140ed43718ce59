--------------------------- MODULE HandoverProofs ---------------------------
(***************************************************************************)
(* A session's backend descriptor is in one hand at a time: the places     *)
(* that can hand a session on pass it to each other and never copy it,     *)
(* although descriptors travel in messages that may be lost, workers die   *)
(* with a descriptor in hand and the manager keeps duplicates. And they    *)
(* pass it on as SessionOwner says.                                        *)
(***************************************************************************)
EXTENDS CommProofs

(***************************************************************************)
(* Most leaves are first-order: Zenon is tried first, then SMT.            *)
(***************************************************************************)
USE ZenonT(5), SMTT(90)

(***************************************************************************)
(* What a step may do to the holders, kind by kind: no session gets a new  *)
(* one, except that session t may get b.  With t = None nobody does.       *)
(***************************************************************************)
ProxyMove(t, b) ==
    \A s \in Sessions, w \in Workers :
        Proxy(s, w)' => Proxy(s, w) \/ (s = t /\ b = <<"proxy", w>>)

MessageMove(t, b) ==
    \A s \in Sessions, c \in Conns :
        Carries(c, s)' => Carries(c, s) \/ (s = t /\ b = <<"message", c>>)

SlotMove(t, b) ==
    \A s \in Sessions, i \in Slots :
        Slot(s, i)' => Slot(s, i) \/ (s = t /\ b = <<"slot", i>>)

HandlerMove(t, b) ==
    \A s \in Sessions :
        born' = s => born = s \/ (s = t /\ b = <<"handler", None>>)

UnansweredMove(t, b) ==
    \A s \in Sessions :
        retained_fd' = s /\ ~spawn_done'
            => (retained_fd = s /\ ~spawn_done) \/ (s = t /\ b = <<"unanswered", None>>)

NoneUnborn ==
    \A s \in Sessions : monitor'[s] = "unborn" => monitor[s] = "unborn"

Move(t, b) ==
    /\ ProxyMove(t, b) /\ MessageMove(t, b) /\ SlotMove(t, b)
    /\ HandlerMove(t, b) /\ UnansweredMove(t, b) /\ NoneUnborn

(***************************************************************************)
(* Membership in Holders after a step.                                     *)
(***************************************************************************)
LEMMA HoldersAreNext ==
    ASSUME NEW s \in Sessions, NEW x
    PROVE  x \in Holders(s)' <=>
             \/ \E w \in Workers : x = <<"proxy", w>> /\ Proxy(s, w)'
             \/ \E c \in Conns : x = <<"message", c>> /\ Carries(c, s)'
             \/ \E i \in Slots : x = <<"slot", i>> /\ Slot(s, i)'
             \/ x = <<"handler", None>> /\ born' = s
             \/ x = <<"unanswered", None>> /\ retained_fd' = s /\ ~spawn_done'
             \/ x = <<"unborn", None>> /\ monitor'[s] = "unborn"
  BY DEF Holders, Proxy, Slot

(***************************************************************************)
(* A holder after the step was one before, unless it is b and the session  *)
(* is t.                                                                   *)
(***************************************************************************)
LEMMA MoveHolders ==
    ASSUME NEW t, NEW b, Move(t, b), NEW s \in Sessions, NEW x \in Holders(s)'
    PROVE  x \in Holders(s) \/ (s = t /\ x = b)
  BY SMTT(60), HoldersAre, HoldersAreNext
     DEF Move, ProxyMove, MessageMove, SlotMove, HandlerMove, UnansweredMove, NoneUnborn

(***************************************************************************)
(* A step that gives no session a new holder, and one that hands session t *)
(* on from a to b, keep the holder unique.                                 *)
(***************************************************************************)
LEMMA NoNewHolder ==
    ASSUME Exclusive, Move(None, None)
    PROVE  Exclusive'
<1>1. \A s \in Sessions : s # None
  BY NoneAssumption
<1> QED
  BY <1>1, MoveHolders DEF Exclusive

(***************************************************************************)
(* A step takes session t from its holder a and may give it to b.          *)
(***************************************************************************)
HandsOn(t, a, b) == Move(t, b) /\ a \in Holders(t) /\ a \notin Holders(t)'

(***************************************************************************)
(* Then b is the only one that may hold t afterwards, and every session    *)
(* still has one holder at most.                                           *)
(***************************************************************************)
LEMMA HandedOn ==
    ASSUME Exclusive, NEW t \in Sessions, NEW a, NEW b, HandsOn(t, a, b)
    PROVE  Exclusive' /\ \A x \in Holders(t)' : x = b
  BY SMTT(60), MoveHolders DEF Exclusive, HandsOn

-----------------------------------------------------------------------------
(***************************************************************************)
(* What a step leaves alone gets no new holder.                            *)
(***************************************************************************)
LEMMA Frames ==
    ASSUME NEW t, NEW b
    PROVE  /\ UNCHANGED <<wpc, be_fd>> => ProxyMove(t, b)
           /\ UNCHANGED conn => MessageMove(t, b)
           /\ UNCHANGED suspended => SlotMove(t, b)
           /\ UNCHANGED born => HandlerMove(t, b)
           /\ UNCHANGED <<retained_fd, spawn_done>> => UnansweredMove(t, b)
           /\ UNCHANGED monitor => NoneUnborn
  BY SMTT(60) DEF ProxyMove, Proxy, MessageMove, Carries, SlotMove, Slot, HandlerMove,
         UnansweredMove, NoneUnborn

(***************************************************************************)
(* A descriptor that is closed or handed over is None in the end.          *)
(***************************************************************************)
LEMMA Dropped ==
    ASSUME NEW t, NEW b
    PROVE  /\ born' = None => HandlerMove(t, b)
           /\ retained_fd' = None => UnansweredMove(t, b)
           /\ retained_fd' = retained_fd /\ (spawn_done => spawn_done')
                => UnansweredMove(t, b)
  BY NoneAssumption DEF HandlerMove, UnansweredMove

(***************************************************************************)
(* A step that changes one connection, and what the others carry.          *)
(***************************************************************************)
HasFd(k, s) ==
    \/ k.req # None /\ k.req.fd = s
    \/ k.rsp # None /\ k.rsp.fd = s

(***************************************************************************)
(* What a connection carries once it has been set to k.                    *)
(***************************************************************************)
LEMMA CarriedNext ==
    ASSUME CommInv, NEW c \in Conns, NEW k, conn' = [conn EXCEPT ![c] = k]
    PROVE  \A s \in Sessions : Carries(c, s)' => HasFd(k, s)
<1>1. conn'[c] = k
  BY DEF CommInv, TypeOK, ProtoTypeOK
<1> QED
  BY <1>1 DEF Carries, HasFd

(***************************************************************************)
(* A step that sets one connection to k gives no session a new message,    *)
(* unless k carries it to be handed on.                                    *)
(***************************************************************************)
LEMMA OneConnection ==
    ASSUME CommInv, NEW c \in Conns, NEW k, conn' = [conn EXCEPT ![c] = k],
           NEW t, NEW b,
           \A s \in Sessions :
             HasFd(k, s) => Carries(c, s) \/ (s = t /\ b = <<"message", c>>)
    PROVE  MessageMove(t, b)
<1>1. conn \in [Conns -> ConnStates]
  BY DEF CommInv, TypeOK, ProtoTypeOK
<1>3. \A s \in Sessions : Carries(c, s)' => HasFd(k, s)
  BY CarriedNext
<1>4. ASSUME NEW s \in Sessions, NEW d \in Conns \ {c}
      PROVE  Carries(d, s)' <=> Carries(d, s)
  <2>1. conn'[d] = conn[d]
    BY <1>1
  <2> QED
    BY <2>1 DEF Carries
<1> QED
  BY <1>3, <1>4 DEF MessageMove

(***************************************************************************)
(* reply() takes the request off the connection and sends the descriptor   *)
(* of the answer, if it has one.                                           *)
(***************************************************************************)
LEMMA AnswerMoves ==
    ASSUME CommInv, NEW c \in Conns, c = cur, NEW m \in Replies, Answer(m),
           NEW t, NEW b,
           conn[c].up /\ m.fd \in Sessions => m.fd = t /\ b = <<"message", c>>
    PROVE  /\ MessageMove(t, b)
           /\ \A s \in Sessions : Carries(c, s)' => s = m.fd /\ conn[c].up
<1>1. conn \in [Conns -> ConnStates] /\ ConnShape(conn[c]) /\ conn[c].srv = "serving"
  BY NoneAssumption DEF CommInv, TypeOK, ProtoTypeOK, Links, Serving
<1>2. PICK z \in ConnStates :
        /\ z = Replied(conn[c], m)
        /\ z.req = None /\ z.rsp = IF conn[c].up THEN m ELSE None
  BY <1>1, RepliedShape
<1>4. conn' = [conn EXCEPT ![c] = z]
  BY <1>2 DEF Answer
<1>5. \A s \in Sessions : HasFd(z, s) => s = m.fd /\ conn[c].up
  BY <1>2 DEF HasFd
<1>6. \A s \in Sessions : HasFd(z, s) => Carries(c, s) \/ (s = t /\ b = <<"message", c>>)
  BY <1>5
<1>7. MessageMove(t, b)
  BY <1>4, <1>6, OneConnection
<1>8. \A s \in Sessions : Carries(c, s)' => HasFd(z, s)
  BY <1>4, CarriedNext
<1> QED
  BY <1>5, <1>7, <1>8

(***************************************************************************)
(* An answer without a descriptor hands nothing over.                      *)
(***************************************************************************)
LEMMA EmptyAnswer ==
    ASSUME CommInv, NEW c \in Conns, c = cur, NEW m \in Replies, m.fd = None,
           Answer(m), NEW t, NEW b
    PROVE  MessageMove(t, b) /\ \A s \in Sessions : ~Carries(c, s)'
<1>1. None \notin Sessions
  BY NoneAssumption
<1> QED
  BY <1>1, AnswerMoves

(***************************************************************************)
(* close() by the worker hands nothing over, and what a connection carried *)
(* to the worker is gone.                                                  *)
(***************************************************************************)
LEMMA CloseMoves ==
    ASSUME CommInv, NEW w \in Workers, NEW c \in Conns, c = wconn[w], CloseConn(w),
           NEW t, NEW b
    PROVE  /\ MessageMove(t, b)
           /\ conn[c].req = None => \A s \in Sessions : ~Carries(c, s)'
<1>2. conn[c] \in ConnStates /\ ConnShape(conn[c]) /\ conn[c].up
  BY SMTT(60), NoneAssumption DEF CommInv, TypeOK, ProtoTypeOK, Links
<1>3. PICK z \in ConnStates :
        z = ClosedByWorker(conn[c]) /\ z.rsp = None /\ z.req = conn[c].req
  BY <1>2, ClosedByWorkerShape
<1>4. conn' = [conn EXCEPT ![c] = z]
  BY <1>3 DEF CloseConn
<1>5. \A s \in Sessions : HasFd(z, s) => Carries(c, s) /\ conn[c].req # None
  BY <1>3 DEF Carries, HasFd
<1>6. \A s \in Sessions : HasFd(z, s) => Carries(c, s) \/ (s = t /\ b = <<"message", c>>)
  BY <1>5
<1>7. MessageMove(t, b)
  BY <1>4, <1>6, OneConnection
<1>8. \A s \in Sessions : Carries(c, s)' => HasFd(z, s)
  BY <1>4, CarriedNext
<1> QED
  BY <1>5, <1>7, <1>8

(***************************************************************************)
(* Opening a connection puts the descriptor of the request on its way.     *)
(***************************************************************************)
LEMMA ConnectMoves ==
    ASSUME CommInv, NEW w \in Workers, NEW c \in Conns, NEW r \in Requests,
           Connect(w, c, r), NEW t, NEW b,
           r.fd \in Sessions => r.fd = t /\ b = <<"message", c>>
    PROVE  MessageMove(t, b)
<1>1. PICK z : z = [owner |-> w, up |-> TRUE, srv |-> "queued", req |-> r, rsp |-> None]
  OBVIOUS
<1>2. z.req = r /\ z.rsp = None /\ conn' = [conn EXCEPT ![c] = z]
  BY <1>1 DEF Connect
<1>3. \A s \in Sessions : HasFd(z, s) => Carries(c, s) \/ (s = t /\ b = <<"message", c>>)
  BY <1>2 DEF HasFd
<1> QED
  BY <1>2, <1>3, OneConnection

(***************************************************************************)
(* The slot table after a sweep, and after a descriptor is stored in it.   *)
(***************************************************************************)
LEMMA SweepMoves ==
    ASSUME CommInv, suspended' = Swept, NEW t, NEW b
    PROVE  SlotMove(t, b)
<1>1. suspended \in [Slots -> SlotStates]
  BY DEF CommInv, TypeOK, MgrTypeOK
<1>2. \A i \in Slots :
        Swept[i].in_use => suspended[i].in_use /\ Swept[i] = suspended[i]
  BY <1>1, SweptShape
<1> QED
  BY <1>2 DEF SlotMove, Slot

(***************************************************************************)
(* Storing a descriptor in the slot table, swept first, hands it to one    *)
(* slot at most.                                                           *)
(***************************************************************************)
LEMMA StoreMoves ==
    ASSUME CommInv, NEW id \in LogonIds \cup {None}, NEW t \in Sessions,
           NEW a \in ArcRandom, suspended' = Stored(id, t, a)
    PROVE  \E i \in Slots : SlotMove(t, <<"slot", i>>)
<1>1. suspended \in [Slots -> SlotStates] /\ now \in Nat
  BY DEF CommInv, TypeOK, MgrTypeOK
<1>2. /\ Swept \in [Slots -> SlotStates]
      /\ \A i \in Slots :
           Swept[i].in_use => suspended[i].in_use /\ Swept[i] = suspended[i]
  BY <1>1, SweptShape
<1>3. CASE suspended' = Swept
  <2>1. 1 \in Slots
    BY SMTT(60), SessMgrAssumption DEF Slots
  <2> QED
    BY <1>3, <2>1, SweepMoves
<1>4. CASE \E i \in Slots : suspended' = [Swept EXCEPT ![i] = NewSlot(id, t, a)]
  <2>1. PICK i \in Slots : suspended' = [Swept EXCEPT ![i] = NewSlot(id, t, a)]
    BY <1>4
  <2>2. suspended'[i].be_fd = t /\ \A j \in Slots \ {i} : suspended'[j] = Swept[j]
    BY SMTT(60), <1>2, <2>1 DEF NewSlot
  <2>3. SlotMove(t, <<"slot", i>>)
    BY <1>2, <2>2 DEF SlotMove, Slot
  <2> QED
    BY <2>3
<1> QED
  BY <1>1, <1>3, <1>4, StoredShape, ZenonT(60)

-----------------------------------------------------------------------------
(***************************************************************************)
(* Action by action.  First the manager's steps that hand nothing on.      *)
(***************************************************************************)
LEMMA AuthExclusive ==
    ASSUME CommInv, Exclusive, UNCHANGED workerVars,
           AuthThrottled \/ AuthBegin \/ AuthAccepts \/ AuthRefuses
    PROVE  Exclusive'
<1>1. /\ UNCHANGED <<retained_fd, spawn_done, born, suspended, monitor, wpc, be_fd>>
      /\ \/ UNCHANGED conn
         \/ Answer(Refusal)
         \/ Answer(Success(None))
  BY DEF AuthThrottled, AuthBegin, AuthAccepts, AuthRefuses, workerVars, clientVars,
         slotVars, monitorVars, protoVars
<1>2. cur \in Conns
  BY ReceivedFacts, WorkingFacts DEF AuthThrottled, AuthBegin, AuthAccepts, AuthRefuses,
         CommInv, Serving
<1>3. /\ Refusal \in Replies /\ Refusal.fd = None
      /\ Success(None) \in Replies /\ Success(None).fd = None
  BY ReplyShapes DEF Refusal, Success
<1>4. MessageMove(None, None)
  BY <1>1, <1>2, <1>3, EmptyAnswer, Frames
<1> QED
  BY <1>1, <1>4, Frames, NoNewHolder DEF Move

(***************************************************************************)
(* A refused SPAWN or RESUME hands nothing on; the sweep before it only    *)
(* closes descriptors.                                                     *)
(***************************************************************************)
LEMMA RefusalExclusive ==
    ASSUME CommInv, Exclusive, UNCHANGED workerVars,
           SpawnRefused \/ SpawnFailed \/ ResumeRefused
    PROVE  Exclusive'
<1>0. spawn_done => spawn_done'
  BY Zenon DEF SpawnRefused, SpawnFailed, ResumeRefused, clientVars
<1>1. /\ UNCHANGED <<retained_fd, monitor, wpc, be_fd>>
      /\ born' = born \/ born' = None
      /\ suspended' = suspended \/ suspended' = Swept
      /\ Answer(Refusal)
  BY DEF SpawnRefused, SpawnFailed, ResumeRefused, workerVars, clientVars,
         slotVars, monitorVars
<1>2. cur \in Conns
  BY ReceivedFacts, WorkingFacts DEF SpawnRefused, SpawnFailed, ResumeRefused,
         CommInv, Serving
<1>3. Refusal \in Replies /\ Refusal.fd = None
  BY ReplyShapes DEF Refusal
<1>4. MessageMove(None, None)
  BY <1>1, <1>2, <1>3, EmptyAnswer
<1>5. SlotMove(None, None) /\ HandlerMove(None, None) /\ UnansweredMove(None, None)
  BY <1>0, <1>1, SweepMoves, Frames, Dropped
<1> QED
  BY <1>1, <1>4, <1>5, Frames, NoNewHolder DEF Move

(***************************************************************************)
(* accept hands nothing on: the request stays on its connection.           *)
(***************************************************************************)
LEMMA AcceptExclusive ==
    ASSUME CommInv, Exclusive, accept, UNCHANGED workerVars
    PROVE  Exclusive'
<1>1. /\ UNCHANGED <<retained_fd, spawn_done, born, suspended, monitor, wpc, be_fd>>
      /\ backlog # <<>>
      /\ conn' = [conn EXCEPT ![Head(backlog)].srv = "serving"]
  BY DEF accept, workerVars, slotVars, monitorVars
<1>2. PICK c \in Conns : c = Head(backlog)
  BY SMTT(60), <1>1 DEF CommInv, TypeOK, ProtoTypeOK
<1>3. conn[c] \in ConnStates
  BY DEF CommInv, TypeOK, ProtoTypeOK
<1>4. PICK z : z = [conn[c] EXCEPT !.srv = "serving"]
  OBVIOUS
<1>5. conn' = [conn EXCEPT ![c] = z]
  BY <1>1, <1>2, <1>4
<1>6. \A s \in Sessions : HasFd(z, s) => Carries(c, s)
  <2>1. z.req = conn[c].req /\ z.rsp = conn[c].rsp
    BY <1>3, <1>4 DEF ConnStates
  <2> QED
    BY <2>1 DEF HasFd, Carries
<1>7. MessageMove(None, None)
  BY <1>5, <1>6, OneConnection
<1> QED
  BY <1>1, <1>7, Frames, NoNewHolder DEF Move

(***************************************************************************)
(* The steps that touch no descriptor of the manager or of a worker:       *)
(* signals, monitors, the clock, a session's exit.                         *)
(***************************************************************************)
LEMMA OtherExclusive ==
    ASSUME CommInv, Exclusive, UNCHANGED workerVars,
           \/ ClientLeaves \/ SpawnRecord \/ on_sigchld \/ Clock
           \/ \E s \in Sessions : MonitorStep(s) \/ SessionExits(s)
           \/ UNCHANGED vars
    PROVE  Exclusive'
<1>1. UNCHANGED <<retained_fd, spawn_done, born, suspended, conn, wpc, be_fd>>
  BY DEF ClientLeaves, SpawnRecord, on_sigchld, Clock, MonitorStep, MonitorFails,
         MonitorStarts, MonitorExits, SessionExits, vars, mgrVars, workerVars,
         clientVars, slotVars, monitorVars, protoVars
<1>2. monitor \in [Sessions -> {"unborn", "opening", "waiting", "zombie", "reaped"}]
  BY DEF CommInv, TypeOK, MgrTypeOK
<1>3. \/ UNCHANGED monitor
      \/ monitor' = [s \in Sessions |-> IF s \in Zombies THEN "reaped" ELSE monitor[s]]
      \/ \E s \in Sessions : \E z \in {"waiting", "zombie"} :
           monitor' = [monitor EXCEPT ![s] = z]
  BY DEF ClientLeaves, SpawnRecord, on_sigchld, Clock, MonitorStep, MonitorFails,
         MonitorStarts, MonitorExits, ChildExits, SessionExits, vars, mgrVars, monitorVars
<1>4. NoneUnborn
  BY <1>2, <1>3 DEF NoneUnborn
<1> QED
  BY <1>1, <1>4, Frames, NoNewHolder DEF Move

(***************************************************************************)
(* The manager's steps that hand a session on.  SpawnFork: from the fork   *)
(* to come to the handler that forked.                                     *)
(***************************************************************************)
LEMMA ForkHandsOn ==
    ASSUME CommInv, NEW s \in Sessions, SpawnFork(s), UNCHANGED workerVars
    PROVE  HandsOn(s, <<"unborn", None>>, <<"handler", None>>)
<1>1. /\ UNCHANGED <<retained_fd, spawn_done, suspended, conn, wpc, be_fd>>
      /\ monitor[s] = "unborn" /\ born' = s
      /\ monitor' = [monitor EXCEPT ![s] = "opening"]
  BY DEF SpawnFork, workerVars, slotVars, protoVars
<1>2. monitor \in [Sessions -> {"unborn", "opening", "waiting", "zombie", "reaped"}]
  BY DEF CommInv, TypeOK, MgrTypeOK
<1>3. NoneUnborn /\ monitor'[s] # "unborn"
  BY <1>1, <1>2 DEF NoneUnborn
<1>4. HandlerMove(s, <<"handler", None>>)
  BY <1>1 DEF HandlerMove
<1>5. Move(s, <<"handler", None>>)
  BY <1>1, <1>3, <1>4, Frames DEF Move
<1>6. <<"unborn", None>> \in Holders(s)
  BY <1>1, HoldersAre
<1>7. <<"unborn", None>> \notin Holders(s)'
  BY SMTT(60), <1>3, HoldersAreNext
<1> QED
  BY <1>5, <1>6, <1>7 DEF HandsOn

(***************************************************************************)
(* SpawnStarted: from the handler to the reply or, when the worker is gone *)
(* and the reply cannot be sent, to the retained duplicate.                *)
(***************************************************************************)
LEMMA StartedHandsOn ==
    ASSUME CommInv, SpawnStarted, UNCHANGED workerVars
    PROVE  \E s \in Sessions, c \in Conns :
             /\ s = born /\ c = cur
             /\ \E b \in {<<"message", c>>, <<"unanswered", None>>} :
                  HandsOn(s, <<"handler", None>>, b)
<1>1. /\ UNCHANGED <<suspended, monitor, wpc, be_fd>>
      /\ pc = "status" /\ retained_fd' = born /\ born' = None /\ Answer(Success(born))
  BY DEF SpawnStarted, workerVars, slotVars, monitorVars
<1>2. spawn_done' = (spawn_done \/ conn[cur].up)
  BY DEF SpawnStarted
<1>3. PICK c \in Conns : c = cur
  BY <1>1, WorkingFacts DEF CommInv, Serving
<1>4. PICK s \in Sessions : s = born
  BY <1>1 DEF CommInv, Serving, TypeOK, MgrTypeOK
<1>5. Success(s) \in Replies /\ Success(s).fd = s
  BY ReplyShapes DEF Success
<1>6. PICK b : b = IF conn[c].up THEN <<"message", c>> ELSE <<"unanswered", None>>
  OBVIOUS
<1>7. MessageMove(s, b)
  BY <1>1, <1>3, <1>4, <1>5, <1>6, AnswerMoves
<1>8. UnansweredMove(s, b)
  <2>1. CASE conn[c].up
    <3>1. spawn_done'
      BY <1>2, <1>3, <2>1, Zenon
    <3> QED
      BY <3>1 DEF UnansweredMove
  <2>2. CASE ~conn[c].up
    BY <1>1, <1>4, <1>6, <2>2 DEF UnansweredMove
  <2> QED
    BY <2>1, <2>2
<1>9. Move(s, b)
  BY <1>1, <1>7, <1>8, Frames, Dropped DEF Move
<1>10. <<"handler", None>> \in Holders(s)
  BY <1>4, HoldersAre
<1>11. <<"handler", None>> \notin Holders(s)'
  BY SMTT(60), <1>1, HoldersAreNext, NoneAssumption
<1> QED
  BY <1>3, <1>4, <1>6, <1>9, <1>10, <1>11 DEF HandsOn

(***************************************************************************)
(* ResumeReply: from the handler to the reply, or nowhere.                 *)
(***************************************************************************)
LEMMA ResumeReplyHandsOn ==
    ASSUME CommInv, ResumeReply, UNCHANGED workerVars
    PROVE  \E s \in Sessions, c \in Conns :
             /\ s = born /\ c = cur
             /\ HandsOn(s, <<"handler", None>>, <<"message", c>>)
<1>1. /\ UNCHANGED <<retained_fd, spawn_done, suspended, monitor, wpc, be_fd>>
      /\ pc = "resume" /\ born' = None
      /\ Answer(Success(born)) \/ Answer(Refusal)
  BY DEF ResumeReply, workerVars, slotVars, monitorVars
<1>3. PICK c \in Conns : c = cur
  BY <1>1, WorkingFacts DEF CommInv, Serving
<1>4. PICK s \in Sessions : s = born
  BY <1>1 DEF CommInv, Serving, TypeOK, MgrTypeOK
<1>5. /\ Success(s) \in Replies /\ Success(s).fd = s
      /\ Refusal \in Replies /\ Refusal.fd = None
  BY ReplyShapes DEF Success, Refusal
<1>7. MessageMove(s, <<"message", c>>)
  BY <1>1, <1>3, <1>4, <1>5, AnswerMoves, EmptyAnswer
<1>9. Move(s, <<"message", c>>)
  BY <1>1, <1>7, Frames, Dropped DEF Move
<1>10. <<"handler", None>> \in Holders(s)
  BY <1>4, HoldersAre
<1>11. <<"handler", None>> \notin Holders(s)'
  BY SMTT(60), <1>1, HoldersAreNext, NoneAssumption
<1> QED
  BY <1>3, <1>4, <1>9, <1>10, <1>11 DEF HandsOn

(***************************************************************************)
(* ResumeTake: from the slot to the handler.                               *)
(***************************************************************************)
LEMMA ResumeTakeHandsOn ==
    ASSUME CommInv, ResumeTake, UNCHANGED workerVars
    PROVE  \E s \in Sessions, i \in Slots :
             /\ Slot(s, i) /\ suspended[i].arc_random = conn[cur].req.arc
             /\ HandsOn(s, <<"slot", i>>, <<"handler", None>>)
<1>1. UNCHANGED <<retained_fd, spawn_done, conn, monitor, wpc, be_fd>>
  BY DEF ResumeTake, workerVars, monitorVars, protoVars
<1>2. PICK i \in Slots :
        /\ Swept[i].in_use /\ Swept[i] = suspended[i] /\ suspended[i].in_use
        /\ suspended[i].be_fd \in Sessions
        /\ suspended[i].arc_random = conn[cur].req.arc
        /\ born' = suspended[i].be_fd
        /\ suspended' = [Swept EXCEPT ![i] = NoSlot]
  BY TakenSlot
<1>3. PICK s \in Sessions : s = suspended[i].be_fd
  BY <1>2
<1>4. suspended \in [Slots -> SlotStates]
  BY DEF CommInv, TypeOK, MgrTypeOK
<1>5. /\ Swept \in [Slots -> SlotStates]
      /\ \A j \in Slots :
           Swept[j].in_use => suspended[j].in_use /\ Swept[j] = suspended[j]
  BY <1>4, SweptShape
<1>6. ~suspended'[i].in_use /\ \A j \in Slots \ {i} : suspended'[j] = Swept[j]
  BY <1>2, <1>5 DEF NoSlot
<1>7. SlotMove(s, <<"handler", None>>)
  BY <1>5, <1>6 DEF SlotMove, Slot
<1>8. HandlerMove(s, <<"handler", None>>)
  BY <1>2, <1>3 DEF HandlerMove
<1>9. Move(s, <<"handler", None>>)
  BY <1>1, <1>7, <1>8, Frames DEF Move
<1>10. <<"slot", i>> \in Holders(s)
  BY <1>2, <1>3, HoldersAre DEF Slot
<1>11. <<"slot", i>> \notin Holders(s)'
  BY SMTT(60), <1>6, HoldersAreNext DEF Slot
<1> QED
  BY <1>2, <1>3, <1>9, <1>10, <1>11 DEF HandsOn, Slot

(***************************************************************************)
(* handle_suspend: from the request to a slot, or nowhere.                 *)
(***************************************************************************)
LEMMA SuspendHandsOn ==
    ASSUME CommInv, handle_suspend, UNCHANGED workerVars
    PROVE  \E s \in Sessions, c \in Conns, i \in Slots :
             /\ c = cur /\ s = conn[c].req.fd
             /\ HandsOn(s, <<"message", c>>, <<"slot", i>>)
<1>1. /\ UNCHANGED <<born, monitor, wpc, be_fd>>
      /\ Received("SUSPEND") /\ retained_fd' = None
      /\ suspended' = Stored(conn[cur].req.id, conn[cur].req.fd, conn[cur].req.arc)
      /\ Answer(Success(None)) \/ Answer(Refusal)
  BY DEF handle_suspend, workerVars, monitorVars
<1>2. PICK c \in Conns : c = cur
  BY <1>1, ReceivedFacts
<1>3. /\ conn[c].req \in Requests /\ conn[c].req # None
      /\ conn[c].req.op = "SUSPEND" /\ RequestShape(conn[c].req)
  BY <1>1, <1>2, ReceivedFacts
<1>4. PICK s \in Sessions : s = conn[c].req.fd
  BY <1>3 DEF Requests, RequestShape
<1>5. PICK i \in Slots : SlotMove(s, <<"slot", i>>)
  <2>1. conn[c].req.id \in LogonIds \cup {None} /\ conn[c].req.arc \in ArcRandom
    BY <1>3 DEF Requests
  <2> QED
    BY <1>1, <1>2, <1>4, <2>1, StoreMoves
<1>6. /\ Success(None) \in Replies /\ Success(None).fd = None
      /\ Refusal \in Replies /\ Refusal.fd = None
  BY ReplyShapes DEF Success, Refusal
<1>7. MessageMove(s, <<"slot", i>>)
  BY <1>1, <1>2, <1>6, EmptyAnswer
<1>8. ~Carries(c, s)'
  BY <1>1, <1>2, <1>6, EmptyAnswer
<1>9. Move(s, <<"slot", i>>)
  BY <1>1, <1>5, <1>7, Frames, Dropped DEF Move
<1>10. <<"message", c>> \in Holders(s)
  BY <1>3, <1>4, HoldersAre DEF Carries
<1>11. <<"message", c>> \notin Holders(s)'
  BY SMTT(60), <1>8, HoldersAreNext
<1> QED
  BY <1>2, <1>4, <1>9, <1>10, <1>11 DEF HandsOn

(***************************************************************************)
(* EndClient: from the retained duplicate to a slot, or nowhere; and what  *)
(* the closed connection carried to the manager is lost.                   *)
(***************************************************************************)
LEMMA EndHandsOn ==
    ASSUME CommInv, EndClient, UNCHANGED workerVars
    PROVE  IF Unanswered
           THEN \E s \in Sessions, i \in Slots :
                  /\ s = retained_fd
                  /\ HandsOn(s, <<"unanswered", None>>, <<"slot", i>>)
           ELSE Move(None, None)
<1>1. /\ UNCHANGED <<born, monitor, wpc, be_fd>>
      /\ pc = "end" /\ retained_fd' = None
      /\ conn' = [conn EXCEPT ![cur] = ClosedByManager(@)]
  BY DEF EndClient, workerVars, monitorVars
<1>2. PICK c \in Conns : c = cur
  BY <1>1 DEF CommInv, Serving, TypeOK, MgrTypeOK
<1>3. conn[c] \in ConnStates /\ ConnShape(conn[c]) /\ conn[c].srv = "serving"
  BY SMTT(60), <1>2, NoneAssumption DEF CommInv, TypeOK, ProtoTypeOK, Links, Serving
<1>4. PICK z \in ConnStates :
        z = ClosedByManager(conn[c]) /\ z.req = None /\ z.rsp = conn[c].rsp
  BY <1>3, ClosedByManagerShape
<1>5. conn' = [conn EXCEPT ![c] = z]
  BY <1>1, <1>2, <1>4
<1>6. \A s \in Sessions : HasFd(z, s) => Carries(c, s)
  BY <1>4 DEF HasFd, Carries
<1>7. ASSUME NEW t, NEW b PROVE MessageMove(t, b)
  BY <1>5, <1>6, OneConnection
<1>8. CASE Unanswered
  <2>1. PICK s \in Sessions : s = retained_fd
    BY <1>8 DEF Unanswered, CommInv, TypeOK, MgrTypeOK
  <2>2. ~spawn_done
    BY <1>8, Zenon DEF Unanswered
  <2>3. PICK id \in LogonIds : suspended' = Stored(id, s, None)
    BY <1>8, <2>1 DEF EndClient, auto_suspend
  <2>4. PICK i \in Slots : SlotMove(s, <<"slot", i>>)
    BY <2>3, StoreMoves DEF ArcRandom
  <2>5. Move(s, <<"slot", i>>)
    BY <1>1, <1>7, <2>4, Frames, Dropped DEF Move
  <2>6. <<"unanswered", None>> \in Holders(s)
    BY <2>1, <2>2, HoldersAre
  <2>7. <<"unanswered", None>> \notin Holders(s)'
    BY SMTT(60), <1>1, HoldersAreNext, NoneAssumption
  <2> QED
    BY <1>8, <2>1, <2>5, <2>6, <2>7 DEF HandsOn
<1>9. CASE ~Unanswered
  <2>1. UNCHANGED suspended
    BY <1>9 DEF EndClient
  <2> QED
    BY <1>1, <1>7, <1>9, <2>1, Frames, Dropped DEF Move
<1> QED
  BY <1>8, <1>9

-----------------------------------------------------------------------------
(***************************************************************************)
(* The workers' steps.  A worker that does not become a proxy is no new    *)
(* holder.                                                                 *)
(***************************************************************************)
LEMMA ProxyLeft ==
    ASSUME CommInv, NEW w \in Workers, NEW p \in Places, p # "proxy", Goto(w, p),
           \A v \in Workers \ {w} : be_fd'[v] = be_fd[v], NEW t, NEW b
    PROVE  ProxyMove(t, b) /\ \A s \in Sessions : ~Proxy(s, w)'
<1>1. wpc \in [Workers -> Places]
  BY DEF CommInv, TypeOK, WorkerTypeOK
<1>2. wpc'[w] = p /\ \A v \in Workers \ {w} : wpc'[v] = wpc[v]
  BY <1>1 DEF Goto
<1> QED
  BY <1>2 DEF ProxyMove, Proxy

(***************************************************************************)
(* The workers leave the manager's descriptors alone.                      *)
(***************************************************************************)
LEMMA MgrHolders ==
    ASSUME UNCHANGED mgrVars, NEW t, NEW b
    PROVE  /\ SlotMove(t, b) /\ HandlerMove(t, b) /\ UnansweredMove(t, b)
           /\ NoneUnborn
<1>1. UNCHANGED <<suspended, born, retained_fd, spawn_done, monitor>>
  BY DEF mgrVars, clientVars, slotVars, monitorVars
<1> QED
  BY <1>1, Frames

(***************************************************************************)
(* A request without a descriptor.                                         *)
(***************************************************************************)
LEMMA OpenExclusive ==
    ASSUME CommInv, Exclusive, NEW w \in Workers, UNCHANGED mgrVars,
           \/ rdp_sessmgr_resume(w)
           \/ \E m \in LoginPaths \cup {"greeter"}, u \in Users :
                rdp_sessmgr_open_auth(w, m, u)
    PROVE  Exclusive'
<1>1. PICK c \in Conns, r \in Requests : Connect(w, c, r) /\ r.fd = None
  <2>1. CASE rdp_sessmgr_resume(w)
    <3>1. PICK c \in Conns, id \in LogonIds, v \in Workers :
            Connect(w, c, ResumeReq(id, v))
      BY <2>1 DEF rdp_sessmgr_resume
    <3>2. ResumeReq(id, v) \in Requests /\ ResumeReq(id, v).fd = None
      BY RequestTypes DEF ResumeReq, ArcRandom
    <3> QED
      BY <3>1, <3>2
  <2>2. CASE \E m \in LoginPaths \cup {"greeter"}, u \in Users :
               rdp_sessmgr_open_auth(w, m, u)
    <3>1. PICK c \in Conns, u \in Users : Connect(w, c, AuthReq(u))
      BY <2>2 DEF rdp_sessmgr_open_auth
    <3>2. AuthReq(u) \in Requests /\ AuthReq(u).fd = None
      BY RequestTypes DEF AuthReq
    <3> QED
      BY <3>1, <3>2
  <2> QED
    BY <2>1, <2>2
<1>2. MessageMove(None, None)
  BY <1>1, ConnectMoves, NoneAssumption
<1>3. be_fd' = be_fd /\ \E p \in {"resume", "auth"} : Goto(w, p)
  BY DEF rdp_sessmgr_resume, rdp_sessmgr_open_auth
<1>4. ProxyMove(None, None)
  BY <1>3, ProxyLeft DEF Places
<1> QED
  BY <1>2, <1>4, MgrHolders, NoNewHolder DEF Move

(***************************************************************************)
(* rdp_sessmgr_suspend: from the proxy to the request.                     *)
(***************************************************************************)
LEMMA SuspendCallHandsOn ==
    ASSUME CommInv, NEW w \in Workers, rdp_sessmgr_suspend(w),
           UNCHANGED mgrVars
    PROVE  \E s \in Sessions, c \in Conns :
             /\ s = be_fd[w] /\ Connect(w, c, SuspendReq(logon_id[w], w, s))
             /\ HandsOn(s, <<"proxy", w>>, <<"message", c>>)
<1>1. /\ wpc[w] = "proxy" /\ Goto(w, "suspend") /\ be_fd' = be_fd
      /\ \E c \in Conns : Connect(w, c, SuspendReq(logon_id[w], w, be_fd[w]))
  BY DEF rdp_sessmgr_suspend
<1>2. PICK s \in Sessions : s = be_fd[w]
  BY <1>1, WorkerFacts
<1>3. PICK c \in Conns : Connect(w, c, SuspendReq(logon_id[w], w, s))
  BY <1>1, <1>2
<1>4. logon_id[w] \in LogonIds \cup {None} /\ w \in ArcRandom
  BY WorkerFacts DEF LoginVarsTyped, ArcRandom
<1>5. PICK r \in Requests : r = SuspendReq(logon_id[w], w, s)
  BY <1>4, RequestTypes
<1>6. r.fd = s /\ Connect(w, c, r)
  BY <1>3, <1>5 DEF SuspendReq
<1>7. MessageMove(s, <<"message", c>>)
  BY <1>6, ConnectMoves
<1>8. ProxyMove(s, <<"message", c>>) /\ ~Proxy(s, w)'
  BY <1>1, ProxyLeft DEF Places
<1>9. Move(s, <<"message", c>>)
  BY <1>7, <1>8, MgrHolders DEF Move
<1>10. <<"proxy", w>> \in Holders(s)
  BY <1>1, <1>2, HoldersAre DEF Proxy
<1>11. <<"proxy", w>> \notin Holders(s)'
  BY SMTT(60), <1>8, HoldersAreNext
<1> QED
  BY <1>2, <1>3, <1>9, <1>10, <1>11 DEF HandsOn

(***************************************************************************)
(* Resumed and Spawned: from the reply to the proxy.                       *)
(***************************************************************************)
LEMMA AttachHandsOn ==
    ASSUME CommInv, NEW w \in Workers, Resumed(w) \/ Spawned(w),
           UNCHANGED mgrVars
    PROVE  \E s \in Sessions, c \in Conns :
             /\ s = Reply(w).fd /\ c = wconn[w]
             /\ HandsOn(s, <<"message", c>>, <<"proxy", w>>)
<1>1. /\ wpc[w] \in {"resume", "spawn"} /\ Granted(w) /\ CloseConn(w)
      /\ Goto(w, "proxy") /\ be_fd' = [be_fd EXCEPT ![w] = Reply(w).fd]
  BY DEF Resumed, Spawned
<1>2. PICK c \in Conns : c = wconn[w]
  BY <1>1, GrantedSession
<1>3. PICK s \in Sessions : s = Reply(w).fd
  BY <1>1, GrantedSession
<1>4. conn[c].rsp # None /\ conn[c].rsp.fd = s /\ conn[c].req = None
  <2>1. conn[c].rsp # None /\ conn[c].rsp = Reply(w)
    BY <1>1, <1>2, GrantedSession
  <2>2. ConnShape(conn[c])
    BY DEF CommInv, Links
  <2> QED
    BY <1>3, <2>1, <2>2 DEF ConnShape
<1>5. MessageMove(s, <<"proxy", w>>)
  BY <1>1, <1>2, CloseMoves
<1>6. ~Carries(c, s)'
  BY <1>1, <1>2, <1>4, CloseMoves
<1>7. ProxyMove(s, <<"proxy", w>>)
  <2>1. be_fd'[w] = s /\ \A v \in Workers \ {w} : be_fd'[v] = be_fd[v] /\ wpc'[v] = wpc[v]
    BY <1>1, <1>3, WorkerFacts DEF Goto
  <2> QED
    BY <2>1 DEF ProxyMove, Proxy
<1>8. Move(s, <<"proxy", w>>)
  BY <1>5, <1>7, MgrHolders DEF Move
<1>9. <<"message", c>> \in Holders(s)
  BY <1>4, HoldersAre DEF Carries
<1>10. <<"message", c>> \notin Holders(s)'
  BY SMTT(60), <1>6, HoldersAreNext
<1> QED
  BY <1>2, <1>3, <1>8, <1>9, <1>10 DEF HandsOn

(***************************************************************************)
(* The steps with which a worker drops what it has: it closes its          *)
(* connection, if it has one, and goes where it proxies nothing.           *)
(***************************************************************************)
LEMMA DropExclusive ==
    ASSUME CommInv, Exclusive, NEW w \in Workers, UNCHANGED mgrVars,
           NEW p \in Places, p # "proxy", Goto(w, p),
           be_fd' = be_fd \/ be_fd' = [be_fd EXCEPT ![w] = None],
           UNCHANGED conn \/ (wconn[w] # None /\ CloseConn(w))
    PROVE  Exclusive'
<1>1. MessageMove(None, None)
  <2>1. CASE UNCHANGED conn
    BY <2>1, Frames
  <2>2. CASE wconn[w] # None /\ CloseConn(w)
    <3>1. PICK c \in Conns : c = wconn[w]
      BY <2>2, WorkerFacts
    <3> QED
      BY <2>2, <3>1, CloseMoves
  <2> QED
    BY <2>1, <2>2
<1>2. \A v \in Workers \ {w} : be_fd'[v] = be_fd[v]
  BY WorkerFacts
<1>3. ProxyMove(None, None)
  BY <1>2, ProxyLeft
<1> QED
  BY <1>1, <1>3, MgrHolders, NoNewHolder DEF Move

(***************************************************************************)
(* The worker's refusals and its ends hand nothing on.                     *)
(***************************************************************************)
LEMMA LeavingExclusive ==
    ASSUME CommInv, Exclusive, NEW w \in Workers, UNCHANGED mgrVars,
           \/ ResumeFailed(w) \/ LoginRefused(w) \/ SpawnUnsent(w) \/ SpawnDenied(w)
           \/ GreeterCancelled(w) \/ ProxyEnds(w) \/ Suspended(w) \/ Killed(w)
    PROVE  Exclusive'
<1>1. UNCHANGED conn \/ (wconn[w] # None /\ CloseConn(w))
  <2>1. CASE \/ ResumeFailed(w) \/ LoginRefused(w) \/ SpawnUnsent(w)
             \/ SpawnDenied(w) \/ Suspended(w)
    <3>1. wpc[w] \in Connected /\ CloseConn(w)
      BY <2>1 DEF ResumeFailed, LoginRefused, SpawnUnsent, SpawnDenied, Suspended,
                  GiveUp, Connected
    <3> QED
      BY <3>1, WorkerFacts
  <2>2. CASE GreeterCancelled(w) \/ ProxyEnds(w) \/ Killed(w)
    BY <2>2 DEF GreeterCancelled, ProxyEnds, Killed, protoVars
  <2> QED
    BY <2>1, <2>2
<1>2. /\ \E p \in {"login", "greeter", "done", "killed"} : Goto(w, p)
      /\ be_fd' = be_fd \/ be_fd' = [be_fd EXCEPT ![w] = None]
  BY DEF ResumeFailed, LoginRefused, SpawnUnsent, SpawnDenied, GreeterCancelled,
         ProxyEnds, Suspended, Killed, GiveUp, Leave
<1>3. PICK p \in Places : p # "proxy" /\ Goto(w, p)
  BY <1>2 DEF Places
<1> QED
  BY <1>1, <1>2, <1>3, DropExclusive

(***************************************************************************)
(* Reading the answer to AUTH and sending SPAWN move no descriptor.        *)
(***************************************************************************)
LEMMA TalkExclusive ==
    ASSUME CommInv, Exclusive, NEW w \in Workers, UNCHANGED mgrVars,
           LoggedIn(w) \/ rdp_sessmgr_spawn(w)
    PROVE  Exclusive'
<1>1. /\ wpc[w] \in Connected /\ be_fd' = be_fd
      /\ \E p \in {"authed", "spawn"} : Goto(w, p)
      /\ \/ conn' = [conn EXCEPT ![wconn[w]].rsp = None]
         \/ conn' = [conn EXCEPT ![wconn[w]].req = SpawnReq]
  BY DEF LoggedIn, rdp_sessmgr_spawn, Connected
<1>2. PICK c \in Conns : c = wconn[w]
  BY <1>1, WorkerFacts
<1>3. conn[c] \in ConnStates
  BY WorkerFacts
<1>4. PICK z : /\ z = [conn[c] EXCEPT !.rsp = None] \/ z = [conn[c] EXCEPT !.req = SpawnReq]
               /\ conn' = [conn EXCEPT ![c] = z]
  BY <1>1, <1>2
<1>5. \A s \in Sessions : HasFd(z, s) => Carries(c, s)
  <2>1. CASE z = [conn[c] EXCEPT !.rsp = None]
    <3>1. z.rsp = None /\ z.req = conn[c].req
      BY <1>3, <2>1 DEF ConnStates
    <3> QED
      BY <3>1 DEF HasFd, Carries
  <2>2. CASE z = [conn[c] EXCEPT !.req = SpawnReq]
    <3>1. z.rsp = conn[c].rsp /\ z.req.fd = None
      BY <1>3, <2>2 DEF ConnStates, SpawnReq
    <3> QED
      BY <3>1, NoneAssumption DEF HasFd, Carries
  <2> QED
    BY <1>4, <2>1, <2>2
<1>6. MessageMove(None, None)
  BY <1>4, <1>5, OneConnection
<1>7. ProxyMove(None, None)
  BY <1>1, ProxyLeft DEF Places
<1> QED
  BY <1>6, <1>7, MgrHolders, NoNewHolder DEF Move

-----------------------------------------------------------------------------
(***************************************************************************)
(* Every step keeps the holder unique.                                     *)
(***************************************************************************)
LEMMA ExclusiveStep ==
    ASSUME CommInv, Exclusive, [Next]_vars
    PROVE  Exclusive'
<1>1. CASE MgrNext /\ UNCHANGED workerVars
  <2>1. ASSUME NEW s \in Sessions, SpawnFork(s) PROVE Exclusive'
    BY <1>1, <2>1, ForkHandsOn, HandedOn
  <2>2. CASE SpawnStarted
    BY <1>1, <2>2, StartedHandsOn, HandedOn
  <2>3. CASE ResumeReply
    BY <1>1, <2>3, ResumeReplyHandsOn, HandedOn
  <2>4. CASE ResumeTake
    BY <1>1, <2>4, ResumeTakeHandsOn, HandedOn
  <2>5. CASE handle_suspend
    BY <1>1, <2>5, SuspendHandsOn, HandedOn
  <2>6. CASE EndClient
    BY <1>1, <2>6, EndHandsOn, HandedOn, NoNewHolder
  <2> QED
    BY <1>1, <2>1, <2>2, <2>3, <2>4, <2>5, <2>6, AuthExclusive, RefusalExclusive,
       AcceptExclusive, OtherExclusive DEF MgrNext, MgrStep
<1>2. ASSUME NEW w \in Workers, WorkerStep(w) \/ Killed(w), UNCHANGED mgrVars
      PROVE  Exclusive'
  <2>1. CASE rdp_sessmgr_suspend(w)
    BY <1>2, <2>1, SuspendCallHandsOn, HandedOn
  <2>2. CASE Resumed(w) \/ Spawned(w)
    BY <1>2, <2>2, AttachHandsOn, HandedOn
  <2> QED
    BY <1>2, <2>1, <2>2, OpenExclusive, LeavingExclusive, TalkExclusive DEF WorkerStep
<1>3. CASE \E s \in Sessions : SessionExits(s)
  BY <1>3, OtherExclusive DEF SessionExits
<1>4. CASE UNCHANGED vars
  BY <1>4, OtherExclusive DEF vars
<1> QED
  BY <1>1, <1>2, <1>3, <1>4 DEF Next, Finished

(***************************************************************************)
(* At the start every session is still to be forked.                       *)
(***************************************************************************)
LEMMA InitExclusive == Init => Exclusive
<1> SUFFICES ASSUME Init PROVE Exclusive
  OBVIOUS
<1>1. FreeConn.req = None /\ FreeConn.rsp = None /\ ~NoSlot.in_use
  BY DEF FreeConn, NoSlot
<1>2. ASSUME NEW s \in Sessions, NEW x \in Holders(s)
      PROVE  x = <<"unborn", None>>
  BY SMTT(60), <1>1, <1>2, HoldersAre, NoneAssumption
     DEF Init, ProtoInit, MgrInit, WorkerInit, Carries, Proxy, Slot
<1> QED
  BY <1>2 DEF Exclusive

(***************************************************************************)
(* The holder of a session that is proxied is the proxy, so it is neither  *)
(* another worker nor a message, a slot or the handler.                    *)
(***************************************************************************)
LEMMA HolderIsSole == CommInv /\ Exclusive => SoleProxy
<1> SUFFICES ASSUME CommInv, Exclusive, NEW w \in Workers, wpc[w] = "proxy"
             PROVE  /\ \A v \in Workers \ {w} :
                         be_fd[v] = be_fd[w] => wpc[v] = "suspend"
                    /\ \A c \in Conns : ~Carries(c, be_fd[w])
                    /\ ~HeldBySlot(be_fd[w])
                    /\ born # be_fd[w]
  BY DEF SoleProxy
<1>1. PICK s \in Sessions : s = be_fd[w] /\ s # None
  BY WorkerFacts, NoneAssumption
<1>2. <<"proxy", w>> \in Holders(s)
  BY <1>1, HoldersAre DEF Proxy
<1>3. \A x \in Holders(s) : x = <<"proxy", w>>
  BY <1>2 DEF Exclusive
<1>4. ASSUME NEW v \in Workers \ {w}, be_fd[v] = s PROVE wpc[v] = "suspend"
  <2>1. wpc[v] \in {"proxy", "suspend"}
    BY <1>1, <1>4, WorkerFacts
  <2>2. wpc[v] # "proxy"
    BY <1>3, <1>4, HoldersAre DEF Proxy
  <2> QED
    BY <2>1, <2>2
<1>5. \A c \in Conns : ~Carries(c, s)
  BY <1>3, HoldersAre
<1>6. ~HeldBySlot(s)
  BY <1>3, HoldersAre DEF HeldBySlot, Slot
<1>7. born # s
  BY <1>3, HoldersAre
<1> QED
  BY <1>1, <1>4, <1>5, <1>6, <1>7

(***************************************************************************)
(* The holder of a session that is suspended is one slot.                  *)
(***************************************************************************)
LEMMA HolderSlot == CommInv /\ Exclusive => SuspendedOnce
<1> SUFFICES ASSUME CommInv, Exclusive, NEW i \in Slots, NEW j \in Slots,
                    suspended[i].in_use, suspended[j].in_use,
                    suspended[i].be_fd = suspended[j].be_fd
             PROVE  i = j
  BY DEF SuspendedOnce
<1>1. PICK s \in Sessions : s = suspended[i].be_fd
  BY DEF CommInv, TypeOK, MgrTypeOK, Holding, SlotStates
<1>2. <<"slot", i>> \in Holders(s) /\ <<"slot", j>> \in Holders(s)
  BY <1>1, HoldersAre DEF Slot
<1> QED
  BY <1>2 DEF Exclusive

-----------------------------------------------------------------------------
(***************************************************************************)
(* The refinement of SessionOwner.  A session has one holder at most, and  *)
(* the holder tells who its owner is.                                      *)
(***************************************************************************)

(***************************************************************************)
(* A message that brings a session to the manager, and one that brings it  *)
(* to a worker.                                                            *)
(***************************************************************************)
Bringing(c, s) == conn[c].req # None /\ conn[c].req.fd = s

Fetching(c, s) == conn[c].rsp # None /\ conn[c].rsp.fd = s

Resuming(c) == mode[conn[c].owner] = "resume"

OwnerSeen(s) ==
    /\ \A w \in Workers : Proxy(s, w) => OwnerOf(s) = Owner!With(w)
    /\ \A i \in Slots : Slot(s, i) => OwnerOf(s) = Owner!Parked(suspended[i].arc_random)
    /\ \A c \in Conns : Bringing(c, s) => OwnerOf(s) = Owner!Parked(conn[c].req.arc)
    /\ \A c \in Conns :
         Fetching(c, s) =>
            OwnerOf(s) = IF Resuming(c) THEN Owner!Parked(presented[conn[c].owner])
                         ELSE Owner!Starting
    /\ born = s =>
         OwnerOf(s) = IF pc = "resume" THEN Owner!Parked(conn[cur].req.arc)
                      ELSE Owner!Starting
    /\ retained_fd = s /\ ~spawn_done => OwnerOf(s) = Owner!Starting
    /\ monitor[s] = "unborn" => OwnerOf(s) = Owner!Unborn
    /\ Holders(s) = {} => OwnerOf(s) = Owner!Lost

(***************************************************************************)
(* The cookies of a session come from its holders.                         *)
(***************************************************************************)
LEMMA CookiesAre ==
    ASSUME NEW s \in Sessions, NEW v
    PROVE  v \in Cookies(s) <=>
             \/ \E i \in Slots : Slot(s, i) /\ v = suspended[i].arc_random
             \/ \E c \in Conns : Bringing(c, s) /\ v = conn[c].req.arc
             \/ \E c \in Conns :
                  Fetching(c, s) /\ Resuming(c) /\ v = presented[conn[c].owner]
             \/ pc = "resume" /\ born = s /\ v = conn[cur].req.arc
  BY DEF Cookies, Slot, Bringing, Fetching, Resuming

(***************************************************************************)
(* OwnerOf, case by case.                                                  *)
(***************************************************************************)
LEMMA OwnerCases ==
    ASSUME NEW s \in Sessions
    PROVE  /\ \A w : w \in Proxies(s) /\ (\A v \in Proxies(s) : v = w)
                => OwnerOf(s) = Owner!With(w)
           /\ \A a : Proxies(s) = {} /\ a \in Cookies(s) /\ (\A v \in Cookies(s) : v = a)
                => OwnerOf(s) = Owner!Parked(a)
           /\ Proxies(s) = {} /\ Cookies(s) = {} /\ BeingSpawned(s)
                => OwnerOf(s) = Owner!Starting
           /\ Proxies(s) = {} /\ Cookies(s) = {} /\ ~BeingSpawned(s) =>
                OwnerOf(s) = IF monitor[s] = "unborn" THEN Owner!Unborn ELSE Owner!Lost
<1>1. ASSUME NEW w, w \in Proxies(s), \A v \in Proxies(s) : v = w
      PROVE  OwnerOf(s) = Owner!With(w)
  <2>1. Proxies(s) # {} /\ (CHOOSE v \in Proxies(s) : TRUE) = w
    BY <1>1
  <2> QED
    BY <2>1 DEF OwnerOf, Owner!With
<1>2. ASSUME NEW a, Proxies(s) = {}, a \in Cookies(s), \A v \in Cookies(s) : v = a
      PROVE  OwnerOf(s) = Owner!Parked(a)
  <2>1. Cookies(s) # {} /\ (CHOOSE v \in Cookies(s) : TRUE) = a
    BY <1>2
  <2> QED
    BY <1>2, <2>1 DEF OwnerOf, Owner!Parked
<1>3. Proxies(s) = {} /\ Cookies(s) = {} /\ BeingSpawned(s) => OwnerOf(s) = Owner!Starting
  BY DEF OwnerOf, Owner!Starting
<1>4. Proxies(s) = {} /\ Cookies(s) = {} /\ ~BeingSpawned(s) =>
        OwnerOf(s) = IF monitor[s] = "unborn" THEN Owner!Unborn ELSE Owner!Lost
  BY DEF OwnerOf, Owner!Unborn, Owner!Lost
<1> QED
  BY <1>1, <1>2, <1>3, <1>4

(***************************************************************************)
(* The one holder of a session rules the others out.                       *)
(***************************************************************************)
LEMMA OnlyHolder ==
    ASSUME Exclusive, NEW s \in Sessions, NEW x \in Holders(s)
    PROVE  /\ \A w \in Workers : Proxy(s, w) => x = <<"proxy", w>>
           /\ \A c \in Conns : Carries(c, s) => x = <<"message", c>>
           /\ \A i \in Slots : Slot(s, i) => x = <<"slot", i>>
           /\ born = s => x = <<"handler", None>>
           /\ retained_fd = s /\ ~spawn_done => x = <<"unanswered", None>>
           /\ monitor[s] = "unborn" => x = <<"unborn", None>>
<1>1. \A y \in Holders(s) : x = y
  BY DEF Exclusive
<1>2. /\ \A w \in Workers : Proxy(s, w) => <<"proxy", w>> \in Holders(s)
      /\ \A c \in Conns : Carries(c, s) => <<"message", c>> \in Holders(s)
      /\ \A i \in Slots : Slot(s, i) => <<"slot", i>> \in Holders(s)
  BY HoldersAre
<1>3. /\ born = s => <<"handler", None>> \in Holders(s)
      /\ retained_fd = s /\ ~spawn_done => <<"unanswered", None>> \in Holders(s)
      /\ monitor[s] = "unborn" => <<"unborn", None>> \in Holders(s)
  BY HoldersAre
<1> QED
  BY <1>1, <1>2, <1>3

(***************************************************************************)
(* What the one holder says about the owner.                               *)
(***************************************************************************)
LEMMA HolderTells ==
    ASSUME CommInv, Exclusive, NEW s \in Sessions
    PROVE  OwnerSeen(s)
<1>1. ASSUME NEW w \in Workers, Proxy(s, w) PROVE OwnerOf(s) = Owner!With(w)
  <2>1. <<"proxy", w>> \in Holders(s)
    BY <1>1, HoldersAre
  <2>2. w \in Proxies(s) /\ \A v \in Proxies(s) : v = w
    BY <1>1, <2>1, OnlyHolder DEF Proxies, Proxy
  <2> QED
    BY <2>2, OwnerCases
<1>2. ASSUME NEW x \in Holders(s), \A w \in Workers : x # <<"proxy", w>>
      PROVE  Proxies(s) = {}
  BY <1>2, OnlyHolder DEF Proxies, Proxy
<1>3. \A c \in Conns : Carries(c, s) <=> Bringing(c, s) \/ Fetching(c, s)
  BY DEF Carries, Bringing, Fetching
<1>4. \A c \in Conns : ~(Bringing(c, s) /\ Fetching(c, s))
  BY DEF CommInv, Links, ConnShape, Bringing, Fetching
<1>5. ASSUME NEW i \in Slots, Slot(s, i)
      PROVE  OwnerOf(s) = Owner!Parked(suspended[i].arc_random)
  <2>1. <<"slot", i>> \in Holders(s)
    BY <1>5, HoldersAre
  <2>2. Proxies(s) = {}
    BY <1>2, <2>1
  <2>3. /\ suspended[i].arc_random \in Cookies(s)
        /\ \A v \in Cookies(s) : v = suspended[i].arc_random
    BY SMTT(60), <1>3, <1>5, <2>1, OnlyHolder, CookiesAre
  <2> QED
    BY <2>2, <2>3, OwnerCases
<1>6. ASSUME NEW c \in Conns, Bringing(c, s)
      PROVE  OwnerOf(s) = Owner!Parked(conn[c].req.arc)
  <2>1. <<"message", c>> \in Holders(s)
    BY <1>3, <1>6, HoldersAre
  <2>2. Proxies(s) = {}
    BY <1>2, <2>1
  <2>3. \A d \in Conns : Carries(d, s) => d = c
    BY <2>1, OnlyHolder
  <2>4. (\A i \in Slots : ~Slot(s, i)) /\ born # s
    BY <2>1, OnlyHolder
  <2>5. conn[c].req.arc \in Cookies(s) /\ \A v \in Cookies(s) : v = conn[c].req.arc
    BY <1>3, <1>4, <1>6, <2>3, <2>4, CookiesAre
  <2> QED
    BY <2>2, <2>5, OwnerCases
<1>7. ASSUME NEW c \in Conns, Fetching(c, s)
      PROVE  OwnerOf(s) = IF Resuming(c) THEN Owner!Parked(presented[conn[c].owner])
                          ELSE Owner!Starting
  <2>1. <<"message", c>> \in Holders(s)
    BY <1>3, <1>7, HoldersAre
  <2>2. Proxies(s) = {}
    BY <1>2, <2>1
  <2>3. \A d \in Conns : Carries(d, s) => d = c
    BY <2>1, OnlyHolder
  <2>4. (\A i \in Slots : ~Slot(s, i)) /\ born # s
    BY <2>1, OnlyHolder
  <2>5. CASE Resuming(c)
    <3>1. /\ presented[conn[c].owner] \in Cookies(s)
          /\ \A v \in Cookies(s) : v = presented[conn[c].owner]
      BY <1>3, <1>4, <1>7, <2>3, <2>4, <2>5, CookiesAre
    <3> QED
      BY <2>2, <2>5, <3>1, OwnerCases
  <2>6. CASE ~Resuming(c)
    <3>1. Cookies(s) = {}
      BY SMTT(60), <1>3, <1>4, <1>7, <2>3, <2>4, <2>6, CookiesAre
    <3>2. BeingSpawned(s)
      BY <1>7 DEF BeingSpawned, Fetching
    <3> QED
      BY <2>2, <2>6, <3>1, <3>2, OwnerCases
  <2> QED
    BY <2>5, <2>6
<1>8. ASSUME born = s
      PROVE  OwnerOf(s) = IF pc = "resume" THEN Owner!Parked(conn[cur].req.arc)
                          ELSE Owner!Starting
  <2>1. <<"handler", None>> \in Holders(s)
    BY <1>8, HoldersAre
  <2>2. Proxies(s) = {}
    BY <1>2, <2>1
  <2>3. (\A d \in Conns : ~Carries(d, s)) /\ (\A i \in Slots : ~Slot(s, i))
    BY <2>1, OnlyHolder
  <2>4. CASE pc = "resume"
    <3>1. conn[cur].req.arc \in Cookies(s) /\ \A v \in Cookies(s) : v = conn[cur].req.arc
      BY SMTT(60), <1>3, <1>8, <2>3, <2>4, CookiesAre
    <3> QED
      BY <2>2, <2>4, <3>1, OwnerCases
  <2>5. CASE pc # "resume"
    <3>1. Cookies(s) = {} /\ BeingSpawned(s)
      BY <1>3, <1>8, <2>3, <2>5, CookiesAre DEF BeingSpawned
    <3> QED
      BY <2>2, <2>5, <3>1, OwnerCases
  <2> QED
    BY <2>4, <2>5
<1>9. ASSUME NEW x, Holders(s) = {} \/ x \in Holders(s),
             x \in {<<"unanswered", None>>, <<"unborn", None>>}
      PROVE  /\ Proxies(s) = {} /\ Cookies(s) = {}
             /\ BeingSpawned(s) <=> retained_fd = s /\ ~spawn_done
  <2>1. /\ \A w \in Workers : ~Proxy(s, w)
        /\ \A d \in Conns : ~Carries(d, s)
        /\ \A i \in Slots : ~Slot(s, i)
        /\ born # s
    <3>1. CASE Holders(s) = {}
      BY <3>1, HoldersAre
    <3>2. CASE x \in Holders(s)
      BY SMTT(60), <1>9, <3>2, OnlyHolder
    <3> QED
      BY <1>9, <3>1, <3>2
  <2> QED
    BY <1>3, <2>1, CookiesAre DEF Proxies, Proxy, BeingSpawned, Fetching
<1>10. retained_fd = s /\ ~spawn_done => OwnerOf(s) = Owner!Starting
  <2> SUFFICES ASSUME retained_fd = s, ~spawn_done PROVE OwnerOf(s) = Owner!Starting
    OBVIOUS
  <2>1. <<"unanswered", None>> \in Holders(s)
    BY HoldersAre
  <2> QED
    BY <1>9, <2>1, OwnerCases
<1>11. monitor[s] = "unborn" => OwnerOf(s) = Owner!Unborn
  <2> SUFFICES ASSUME monitor[s] = "unborn" PROVE OwnerOf(s) = Owner!Unborn
    OBVIOUS
  <2>1. <<"unborn", None>> \in Holders(s)
    BY HoldersAre
  <2>2. ~(retained_fd = s /\ ~spawn_done)
    BY <2>1, OnlyHolder
  <2> QED
    BY <1>9, <2>1, <2>2, OwnerCases
<1>12. Holders(s) = {} => OwnerOf(s) = Owner!Lost
  <2> SUFFICES ASSUME Holders(s) = {} PROVE OwnerOf(s) = Owner!Lost
    OBVIOUS
  <2>1. ~(retained_fd = s /\ ~spawn_done) /\ monitor[s] # "unborn"
    BY HoldersAre
  <2> QED
    BY <1>9, <2>1, OwnerCases
<1> QED
  BY <1>1, <1>5, <1>6, <1>7, <1>8, <1>10, <1>11, <1>12 DEF OwnerSeen

(***************************************************************************)
(* So it is in every state, before a step and after it.                    *)
(***************************************************************************)
OwnersSeen == \A s \in Sessions : OwnerSeen(s)

(***************************************************************************)
(* In every state the holders tell the owners.                             *)
(***************************************************************************)
LEMMA HoldersTell == CommInv /\ Exclusive => OwnersSeen
  BY HolderTells DEF OwnersSeen

(***************************************************************************)
(* After a step they do as well.                                           *)
(***************************************************************************)
LEMMA HoldersTellNext == CommInv' /\ Exclusive' => OwnersSeen'
  BY HoldersTell, PTL

(***************************************************************************)
(* A step that is steady but for session t: whoever holds another session  *)
(* after the step held it before, under the same cookie.                   *)
(***************************************************************************)
SteadyProxies(t) ==
    \A s \in Sessions \ {t}, w \in Workers : Proxy(s, w)' => Proxy(s, w)

SteadySlots(t) ==
    \A s \in Sessions \ {t}, i \in Slots :
        Slot(s, i)' => Slot(s, i) /\ suspended'[i].arc_random = suspended[i].arc_random

SteadyMessages(t) ==
    \A s \in Sessions \ {t}, c \in Conns :
        /\ Bringing(c, s)' => Bringing(c, s) /\ conn'[c].req.arc = conn[c].req.arc
        /\ Fetching(c, s)' => /\ Fetching(c, s)
                              /\ Resuming(c)' <=> Resuming(c)
                              /\ presented'[conn'[c].owner] = presented[conn[c].owner]

SteadyHandler(t) ==
    \A s \in Sessions \ {t} :
        born' = s => /\ born = s
                     /\ pc' = "resume" <=> pc = "resume"
                     /\ pc = "resume" => conn'[cur'].req.arc = conn[cur].req.arc

SteadyRest(t) ==
    \A s \in Sessions \ {t} :
        /\ retained_fd' = s /\ ~spawn_done' => retained_fd = s /\ ~spawn_done
        /\ monitor'[s] = "unborn" => monitor[s] = "unborn"

Steady(t) ==
    /\ SteadyProxies(t) /\ SteadySlots(t) /\ SteadyMessages(t)
    /\ SteadyHandler(t) /\ SteadyRest(t)

(***************************************************************************)
(* A steady step leaves a session with its owner or loses it.              *)
(***************************************************************************)
LEMMA SteadyKeeps ==
    ASSUME OwnersSeen, OwnersSeen', NEW t, Steady(t), NEW s \in Sessions \ {t}
    PROVE  OwnerOf(s)' = OwnerOf(s) \/ OwnerOf(s)' = Owner!Lost
<1>1. OwnerSeen(s) /\ OwnerSeen(s)'
  BY DEF OwnersSeen
<1>2. CASE Holders(s)' = {}
  BY <1>1, <1>2 DEF OwnerSeen, Owner!Lost
<1>3. ASSUME NEW w \in Workers, Proxy(s, w)' PROVE OwnerOf(s)' = OwnerOf(s)
  <2>1. Proxy(s, w)
    BY <1>3 DEF Steady, SteadyProxies
  <2> QED
    BY <1>1, <1>3, <2>1 DEF OwnerSeen, Owner!With
<1>4. ASSUME NEW i \in Slots, Slot(s, i)' PROVE OwnerOf(s)' = OwnerOf(s)
  <2>1. Slot(s, i) /\ suspended'[i].arc_random = suspended[i].arc_random
    BY <1>4 DEF Steady, SteadySlots
  <2> QED
    BY <1>1, <1>4, <2>1 DEF OwnerSeen, Owner!Parked
<1>5. ASSUME NEW c \in Conns, Bringing(c, s)' PROVE OwnerOf(s)' = OwnerOf(s)
  <2>1. Bringing(c, s) /\ conn'[c].req.arc = conn[c].req.arc
    BY <1>5 DEF Steady, SteadyMessages
  <2> QED
    BY <1>1, <1>5, <2>1 DEF OwnerSeen, Owner!Parked
<1>6. ASSUME NEW c \in Conns, Fetching(c, s)' PROVE OwnerOf(s)' = OwnerOf(s)
  <2>1. /\ Fetching(c, s)
        /\ Resuming(c)' <=> Resuming(c)
        /\ presented'[conn'[c].owner] = presented[conn[c].owner]
    BY <1>6 DEF Steady, SteadyMessages
  <2> QED
    BY SMTT(60), <1>1, <1>6, <2>1 DEF OwnerSeen, Owner!Parked, Owner!Starting
<1>7. CASE born' = s
  <2>1. /\ born = s
        /\ pc' = "resume" <=> pc = "resume"
        /\ pc = "resume" => conn'[cur'].req.arc = conn[cur].req.arc
    BY <1>7 DEF Steady, SteadyHandler
  <2> QED
    BY <1>1, <1>7, <2>1 DEF OwnerSeen, Owner!Parked, Owner!Starting
<1>8. CASE retained_fd' = s /\ ~spawn_done'
  <2>1. retained_fd = s /\ ~spawn_done
    BY <1>8, Zenon DEF Steady, SteadyRest
  <2> QED
    BY <1>1, <1>8, <2>1, Zenon DEF OwnerSeen, Owner!Starting
<1>9. CASE monitor'[s] = "unborn"
  BY <1>1, <1>9 DEF Steady, SteadyRest, OwnerSeen, Owner!Unborn
<1>10. ASSUME NEW c \in Conns, Carries(c, s)' PROVE Bringing(c, s)' \/ Fetching(c, s)'
  BY <1>10 DEF Carries, Bringing, Fetching
<1> QED
  BY <1>2, <1>3, <1>4, <1>5, <1>6, <1>7, <1>8, <1>9, <1>10, HoldersAreNext

(***************************************************************************)
(* What may become of a session in a step, as SessionOwner has it.         *)
(***************************************************************************)
Passes(s) ==
    \/ OwnerOf(s)' = OwnerOf(s)
    \/ OwnerOf(s)' = Owner!Lost
    \/ OwnerOf(s) = Owner!Unborn /\ OwnerOf(s)' = Owner!Starting
    \/ OwnerOf(s) = Owner!Starting /\ OwnerOf(s)' = Owner!Parked(None)
    \/ \E w \in Workers :
         \/ OwnerOf(s) = Owner!Starting /\ OwnerOf(s)' = Owner!With(w)
         \/ OwnerOf(s) = Owner!With(w) /\ OwnerOf(s)' = Owner!Parked(w)
         \/ /\ presented[w] # None
            /\ OwnerOf(s) = Owner!Parked(presented[w])
            /\ OwnerOf(s)' = Owner!With(w)

(***************************************************************************)
(* It is a Change of SessionOwner.                                         *)
(***************************************************************************)
LEMMA PassesIsChange ==
    ASSUME NEW s \in Sessions, Passes(s)
    PROVE  Owner!Change(s)
  BY DEF Passes, Owner!Change, Owner!Start, Owner!Orphan, Owner!Attach, Owner!Park,
         Owner!Resume, Owner!Lose

(***************************************************************************)
(* A step that is steady but for t, and passes t on as it should.          *)
(***************************************************************************)
LEMMA AllPass ==
    ASSUME OwnersSeen, OwnersSeen', NEW t, Steady(t), t \in Sessions => Passes(t)
    PROVE  \A s \in Sessions : Passes(s)
  BY SteadyKeeps DEF Passes

-----------------------------------------------------------------------------
(***************************************************************************)
(* What is steady in a step that leaves something alone or lets go of it.  *)
(***************************************************************************)
LEMMA SteadyFrames ==
    ASSUME NEW t
    PROVE  /\ UNCHANGED <<wpc, be_fd>> => SteadyProxies(t)
           /\ UNCHANGED suspended => SteadySlots(t)
           /\ UNCHANGED <<conn, mode, presented>> => SteadyMessages(t)
           /\ UNCHANGED <<born, pc, conn, cur>> => SteadyHandler(t)
           /\ born' \in {None, t} => SteadyHandler(t)
           /\ NoneUnborn /\ (\E b : UnansweredMove(t, b)) => SteadyRest(t)
<1>1. UNCHANGED <<wpc, be_fd>> => SteadyProxies(t)
  BY DEF SteadyProxies, Proxy
<1>2. UNCHANGED suspended => SteadySlots(t)
  BY DEF SteadySlots, Slot
<1>3. UNCHANGED <<conn, mode, presented>> => SteadyMessages(t)
  BY DEF SteadyMessages, Bringing, Fetching, Resuming
<1>4. UNCHANGED <<born, pc, conn, cur>> => SteadyHandler(t)
  BY DEF SteadyHandler
<1>5. born' \in {None, t} => SteadyHandler(t)
  BY NoneAssumption DEF SteadyHandler
<1>6. NoneUnborn /\ (\E b : UnansweredMove(t, b)) => SteadyRest(t)
  BY DEF NoneUnborn, UnansweredMove, SteadyRest
<1> QED
  BY <1>1, <1>2, <1>3, <1>4, <1>5, <1>6

(***************************************************************************)
(* A sweep, and storing t or taking it out after the sweep, leave the      *)
(* other slots as they are or empty them.                                  *)
(***************************************************************************)
LEMMA SteadySweep ==
    ASSUME CommInv, NEW t,
           \A i \in Slots :
             suspended'[i] = Swept[i] \/ (suspended'[i].in_use => suspended'[i].be_fd = t)
    PROVE  SteadySlots(t)
<1>1. \A i \in Slots : Swept[i].in_use => suspended[i].in_use /\ Swept[i] = suspended[i]
  BY SweptShape DEF CommInv, TypeOK, MgrTypeOK
<1> QED
  BY <1>1 DEF SteadySlots, Slot

(***************************************************************************)
(* The manager changes one connection: it drops messages, keeps them or    *)
(* sends t.                                                                *)
(***************************************************************************)
LEMMA SteadyConn ==
    ASSUME CommInv, UNCHANGED workerVars, NEW t, NEW c \in Conns, NEW z,
           conn' = [conn EXCEPT ![c] = z],
           z.req = None \/ z.req = conn[c].req,
           \/ z.rsp = None
           \/ z.rsp = conn[c].rsp /\ z.owner = conn[c].owner
           \/ z.rsp.fd \in {None, t}
    PROVE  SteadyMessages(t)
<1>1. conn'[c] = z /\ \A d \in Conns \ {c} : conn'[d] = conn[d]
  BY DEF CommInv, TypeOK, ProtoTypeOK
<1>2. UNCHANGED <<mode, presented>>
  BY DEF workerVars
<1>3. ASSUME NEW s \in Sessions \ {t}, NEW d \in Conns, Bringing(d, s)'
      PROVE  Bringing(d, s) /\ conn'[d].req.arc = conn[d].req.arc
  BY <1>1, <1>3 DEF Bringing
<1>4. ASSUME NEW s \in Sessions \ {t}, NEW d \in Conns, Fetching(d, s)'
      PROVE  Fetching(d, s) /\ conn'[d].owner = conn[d].owner
  BY <1>1, <1>4, NoneAssumption DEF Fetching
<1> QED
  BY <1>2, <1>3, <1>4 DEF SteadyMessages, Resuming

(***************************************************************************)
(* reply() of the manager.                                                 *)
(***************************************************************************)
LEMMA SteadyAnswer ==
    ASSUME CommInv, UNCHANGED workerVars, cur \in Conns, NEW m \in Replies, Answer(m),
           NEW t, m.fd \in {None, t}
    PROVE  /\ SteadyMessages(t)
           /\ conn'[cur].req = None /\ conn'[cur].owner = conn[cur].owner
           /\ conn'[cur].rsp = IF conn[cur].up THEN m ELSE None
<1>0. PICK c \in Conns : c = cur
  OBVIOUS
<1>1. conn \in [Conns -> ConnStates] /\ ConnShape(conn[c]) /\ conn[c].srv = "serving"
  BY <1>0, NoneAssumption DEF CommInv, TypeOK, ProtoTypeOK, Links, Serving
<1>2. PICK z \in ConnStates :
        /\ z = Replied(conn[c], m) /\ z.owner = conn[c].owner
        /\ z.req = None /\ z.rsp = IF conn[c].up THEN m ELSE None
  BY <1>1, RepliedShape
<1>3. conn' = [conn EXCEPT ![c] = z] /\ conn'[c] = z
  BY <1>0, <1>1, <1>2 DEF Answer
<1>4. SteadyMessages(t)
  BY <1>2, <1>3, SteadyConn
<1> QED
  BY <1>0, <1>2, <1>3, <1>4

-----------------------------------------------------------------------------
(***************************************************************************)
(* The manager's steps that pass nothing on.                               *)
(***************************************************************************)
LEMMA QuietSteady ==
    ASSUME CommInv, UNCHANGED workerVars,
           \/ ClientLeaves \/ SpawnRecord \/ on_sigchld \/ Clock \/ AuthBegin
           \/ \E s \in Sessions : MonitorStep(s) \/ SessionExits(s)
           \/ UNCHANGED vars
    PROVE  Steady(None)
<1>1. UNCHANGED <<retained_fd, spawn_done, born, suspended, conn, cur, wpc, be_fd,
                  mode, presented>>
  BY DEF ClientLeaves, SpawnRecord, on_sigchld, Clock, AuthBegin, MonitorStep, MonitorFails,
         MonitorStarts, MonitorExits, SessionExits, vars, mgrVars, workerVars,
         clientVars, slotVars, monitorVars, protoVars
<1>2. \/ UNCHANGED pc \/ pc = "poll"
      \/ (pc = "record" /\ pc' = "status")
  BY DEF ClientLeaves, SpawnRecord, on_sigchld, Clock, AuthBegin, Received, MonitorStep,
         MonitorFails, MonitorStarts, MonitorExits, SessionExits, vars, mgrVars
<1>3. SteadyHandler(None)
  <2>1. pc = "poll" => born = None
    BY DEF CommInv, Serving
  <2> QED
    BY <1>1, <1>2, <2>1, NoneAssumption DEF SteadyHandler
<1>4. monitor \in [Sessions -> {"unborn", "opening", "waiting", "zombie", "reaped"}]
  BY DEF CommInv, TypeOK, MgrTypeOK
<1>5. \/ UNCHANGED monitor
      \/ monitor' = [s \in Sessions |-> IF s \in Zombies THEN "reaped" ELSE monitor[s]]
      \/ \E s \in Sessions : \E z \in {"waiting", "zombie"} :
           monitor' = [monitor EXCEPT ![s] = z]
  BY DEF ClientLeaves, SpawnRecord, on_sigchld, Clock, AuthBegin, MonitorStep, MonitorFails,
         MonitorStarts, MonitorExits, ChildExits, SessionExits, vars, mgrVars, monitorVars
<1>6. NoneUnborn
  BY <1>4, <1>5 DEF NoneUnborn
<1>7. UnansweredMove(None, None)
  BY <1>1, Frames
<1> QED
  BY <1>1, <1>3, <1>6, <1>7, SteadyFrames DEF Steady

(***************************************************************************)
(* accept, and the answers without a session.                              *)
(***************************************************************************)
LEMMA AcceptSteady ==
    ASSUME CommInv, accept, UNCHANGED workerVars
    PROVE  Steady(None)
<1>1. /\ UNCHANGED <<retained_fd, spawn_done, born, suspended, monitor, wpc, be_fd>>
      /\ backlog # <<>> /\ pc = "accept"
      /\ conn' = [conn EXCEPT ![Head(backlog)].srv = "serving"]
  BY DEF accept, workerVars, slotVars, monitorVars
<1>2. PICK c \in Conns : c = Head(backlog)
  BY SMTT(60), <1>1 DEF CommInv, TypeOK, ProtoTypeOK
<1>3. conn[c] \in ConnStates
  BY DEF CommInv, TypeOK, ProtoTypeOK
<1>4. PICK z : z = [conn[c] EXCEPT !.srv = "serving"]
  OBVIOUS
<1>5. z.req = conn[c].req /\ z.rsp = conn[c].rsp /\ z.owner = conn[c].owner
  BY <1>3, <1>4 DEF ConnStates
<1>6. conn' = [conn EXCEPT ![c] = z]
  BY <1>1, <1>2, <1>4
<1>7. SteadyMessages(None)
  BY <1>5, <1>6, SteadyConn
<1>8. born' = None
  BY <1>1 DEF CommInv, Serving
<1>9. NoneUnborn /\ UnansweredMove(None, None)
  BY <1>1, Frames
<1> QED
  BY <1>1, <1>7, <1>8, <1>9, SteadyFrames DEF Steady

(***************************************************************************)
(* The refusals and the other answers that carry no descriptor.            *)
(***************************************************************************)
LEMMA RefusalSteady ==
    ASSUME CommInv, UNCHANGED workerVars,
           \/ AuthThrottled \/ AuthAccepts \/ AuthRefuses
           \/ SpawnRefused \/ SpawnFailed \/ ResumeRefused
    PROVE  Steady(None)
<1>0. spawn_done => spawn_done'
  BY Zenon DEF AuthThrottled, AuthAccepts, AuthRefuses, SpawnRefused, SpawnFailed,
         ResumeRefused, clientVars
<1>1. /\ UNCHANGED <<retained_fd, monitor, wpc, be_fd>>
      /\ born' = born \/ born' = None
      /\ suspended' = suspended \/ suspended' = Swept
      /\ Answer(Refusal) \/ Answer(Success(None))
  BY DEF AuthThrottled, AuthAccepts, AuthRefuses, SpawnRefused, SpawnFailed, ResumeRefused,
         workerVars, clientVars, slotVars, monitorVars
<1>2. cur \in Conns
  BY ReceivedFacts, WorkingFacts DEF AuthThrottled, AuthAccepts, AuthRefuses, SpawnRefused,
         SpawnFailed, ResumeRefused, CommInv, Serving
<1>3. born' = None
  <2>1. pc \in {"poll", "auth"} \/ SpawnFailed
    BY DEF AuthThrottled, AuthAccepts, AuthRefuses, SpawnRefused, ResumeRefused, Received
  <2>2. pc \in {"poll", "auth"} => born = None
    BY DEF CommInv, Serving
  <2> QED
    BY <1>1, <2>1, <2>2 DEF SpawnFailed
<1>4. /\ Refusal \in Replies /\ Refusal.fd = None
      /\ Success(None) \in Replies /\ Success(None).fd = None
  BY ReplyShapes DEF Refusal, Success
<1>5. SteadyMessages(None)
  BY <1>1, <1>2, <1>4, SteadyAnswer
<1>6. SteadySlots(None)
  BY <1>1, SteadyFrames, SteadySweep
<1>7. NoneUnborn /\ UnansweredMove(None, None)
  BY <1>0, <1>1, Frames, Dropped
<1> QED
  BY <1>1, <1>3, <1>5, <1>6, <1>7, SteadyFrames DEF Steady

-----------------------------------------------------------------------------
(***************************************************************************)
(* The manager's steps that pass a session on.  SpawnFork: the session is  *)
(* born and starting.                                                      *)
(***************************************************************************)
LEMMA ForkPasses ==
    ASSUME CommInv, OwnersSeen, OwnersSeen', NEW s \in Sessions, SpawnFork(s),
           UNCHANGED workerVars
    PROVE  Steady(s) /\ Passes(s)
<1>1. /\ UNCHANGED <<retained_fd, spawn_done, suspended, conn, wpc, be_fd, mode, presented>>
      /\ monitor[s] = "unborn" /\ born' = s /\ pc' = "record"
      /\ monitor' = [monitor EXCEPT ![s] = "opening"]
  BY DEF SpawnFork, workerVars, slotVars, protoVars
<1>2. NoneUnborn
  BY <1>1 DEF NoneUnborn, CommInv, TypeOK, MgrTypeOK
<1>3. UnansweredMove(s, None)
  BY <1>1, Frames
<1>4. Steady(s)
  BY <1>1, <1>2, <1>3, SteadyFrames DEF Steady
<1>5. OwnerOf(s) = Owner!Unborn
  BY <1>1 DEF OwnersSeen, OwnerSeen
<1>6. OwnerOf(s)' = Owner!Starting
  BY <1>1 DEF OwnersSeen, OwnerSeen, Owner!Starting
<1> QED
  BY <1>4, <1>5, <1>6 DEF Passes

(***************************************************************************)
(* SpawnStarted: the session is still starting, on its way to a worker on  *)
(* a login path or kept for want of one; or it is lost.                    *)
(***************************************************************************)
LEMMA StartedPasses ==
    ASSUME CommInv, CookieInv, Exclusive, OwnersSeen, OwnersSeen', SpawnStarted,
           UNCHANGED workerVars
    PROVE  \E t \in Sessions : Steady(t) /\ Passes(t)
<1>1. /\ UNCHANGED <<suspended, monitor, wpc, be_fd, mode>>
      /\ pc = "status" /\ retained_fd' = born /\ born' = None /\ Answer(Success(born))
  BY DEF SpawnStarted, workerVars, slotVars, monitorVars
<1>2. PICK s \in Sessions, c \in Conns :
        /\ s = born /\ c = cur
        /\ \E b \in {<<"message", c>>, <<"unanswered", None>>} :
             HandsOn(s, <<"handler", None>>, b)
  BY StartedHandsOn
<1>3. PICK b \in {<<"message", c>>, <<"unanswered", None>>} :
        HandsOn(s, <<"handler", None>>, b)
  BY <1>2
<1>4. Success(s) \in Replies /\ Success(s).fd = s
  BY ReplyShapes DEF Success
<1>5. /\ SteadyMessages(s) /\ conn'[c].req = None /\ conn'[c].owner = conn[c].owner
      /\ conn'[c].rsp # None => conn[c].up
  BY SMTT(60), <1>1, <1>2, <1>4, SteadyAnswer
<1>6. Steady(s)
  <2>1. NoneUnborn /\ UnansweredMove(s, b)
    BY <1>3 DEF HandsOn, Move
  <2> QED
    BY <1>1, <1>5, <2>1, SteadyFrames DEF Steady
<1>7. OwnerOf(s) = Owner!Starting
  BY <1>1, <1>2 DEF OwnersSeen, OwnerSeen
<1>8. \A x \in Holders(s)' : x = b
  BY <1>3, HandedOn
<1>9. ASSUME Holders(s)' = {} PROVE Passes(s)
  BY <1>9 DEF OwnersSeen, OwnerSeen, Passes, Owner!Lost
<1>10. ASSUME <<"message", c>> \in Holders(s)' PROVE Passes(s)
  <2>1. Carries(c, s)'
    BY SMTT(60), <1>10, HoldersAreNext
  <2>2. Fetching(c, s)' /\ conn[c].up
    BY <1>5, <2>1 DEF Carries, Fetching
  <2>3. wpc[conn[c].owner] = "spawn" /\ conn[c].owner \in Workers
    <3>1. Working("SPAWN")
      BY <1>1 DEF CommInv, Serving
    <3>2. conn[c].req # None /\ conn[c].req.op = "SPAWN" /\ conn[c].owner \in Workers
      BY <1>2, <3>1, WorkingFacts
    <3> QED
      BY <2>2, <3>2 DEF CommInv, Dialogue, AsksAt
  <2>4. mode[conn[c].owner] # "resume"
    BY <2>3 DEF CookieInv, IssuedAt
  <2>5. ~Resuming(c)'
    BY <1>1, <1>5, <2>4 DEF Resuming
  <2>6. OwnerOf(s)' = Owner!Starting
    BY <2>2, <2>5 DEF OwnersSeen, OwnerSeen, Owner!Starting
  <2> QED
    BY <1>7, <2>6 DEF Passes, Owner!Starting
<1>11. ASSUME <<"unanswered", None>> \in Holders(s)' PROVE Passes(s)
  <2>1. retained_fd' = s /\ ~spawn_done'
    BY SMTT(60), <1>11, HoldersAreNext
  <2>2. OwnerOf(s)' = Owner!Starting
    BY <2>1, Zenon DEF OwnersSeen, OwnerSeen, Owner!Starting
  <2> QED
    BY <1>7, <2>2 DEF Passes, Owner!Starting
<1>12. Passes(s)
  BY <1>3, <1>8, <1>9, <1>10, <1>11
<1> QED
  BY <1>6, <1>12

(***************************************************************************)
(* A session that is handed on passes as it should if it does so where the *)
(* hand-over succeeds; where it fails the session is lost.                 *)
(***************************************************************************)
LEMMA HandedPasses ==
    ASSUME Exclusive, OwnersSeen', NEW s \in Sessions, NEW a, NEW b, HandsOn(s, a, b),
           b \in Holders(s)' => Passes(s)
    PROVE  Passes(s)
<1>1. \A x \in Holders(s)' : x = b
  BY HandedOn
<1>2. ASSUME Holders(s)' = {} PROVE Passes(s)
  BY <1>2 DEF OwnersSeen, OwnerSeen, Passes, Owner!Lost
<1> QED
  BY <1>1, <1>2

(***************************************************************************)
(* ResumeTake: the session stays parked under the cookie of its slot, in   *)
(* the hands of the handler.                                               *)
(***************************************************************************)
LEMMA TakePasses ==
    ASSUME CommInv, Exclusive, OwnersSeen, OwnersSeen', ResumeTake, UNCHANGED workerVars
    PROVE  \E t \in Sessions : Steady(t) /\ Passes(t)
<1>1. /\ UNCHANGED <<retained_fd, spawn_done, conn, cur, monitor, wpc, be_fd, mode, presented>>
      /\ pc' = "resume"
  BY DEF ResumeTake, workerVars, monitorVars, protoVars
<1>2. PICK s \in Sessions, i \in Slots :
        /\ Slot(s, i) /\ suspended[i].arc_random = conn[cur].req.arc
        /\ HandsOn(s, <<"slot", i>>, <<"handler", None>>)
  BY ResumeTakeHandsOn
<1>3. SteadySlots(s)
  <2>1. PICK j \in Slots : suspended' = [Swept EXCEPT ![j] = NoSlot]
    BY TakenSlot
  <2>2. Swept \in [Slots -> SlotStates]
    BY SweptShape DEF CommInv, TypeOK, MgrTypeOK
  <2>3. \A k \in Slots :
          suspended'[k] = Swept[k] \/ (suspended'[k].in_use => suspended'[k].be_fd = s)
    BY <2>1, <2>2 DEF NoSlot
  <2> QED
    BY <2>3, SteadySweep
<1>4. SteadyHandler(s)
  <2>1. \A u \in Sessions \ {s} : born' # u
    <3>1. HandlerMove(s, <<"handler", None>>) /\ born = None
      BY <1>2 DEF HandsOn, Move, ResumeTake, Received, CommInv, Serving
    <3> QED
      BY <3>1, NoneAssumption DEF HandlerMove
  <2> QED
    BY <2>1 DEF SteadyHandler
<1>5. Steady(s)
  <2>1. NoneUnborn /\ UnansweredMove(s, <<"handler", None>>)
    BY <1>2 DEF HandsOn, Move
  <2> QED
    BY <1>1, <1>3, <1>4, <2>1, SteadyFrames DEF Steady
<1>6. OwnerOf(s) = Owner!Parked(conn[cur].req.arc)
  BY <1>2 DEF OwnersSeen, OwnerSeen
<1>7. ASSUME <<"handler", None>> \in Holders(s)' PROVE Passes(s)
  <2>1. born' = s
    BY SMTT(60), <1>7, HoldersAreNext
  <2>2. OwnerOf(s)' = Owner!Parked(conn[cur].req.arc)
    BY <1>1, <2>1 DEF OwnersSeen, OwnerSeen, Owner!Parked
  <2> QED
    BY <1>6, <2>2 DEF Passes
<1> QED
  BY <1>2, <1>5, <1>7, HandedPasses

(***************************************************************************)
(* ResumeReply: the session stays parked under the cookie its worker was   *)
(* shown, in the answer.                                                   *)
(***************************************************************************)
LEMMA ReplyPasses ==
    ASSUME CommInv, CookieInv, Exclusive, OwnersSeen, OwnersSeen', ResumeReply,
           UNCHANGED workerVars
    PROVE  \E t \in Sessions : Steady(t) /\ Passes(t)
<1>1. /\ UNCHANGED <<retained_fd, spawn_done, suspended, monitor, wpc, be_fd, mode, presented>>
      /\ pc = "resume" /\ born' = None
      /\ Answer(Success(born)) \/ Answer(Refusal)
  BY DEF ResumeReply, workerVars, slotVars, monitorVars
<1>2. PICK s \in Sessions, c \in Conns :
        /\ s = born /\ c = cur
        /\ HandsOn(s, <<"handler", None>>, <<"message", c>>)
  BY ResumeReplyHandsOn
<1>3. /\ Success(s) \in Replies /\ Success(s).fd = s
      /\ Refusal \in Replies /\ Refusal.fd = None
  BY ReplyShapes DEF Success, Refusal
<1>4. /\ SteadyMessages(s) /\ conn'[c].req = None /\ conn'[c].owner = conn[c].owner
      /\ conn'[c].rsp # None => conn[c].up
  BY SMTT(60), <1>1, <1>2, <1>3, SteadyAnswer
<1>5. Steady(s)
  <2>1. NoneUnborn /\ UnansweredMove(s, <<"message", c>>)
    BY <1>2 DEF HandsOn, Move
  <2> QED
    BY <1>1, <1>4, <2>1, SteadyFrames DEF Steady
<1>6. OwnerOf(s) = Owner!Parked(conn[c].req.arc)
  BY <1>1, <1>2 DEF OwnersSeen, OwnerSeen
<1>7. ASSUME <<"message", c>> \in Holders(s)' PROVE Passes(s)
  <2>1. Carries(c, s)'
    BY SMTT(60), <1>7, HoldersAreNext
  <2>2. Fetching(c, s)' /\ conn[c].up
    BY <1>4, <2>1 DEF Carries, Fetching
  <2>3. conn[c].req # None /\ conn[c].req.op = "RESUME" /\ conn[c].owner \in Workers
    <3>1. Working("RESUME")
      BY <1>1 DEF CommInv, Serving
    <3> QED
      BY <1>2, <3>1, WorkingFacts
  <2>4. wpc[conn[c].owner] = "resume"
    BY <2>2, <2>3 DEF CommInv, Dialogue, AsksAt
  <2>5. mode[conn[c].owner] = "resume" /\ conn[c].req.arc = presented[conn[c].owner]
    BY <2>2, <2>3, <2>4 DEF CookieInv, IssuedAt, Asked
  <2>6. OwnerOf(s)' = Owner!Parked(presented[conn[c].owner])
    BY SMTT(60), <1>1, <1>4, <2>2, <2>5 DEF OwnersSeen, OwnerSeen, Resuming, Owner!Parked
  <2> QED
    BY <1>6, <2>5, <2>6 DEF Passes
<1> QED
  BY <1>2, <1>5, <1>7, HandedPasses

(***************************************************************************)
(* Storing a session: only its slot is new, and it has its cookie.         *)
(***************************************************************************)
LEMMA StoreSteady ==
    ASSUME CommInv, NEW s \in Sessions, NEW id \in LogonIds \cup {None}, NEW a \in ArcRandom,
           suspended' = Stored(id, s, a), \A i \in Slots : ~Slot(s, i)
    PROVE  /\ SteadySlots(s)
           /\ \A i \in Slots : Slot(s, i)' => suspended'[i].arc_random = a
<1>1. suspended \in [Slots -> SlotStates] /\ now \in Nat
  BY DEF CommInv, TypeOK, MgrTypeOK
<1>2. /\ Swept \in [Slots -> SlotStates]
      /\ \A i \in Slots : Swept[i].in_use => suspended[i].in_use /\ Swept[i] = suspended[i]
  BY <1>1, SweptShape
<1>3. \A i \in Slots : suspended'[i] = Swept[i] \/ suspended'[i] = NewSlot(id, s, a)
  BY SMTT(60), <1>1, <1>2, StoredShape
<1>4. NewSlot(id, s, a).be_fd = s /\ NewSlot(id, s, a).arc_random = a
  BY DEF NewSlot
<1>5. SteadySlots(s)
  BY <1>3, <1>4, SteadySweep
<1>6. ASSUME NEW i \in Slots, Slot(s, i)' PROVE suspended'[i].arc_random = a
  BY <1>2, <1>3, <1>4, <1>6 DEF Slot
<1> QED
  BY <1>5, <1>6

(***************************************************************************)
(* handle_suspend: the session stays parked under the cookie it was        *)
(* brought with, or is lost.                                               *)
(***************************************************************************)
LEMMA SuspendPasses ==
    ASSUME CommInv, Exclusive, OwnersSeen, OwnersSeen', handle_suspend, UNCHANGED workerVars
    PROVE  \E t \in Sessions : Steady(t) /\ Passes(t)
<1>1. /\ UNCHANGED <<born, monitor, wpc, be_fd, mode, presented>>
      /\ Received("SUSPEND") /\ retained_fd' = None
      /\ suspended' = Stored(conn[cur].req.id, conn[cur].req.fd, conn[cur].req.arc)
      /\ Answer(Success(None)) \/ Answer(Refusal)
  BY DEF handle_suspend, workerVars, monitorVars
<1>2. PICK s \in Sessions, c \in Conns, i \in Slots :
        /\ c = cur /\ s = conn[c].req.fd
        /\ HandsOn(s, <<"message", c>>, <<"slot", i>>)
  BY SuspendHandsOn
<1>3. /\ conn[c].req # None /\ conn[c].req.arc \in ArcRandom
      /\ conn[c].req.id \in LogonIds \cup {None}
  <2>1. conn[c].req # None /\ conn[c].req \in Requests
    BY <1>1, <1>2, ReceivedFacts
  <2> QED
    BY <2>1 DEF Requests
<1>4. \A j \in Slots : ~Slot(s, j)
  <2>1. <<"message", c>> \in Holders(s)
    BY <1>2 DEF HandsOn
  <2> QED
    BY <2>1, OnlyHolder
<1>5. /\ SteadySlots(s)
      /\ \A j \in Slots : Slot(s, j)' => suspended'[j].arc_random = conn[c].req.arc
  <2>1. PICK id \in LogonIds \cup {None}, a \in ArcRandom :
           id = conn[c].req.id /\ a = conn[c].req.arc
    BY <1>3
  <2>2. suspended' = Stored(id, s, a)
    BY <1>1, <1>2, <2>1
  <2>3. /\ SteadySlots(s)
        /\ \A j \in Slots : Slot(s, j)' => suspended'[j].arc_random = a
    BY ZenonT(30), <1>4, <2>2, StoreSteady
  <2> QED
    BY <2>1, <2>3
<1>6. SteadyMessages(s)
  <2>1. /\ Success(None) \in Replies /\ Success(None).fd = None
        /\ Refusal \in Replies /\ Refusal.fd = None
    BY ReplyShapes DEF Success, Refusal
  <2> QED
    BY SMTT(60), <1>1, <1>2, <2>1, SteadyAnswer
<1>7. born' = None
  BY <1>1 DEF Received, CommInv, Serving
<1>8. Steady(s)
  <2>1. NoneUnborn /\ UnansweredMove(s, <<"slot", i>>)
    BY <1>2 DEF HandsOn, Move
  <2> QED
    BY <1>1, <1>5, <1>6, <1>7, <2>1, SteadyFrames DEF Steady
<1>9. OwnerOf(s) = Owner!Parked(conn[c].req.arc)
  BY <1>2, <1>3 DEF OwnersSeen, OwnerSeen, Bringing
<1>10. ASSUME <<"slot", i>> \in Holders(s)' PROVE Passes(s)
  <2>1. Slot(s, i)'
    BY SMTT(60), <1>10, HoldersAreNext
  <2>2. OwnerOf(s)' = Owner!Parked(conn[c].req.arc)
    BY <1>5, <2>1 DEF OwnersSeen, OwnerSeen, Owner!Parked
  <2> QED
    BY <1>9, <2>2 DEF Passes
<1> QED
  BY <1>2, <1>8, <1>10, HandedPasses

(***************************************************************************)
(* EndClient: a session that no worker got word of is parked under no      *)
(* cookie, or lost.                                                        *)
(***************************************************************************)
LEMMA EndPasses ==
    ASSUME CommInv, Exclusive, OwnersSeen, OwnersSeen', EndClient, UNCHANGED workerVars
    PROVE  \E t : Steady(t) /\ (t \in Sessions => Passes(t))
<1>1. /\ UNCHANGED <<born, monitor, wpc, be_fd>>
      /\ pc = "end" /\ retained_fd' = None
      /\ conn' = [conn EXCEPT ![cur] = ClosedByManager(@)]
  BY DEF EndClient, workerVars, monitorVars
<1>2. PICK c \in Conns : c = cur
  BY <1>1 DEF CommInv, Serving, TypeOK, MgrTypeOK
<1>3. conn[c] \in ConnStates /\ ConnShape(conn[c]) /\ conn[c].srv = "serving"
  BY SMTT(60), <1>2, NoneAssumption DEF CommInv, TypeOK, ProtoTypeOK, Links, Serving
<1>4. PICK z \in ConnStates :
        /\ z = ClosedByManager(conn[c]) /\ ConnShape(z)
        /\ z.req = None /\ z.rsp = conn[c].rsp /\ z.up = conn[c].up
        /\ z.up => z.owner = conn[c].owner
  BY <1>3, ClosedByManagerShape
<1>5. conn' = [conn EXCEPT ![c] = z]
  BY <1>1, <1>2, <1>4
<1>6. z.rsp = None \/ z.owner = conn[c].owner
  BY <1>4 DEF ConnShape
<1>7. \A t : SteadyMessages(t)
  BY <1>4, <1>5, <1>6, SteadyConn
<1>8. born' = None
  BY <1>1 DEF CommInv, Serving
<1>9. ASSUME Unanswered PROVE \E t \in Sessions : Steady(t) /\ Passes(t)
  <2>1. PICK s \in Sessions, i \in Slots :
          s = retained_fd /\ HandsOn(s, <<"unanswered", None>>, <<"slot", i>>)
    BY <1>9, EndHandsOn
  <2>2. PICK id \in LogonIds : suspended' = Stored(id, s, None)
    BY <1>9, <2>1 DEF EndClient, auto_suspend
  <2>3. \A j \in Slots : ~Slot(s, j)
    <3>1. <<"unanswered", None>> \in Holders(s)
      BY <2>1 DEF HandsOn
    <3> QED
      BY <3>1, OnlyHolder
  <2>4. SteadySlots(s) /\ \A j \in Slots : Slot(s, j)' => suspended'[j].arc_random = None
    BY <2>2, <2>3, StoreSteady DEF ArcRandom
  <2>5. Steady(s)
    <3>1. NoneUnborn /\ UnansweredMove(s, <<"slot", i>>)
      BY <2>1 DEF HandsOn, Move
    <3> QED
      BY <1>1, <1>7, <1>8, <2>4, <3>1, SteadyFrames DEF Steady
  <2>6. OwnerOf(s) = Owner!Starting
    <3>1. retained_fd = s /\ ~spawn_done
      BY <1>9, <2>1, Zenon DEF Unanswered
    <3> QED
      BY <3>1, Zenon DEF OwnersSeen, OwnerSeen
  <2>7. ASSUME <<"slot", i>> \in Holders(s)' PROVE Passes(s)
    <3>1. Slot(s, i)'
      BY SMTT(60), <2>7, HoldersAreNext
    <3>2. OwnerOf(s)' = Owner!Parked(None)
      BY <2>4, <3>1 DEF OwnersSeen, OwnerSeen, Owner!Parked
    <3> QED
      BY <2>6, <3>2 DEF Passes
  <2> QED
    BY <2>1, <2>5, <2>7, HandedPasses
<1>10. ASSUME ~Unanswered PROVE Steady(None)
  <2>1. UNCHANGED suspended
    BY <1>10 DEF EndClient
  <2>2. NoneUnborn /\ UnansweredMove(None, None)
    BY <1>1, Frames, Dropped
  <2> QED
    BY <1>1, <1>7, <1>8, <2>1, <2>2, SteadyFrames DEF Steady
<1> QED
  BY <1>9, <1>10, NoneAssumption

-----------------------------------------------------------------------------
(***************************************************************************)
(* A worker's step that concerns its own state and its own connection: a   *)
(* reply there is taken off, a request there is kept or new.               *)
(***************************************************************************)
OnlyOf(w) ==
    \A v \in Workers \ {w} :
        /\ wpc'[v] = wpc[v] /\ be_fd'[v] = be_fd[v]
        /\ mode'[v] = mode[v] /\ presented'[v] = presented[v]

OwnConn(w, t) ==
    \A c \in Conns :
        \/ conn'[c] = conn[c] /\ c # wconn[w]
        \/ /\ conn'[c].rsp = None
           /\ \/ conn'[c].req = conn[c].req
              \/ conn[c].req = None /\ conn'[c].req.fd \in {None, t}

(***************************************************************************)
(* Such a step is steady but for the session the worker gets or sends.     *)
(***************************************************************************)
LEMMA WorkerSteady ==
    ASSUME CommInv, NEW w \in Workers, UNCHANGED mgrVars, NEW t, OnlyOf(w), OwnConn(w, t),
           wpc'[w] = "proxy" => be_fd'[w] = t
    PROVE  Steady(t)
<1>1. SteadyProxies(t)
  BY DEF SteadyProxies, Proxy, OnlyOf
<1>2. SteadySlots(t) /\ SteadyRest(t)
  <2>1. UNCHANGED suspended
    BY DEF mgrVars, slotVars
  <2>2. NoneUnborn /\ UnansweredMove(t, None)
    BY MgrHolders
  <2> QED
    BY <2>1, <2>2, SteadyFrames
<1>3. SteadyMessages(t)
  <2>1. ASSUME NEW s \in Sessions \ {t}, NEW c \in Conns, Bringing(c, s)'
        PROVE  Bringing(c, s) /\ conn'[c].req.arc = conn[c].req.arc
    BY <2>1, NoneAssumption DEF Bringing, OwnConn
  <2>2. ASSUME NEW s \in Sessions \ {t}, NEW c \in Conns, Fetching(c, s)'
        PROVE  /\ Fetching(c, s)
               /\ Resuming(c)' <=> Resuming(c)
               /\ presented'[conn'[c].owner] = presented[conn[c].owner]
    <3>1. conn'[c] = conn[c] /\ c # wconn[w]
      BY <2>2 DEF Fetching, OwnConn
    <3>2. Fetching(c, s)
      BY <2>2, <3>1 DEF Fetching
    <3>3. conn[c].up /\ conn[c].owner \in Workers
      BY <3>2 DEF Fetching, CommInv, Links, ConnShape
    <3>4. conn[c].owner # w
      BY <3>1, <3>3 DEF CommInv, Links
    <3> QED
      BY <3>1, <3>2, <3>3, <3>4 DEF OnlyOf, Resuming
  <2> QED
    BY <2>1, <2>2 DEF SteadyMessages
<1>4. SteadyHandler(t)
  <2>1. UNCHANGED <<pc, cur, born>>
    BY MgrQuiet
  <2>2. pc = "resume" => cur \in Conns /\ conn[cur].req # None
    BY WorkingFacts DEF CommInv, Serving
  <2>3. pc = "resume" => conn'[cur].req = conn[cur].req
    BY <2>2 DEF OwnConn
  <2> QED
    BY <2>1, <2>3 DEF SteadyHandler
<1> QED
  BY <1>1, <1>2, <1>3, <1>4 DEF Steady

(***************************************************************************)
(* Connecting concerns a connection that nobody had.                       *)
(***************************************************************************)
LEMMA ConnectOwn ==
    ASSUME CommInv, NEW w \in Workers, NEW c \in Conns, NEW r \in Requests,
           Connect(w, c, r), wpc[w] \notin Connected, NEW t, r.fd \in {None, t}
    PROVE  OwnConn(w, t) /\ conn'[c].req = r
<1>1. wconn[w] = None /\ conn \in [Conns -> ConnStates]
  BY WorkerFacts
<1>2. PICK z : z = [owner |-> w, up |-> TRUE, srv |-> "queued", req |-> r, rsp |-> None]
  OBVIOUS
<1>3. conn'[c] = z /\ \A d \in Conns \ {c} : conn'[d] = conn[d]
  BY <1>1, <1>2 DEF Connect
<1>4. z.req = r /\ z.rsp = None
  BY <1>2
<1>5. conn[c].req = None
  BY SMTT(60) DEF Connect, FreeConn
<1> QED
  BY <1>1, <1>3, <1>4, <1>5, NoneAssumption DEF OwnConn

(***************************************************************************)
(* Closing concerns the worker's own.                                      *)
(***************************************************************************)
LEMMA CloseOwn ==
    ASSUME CommInv, NEW w \in Workers, wconn[w] # None, CloseConn(w), NEW t
    PROVE  OwnConn(w, t)
<1>1. PICK c \in Conns : c = wconn[w]
  BY WorkerFacts
<1>2. /\ conn \in [Conns -> ConnStates] /\ conn[c] \in ConnStates
      /\ ConnShape(conn[c]) /\ conn[c].up
  BY <1>1, NoneAssumption DEF CommInv, TypeOK, ProtoTypeOK, Links
<1>3. PICK z \in ConnStates :
        z = ClosedByWorker(conn[c]) /\ z.rsp = None /\ z.req = conn[c].req
  BY <1>2, ClosedByWorkerShape
<1>4. conn'[c] = z /\ \A d \in Conns \ {c} : conn'[d] = conn[d]
  BY <1>1, <1>2, <1>3 DEF CloseConn
<1> QED
  BY <1>1, <1>3, <1>4 DEF OwnConn

(***************************************************************************)
(* The requests that bring no session.                                     *)
(***************************************************************************)
LEMMA OpenSteady ==
    ASSUME CommInv, NEW w \in Workers, UNCHANGED mgrVars,
           \/ rdp_sessmgr_resume(w)
           \/ \E m \in LoginPaths \cup {"greeter"}, u \in Users :
                rdp_sessmgr_open_auth(w, m, u)
    PROVE  Steady(None)
<1>1. PICK c \in Conns, r \in Requests : Connect(w, c, r) /\ r.fd = None
  <2>1. CASE rdp_sessmgr_resume(w)
    <3>1. PICK c \in Conns, id \in LogonIds, v \in Workers :
            Connect(w, c, ResumeReq(id, v))
      BY <2>1 DEF rdp_sessmgr_resume
    <3>2. ResumeReq(id, v) \in Requests /\ ResumeReq(id, v).fd = None
      BY RequestTypes DEF ResumeReq, ArcRandom
    <3> QED
      BY <3>1, <3>2
  <2>2. CASE \E m \in LoginPaths \cup {"greeter"}, u \in Users :
               rdp_sessmgr_open_auth(w, m, u)
    <3>1. PICK c \in Conns, u \in Users : Connect(w, c, AuthReq(u))
      BY <2>2 DEF rdp_sessmgr_open_auth
    <3>2. AuthReq(u) \in Requests /\ AuthReq(u).fd = None
      BY RequestTypes DEF AuthReq
    <3> QED
      BY <3>1, <3>2
  <2> QED
    BY <2>1, <2>2
<1>2. wpc[w] \notin Connected /\ UNCHANGED be_fd
  BY DEF rdp_sessmgr_resume, rdp_sessmgr_open_auth, Connected
<1>3. OwnConn(w, None)
  BY <1>1, <1>2, ConnectOwn
<1>4. PICK p \in {"resume", "auth"} : Goto(w, p)
  BY DEF rdp_sessmgr_resume, rdp_sessmgr_open_auth
<1>5. /\ \E m : mode' = [mode EXCEPT ![w] = m]
      /\ UNCHANGED presented \/ \E v : presented' = [presented EXCEPT ![w] = v]
  BY DEF rdp_sessmgr_resume, rdp_sessmgr_open_auth
<1>6. OnlyOf(w) /\ wpc'[w] # "proxy"
  BY <1>2, <1>4, <1>5, WorkerFacts DEF OnlyOf, Goto, LoginVarsTyped
<1> QED
  BY <1>3, <1>6, WorkerSteady

(***************************************************************************)
(* The refusals and the ends.                                              *)
(***************************************************************************)
LEMMA LeavingSteady ==
    ASSUME CommInv, NEW w \in Workers, UNCHANGED mgrVars,
           \/ ResumeFailed(w) \/ LoginRefused(w) \/ SpawnUnsent(w) \/ SpawnDenied(w)
           \/ GreeterCancelled(w) \/ ProxyEnds(w) \/ Suspended(w) \/ Killed(w)
    PROVE  Steady(None)
<1>1. OwnConn(w, None)
  <2>1. CASE \/ ResumeFailed(w) \/ LoginRefused(w) \/ SpawnUnsent(w)
             \/ SpawnDenied(w) \/ Suspended(w)
    <3>1. wpc[w] \in Connected /\ CloseConn(w)
      BY <2>1 DEF ResumeFailed, LoginRefused, SpawnUnsent, SpawnDenied, Suspended,
                  GiveUp, Connected
    <3> QED
      BY <3>1, WorkerFacts, CloseOwn
  <2>2. CASE GreeterCancelled(w) \/ ProxyEnds(w)
    <3>1. wpc[w] \in {"greeter", "proxy"} /\ UNCHANGED conn
      BY <2>2 DEF GreeterCancelled, ProxyEnds, protoVars
    <3>2. wconn[w] = None
      BY <3>1, WorkerFacts DEF Connected
    <3> QED
      BY <3>1, <3>2, NoneAssumption DEF OwnConn
  <2>3. CASE Killed(w)
    <3>1. CASE wconn[w] = None
      BY <2>3, <3>1, NoneAssumption DEF Killed, OwnConn
    <3>2. CASE wconn[w] # None
      BY <2>3, <3>2, CloseOwn DEF Killed
    <3> QED
      BY <3>1, <3>2
  <2> QED
    BY <2>1, <2>2, <2>3
<1>2. PICK p \in {"login", "greeter", "done", "killed"} : Goto(w, p)
  BY DEF ResumeFailed, LoginRefused, SpawnUnsent, SpawnDenied, GreeterCancelled,
         ProxyEnds, Suspended, Killed, GiveUp, Leave
<1>3. /\ UNCHANGED be_fd \/ be_fd' = [be_fd EXCEPT ![w] = None]
      /\ \E m : mode' = [mode EXCEPT ![w] = m]
      /\ UNCHANGED presented \/ presented' = [presented EXCEPT ![w] = None]
  BY DEF ResumeFailed, LoginRefused, SpawnUnsent, SpawnDenied, GreeterCancelled,
         ProxyEnds, Suspended, Killed, GiveUp, Leave
<1>4. OnlyOf(w) /\ wpc'[w] # "proxy"
  BY <1>2, <1>3, WorkerFacts DEF OnlyOf, Goto, LoginVarsTyped
<1> QED
  BY <1>1, <1>4, WorkerSteady

(***************************************************************************)
(* Reading the answer to AUTH and sending SPAWN.                           *)
(***************************************************************************)
LEMMA TalkSteady ==
    ASSUME CommInv, NEW w \in Workers, UNCHANGED mgrVars,
           LoggedIn(w) \/ rdp_sessmgr_spawn(w)
    PROVE  Steady(None)
<1>1. /\ wpc[w] \in {"auth", "authed"} /\ UNCHANGED <<be_fd, mode, presented>>
      /\ \E p \in {"authed", "spawn"} : Goto(w, p)
      /\ \/ conn' = [conn EXCEPT ![wconn[w]].rsp = None]
         \/ wpc[w] = "authed" /\ conn' = [conn EXCEPT ![wconn[w]].req = SpawnReq]
  BY DEF LoggedIn, rdp_sessmgr_spawn
<1>2. PICK c \in Conns : c = wconn[w]
  BY <1>1, WorkerFacts DEF Connected
<1>3. conn \in [Conns -> ConnStates] /\ conn[c] \in ConnStates
  BY WorkerFacts
<1>4. /\ conn[c].up /\ conn[c].owner = w
      /\ wpc[w] = "authed" => conn[c].rsp = None /\ conn[c].req = None
  <2>1. conn[c].up /\ conn[c].owner = w
    BY <1>2, NoneAssumption DEF CommInv, Links
  <2>2. wpc[w] = "authed" => conn[c].rsp = None
    BY <2>1 DEF CommInv, Dialogue, ReplyShape
  <2>3. ASSUME wpc[w] = "authed", conn[c].req # None PROVE FALSE
    <3>1. conn[c].req.op \in {"AUTH", "SPAWN", "SUSPEND", "RESUME"}
      BY <1>3, <2>3 DEF ConnStates, Requests, Ops
    <3>2. AsksAt(conn[c].req.op) = "authed"
      BY <2>1, <2>3 DEF CommInv, Dialogue
    <3> QED
      BY <3>1, <3>2 DEF AsksAt
  <2> QED
    BY <2>1, <2>2, <2>3
<1>5. PICK z : /\ \/ z = [conn[c] EXCEPT !.rsp = None]
                  \/ wpc[w] = "authed" /\ z = [conn[c] EXCEPT !.req = SpawnReq]
               /\ conn' = [conn EXCEPT ![c] = z]
  BY <1>1, <1>2
<1>6. z.rsp = None /\ (z.req = conn[c].req \/ (conn[c].req = None /\ z.req.fd = None))
  <2>1. CASE z = [conn[c] EXCEPT !.rsp = None]
    BY <1>3, <2>1 DEF ConnStates
  <2>2. CASE wpc[w] = "authed" /\ z = [conn[c] EXCEPT !.req = SpawnReq]
    BY <1>3, <1>4, <2>2 DEF ConnStates, SpawnReq
  <2> QED
    BY <1>5, <2>1, <2>2
<1>7. OwnConn(w, None)
  BY <1>2, <1>3, <1>5, <1>6 DEF OwnConn
<1>8. OnlyOf(w) /\ wpc'[w] # "proxy"
  BY <1>1, WorkerFacts DEF OnlyOf, Goto
<1> QED
  BY <1>7, <1>8, WorkerSteady

(***************************************************************************)
(* rdp_sessmgr_suspend: from the worker to its cookie.                     *)
(***************************************************************************)
LEMMA SuspendCallPasses ==
    ASSUME CommInv, Exclusive, OwnersSeen, OwnersSeen', NEW w \in Workers,
           rdp_sessmgr_suspend(w), UNCHANGED mgrVars
    PROVE  \E t \in Sessions : Steady(t) /\ Passes(t)
<1>1. /\ wpc[w] = "proxy" /\ Goto(w, "suspend") /\ UNCHANGED <<be_fd, mode, presented>>
      /\ \E c \in Conns : Connect(w, c, SuspendReq(logon_id[w], w, be_fd[w]))
  BY DEF rdp_sessmgr_suspend
<1>2. PICK s \in Sessions, c \in Conns :
        /\ s = be_fd[w] /\ Connect(w, c, SuspendReq(logon_id[w], w, s))
        /\ HandsOn(s, <<"proxy", w>>, <<"message", c>>)
  BY SuspendCallHandsOn
<1>4. PICK r \in Requests : r = SuspendReq(logon_id[w], w, s)
  <2>1. logon_id[w] \in LogonIds \cup {None} /\ w \in ArcRandom
    BY WorkerFacts DEF LoginVarsTyped, ArcRandom
  <2> QED
    BY <2>1, RequestTypes
<1>5. r.fd = s /\ r.arc = w
  BY <1>4 DEF SuspendReq
<1>6. OwnConn(w, s) /\ conn'[c].req = r
  BY SMTT(60), <1>1, <1>2, <1>4, <1>5, ConnectOwn DEF Connected
<1>7. OnlyOf(w) /\ wpc'[w] # "proxy"
  BY <1>1, WorkerFacts DEF OnlyOf, Goto
<1>8. Steady(s)
  BY <1>6, <1>7, WorkerSteady
<1>9. OwnerOf(s) = Owner!With(w)
  BY <1>1, <1>2 DEF OwnersSeen, OwnerSeen, Proxy
<1>10. ASSUME <<"message", c>> \in Holders(s)' PROVE Passes(s)
  <2>1. Bringing(c, s)'
    <3>1. Carries(c, s)'
      BY SMTT(60), <1>10, HoldersAreNext
    <3>2. conn'[c].rsp = None
      BY <1>2, WorkerFacts DEF Connect
    <3> QED
      BY <3>1, <3>2 DEF Carries, Bringing
  <2>2. OwnerOf(s)' = Owner!Parked(w)
    BY <1>5, <1>6, <2>1 DEF OwnersSeen, OwnerSeen, Owner!Parked
  <2> QED
    BY <1>9, <2>2 DEF Passes
<1> QED
  BY <1>2, <1>8, <1>10, HandedPasses

(***************************************************************************)
(* Resumed and Spawned: to the worker whose client presents the cookie, or *)
(* that had the session started.                                           *)
(***************************************************************************)
LEMMA AttachPasses ==
    ASSUME CommInv, CookieInv, Exclusive, OwnersSeen, OwnersSeen', NEW w \in Workers,
           Resumed(w) \/ Spawned(w), UNCHANGED mgrVars
    PROVE  \E t \in Sessions : Steady(t) /\ Passes(t)
<1>1. /\ wpc[w] \in {"resume", "spawn"} /\ Granted(w) /\ CloseConn(w)
      /\ Goto(w, "proxy") /\ be_fd' = [be_fd EXCEPT ![w] = Reply(w).fd]
      /\ UNCHANGED <<mode, presented>>
  BY DEF Resumed, Spawned
<1>2. PICK c \in Conns, s \in Sessions : c = wconn[w] /\ s = Reply(w).fd
  BY <1>1, GrantedSession
<1>3. conn[c].rsp # None /\ conn[c].rsp.fd = s /\ conn[c].owner = w
  BY <1>1, <1>2, GrantedSession, NoneAssumption DEF CommInv, Links, Reply
<1>4. /\ OnlyOf(w) /\ wpc'[w] = "proxy" /\ be_fd'[w] = s
  BY <1>1, <1>2, WorkerFacts DEF OnlyOf, Goto
<1>5. Steady(s)
  <2>1. OwnConn(w, s)
    BY <1>1, <1>2, CloseOwn, NoneAssumption
  <2> QED
    BY <1>4, <2>1, WorkerSteady
<1>6. OwnerOf(s)' = Owner!With(w)
  BY <1>4 DEF OwnersSeen, OwnerSeen, Proxy, Owner!With
<1>7. OwnerOf(s) = IF mode[w] = "resume" THEN Owner!Parked(presented[w]) ELSE Owner!Starting
  BY <1>3 DEF OwnersSeen, OwnerSeen, Fetching, Resuming
<1>8. mode[w] = "resume" => presented[w] # None
  BY <1>1 DEF CookieInv, IssuedAt
<1> QED
  BY <1>5, <1>6, <1>7, <1>8 DEF Passes

-----------------------------------------------------------------------------
(***************************************************************************)
(* The owner of a session is a state of SessionOwner: whatever is taken    *)
(* for a cookie is one.                                                    *)
(***************************************************************************)
LEMMA OwnersTyped == CommInv => \A s \in Sessions : OwnerOf(s) \in Owner!States
<1> SUFFICES ASSUME CommInv, NEW s \in Sessions PROVE OwnerOf(s) \in Owner!States
  OBVIOUS
<1>1. Proxies(s) \subseteq Workers
  BY DEF Proxies
<1>2. ASSUME NEW v \in Cookies(s) PROVE v \in Workers \cup {None}
  <2>1. ASSUME NEW i \in Slots PROVE suspended[i].arc_random \in Workers \cup {None}
    BY DEF CommInv, TypeOK, MgrTypeOK, SlotStates, ArcRandom
  <2>2. ASSUME NEW c \in Conns, conn[c].req # None
        PROVE  conn[c].req.arc \in Workers \cup {None}
    <3>1. conn[c].req \in Requests
      BY <2>2 DEF CommInv, TypeOK, ProtoTypeOK, ConnStates
    <3> QED
      BY <3>1 DEF Requests, ArcRandom
  <2>3. ASSUME NEW c \in Conns, Fetching(c, s)
        PROVE  presented[conn[c].owner] \in Workers \cup {None}
    <3>1. conn[c].owner \in Workers
      BY <2>3 DEF Fetching, CommInv, Links, ConnShape
    <3> QED
      BY <3>1, WorkerFacts DEF LoginVarsTyped, ArcRandom
  <2>4. pc = "resume" => cur \in Conns /\ conn[cur].req # None
    BY WorkingFacts DEF CommInv, Serving
  <2> QED
    BY SMTT(60), <2>1, <2>2, <2>3, <2>4, CookiesAre DEF Bringing
<1>3. CASE Proxies(s) # {}
  <2>1. (CHOOSE w \in Proxies(s) : TRUE) \in Workers
    BY <1>1, <1>3
  <2> QED
    BY <1>3, <2>1 DEF OwnerOf, Owner!States
<1>4. CASE Proxies(s) = {} /\ Cookies(s) # {}
  <2>1. (CHOOSE v \in Cookies(s) : TRUE) \in Workers \cup {None}
    BY <1>2, <1>4
  <2> QED
    BY <1>4, <2>1 DEF OwnerOf, Owner!States
<1>5. CASE Proxies(s) = {} /\ Cookies(s) = {}
  BY <1>5 DEF OwnerOf, Owner!States
<1> QED
  BY <1>3, <1>4, <1>5

(***************************************************************************)
(* Every step passes every session on as SessionOwner allows.              *)
(***************************************************************************)
LEMMA PassStep ==
    ASSUME CommInv, CookieInv, Exclusive, OwnersSeen, OwnersSeen', [Next]_vars
    PROVE  \A s \in Sessions : Passes(s)
<1>1. Steady(None) => \A s \in Sessions : Passes(s)
  BY AllPass, NoneAssumption
<1>2. (\E t \in Sessions : Steady(t) /\ Passes(t)) => \A s \in Sessions : Passes(s)
  BY AllPass
<1>3. CASE MgrNext /\ UNCHANGED workerVars
  <2>1. CASE \E s \in Sessions : SpawnFork(s)
    BY <1>2, <1>3, <2>1, ForkPasses
  <2>2. CASE SpawnStarted \/ ResumeTake \/ ResumeReply \/ handle_suspend
    BY <1>2, <1>3, <2>2, StartedPasses, TakePasses, ReplyPasses, SuspendPasses
  <2>3. CASE EndClient
    BY <1>3, <2>3, EndPasses, AllPass
  <2>4. CASE accept \/ AuthThrottled \/ AuthAccepts \/ AuthRefuses
             \/ SpawnRefused \/ SpawnFailed \/ ResumeRefused
    BY <1>1, <1>3, <2>4, AcceptSteady, RefusalSteady
  <2>5. CASE \/ ClientLeaves \/ SpawnRecord \/ on_sigchld \/ Clock \/ AuthBegin
             \/ \E s \in Sessions : MonitorStep(s)
    BY <1>1, <1>3, <2>5, QuietSteady
  <2> QED
    BY <1>3, <2>1, <2>2, <2>3, <2>4, <2>5 DEF MgrNext, MgrStep
<1>4. ASSUME NEW w \in Workers, WorkerStep(w) \/ Killed(w), UNCHANGED mgrVars
      PROVE  \A s \in Sessions : Passes(s)
  <2>1. CASE rdp_sessmgr_suspend(w) \/ Resumed(w) \/ Spawned(w)
    BY <1>2, <1>4, <2>1, SuspendCallPasses, AttachPasses
  <2> QED
    BY <1>1, <1>4, <2>1, OpenSteady, LeavingSteady, TalkSteady DEF WorkerStep
<1>5. CASE \E s \in Sessions : SessionExits(s)
  <2>1. UNCHANGED workerVars
    BY <1>5 DEF SessionExits
  <2> QED
    BY <1>1, <1>5, <2>1, QuietSteady
<1>6. CASE UNCHANGED vars
  <2>1. UNCHANGED workerVars
    BY <1>6 DEF vars
  <2> QED
    BY <1>1, <1>6, <2>1, QuietSteady
<1> QED
  BY <1>3, <1>4, <1>5, <1>6 DEF Next, Finished

(***************************************************************************)
(* A step of the program is a step of SessionOwner, or leaves every        *)
(* session with the owner it has.                                          *)
(***************************************************************************)
LEMMA OwnerStep ==
    ASSUME CommInv, CommInv', CookieInv, Exclusive, Exclusive', [Next]_vars
    PROVE  [Owner!Next]_([s \in Sessions |-> OwnerOf(s)])
<1>1. \A s \in Sessions : OwnerOf(s)' \in Owner!States
  <2>1. (CommInv => \A s \in Sessions : OwnerOf(s) \in Owner!States)'
    BY OwnersTyped, PTL
  <2> QED
    BY <2>1 DEF Owner!States
<1>2. OwnersSeen /\ OwnersSeen'
  BY HoldersTell, HoldersTellNext
<1>3. \A s \in Sessions : Owner!Change(s)
  BY <1>2, PassStep, PassesIsChange
<1>4. [s \in Sessions |-> OwnerOf(s)]' \in [Sessions -> Owner!States]
  BY <1>1
<1> QED
  BY <1>3, <1>4 DEF Owner!Next

=============================================================================
