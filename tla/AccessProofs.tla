---------------------------- MODULE AccessProofs ----------------------------
(***************************************************************************)
(* The cookie a worker is shown opens the session it was issued for, and a *)
(* worker that logs in gets a session of the account that logged in.       *)
(***************************************************************************)
EXTENDS CommProofs

(***************************************************************************)
(* Most leaves are first-order: Zenon is tried first, then SMT.            *)
(***************************************************************************)
USE ZenonT(5), SMTT(90)

-----------------------------------------------------------------------------
(***************************************************************************)
(* Cookies: the manager's steps.  They leave the workers' part alone, so   *)
(* it is enough to look at the connections, the slots and the handler.     *)
(***************************************************************************)
LEMMA ManagerCookie ==
    ASSUME CookieInv, UNCHANGED workerVars,
           \A c \in Conns : Asked(conn[c])' /\ Told(conn[c])',
           \A i \in Slots : Bound(suspended[i])',
           Taken'
    PROVE  CookieInv'
<1>1. ASSUME NEW w \in Workers PROVE IssuedAt(w)' /\ OpensAt(w)'
  BY DEF CookieInv, IssuedAt, OpensAt, workerVars
<1> QED
  BY <1>1 DEF CookieInv

(***************************************************************************)
(* A connection that keeps its owner and its end open, if it was, and its  *)
(* messages, or drops them, stays bound.                                   *)
(***************************************************************************)
LEMMA MessagesKept ==
    ASSUME CookieInv, UNCHANGED workerVars, NEW c \in Conns,
           conn'[c].req = None \/ conn'[c].req = conn[c].req,
           conn'[c].rsp = None \/ conn'[c].rsp = conn[c].rsp,
           conn'[c].req # None => conn'[c].up = conn[c].up,
           conn'[c].req # None \/ conn'[c].rsp # None => conn'[c].owner = conn[c].owner
    PROVE  Asked(conn[c])' /\ Told(conn[c])'
<1>1. Asked(conn[c]) /\ Told(conn[c])
  BY DEF CookieInv
<1>2. Asked(conn[c])'
  BY <1>1 DEF Asked, workerVars
<1>3. Told(conn[c])'
  BY <1>1 DEF Told, workerVars
<1> QED
  BY <1>2, <1>3

(***************************************************************************)
(* reply(): the request is gone, and the reply is bound if what it carries *)
(* to a worker that resumes is.                                            *)
(***************************************************************************)
LEMMA AnswerCookie ==
    ASSUME CommInv, CookieInv, UNCHANGED workerVars, NEW d \in Conns, d = cur,
           NEW m \in Replies, Answer(m),
           conn[d].up /\ m.fd # None /\ wpc[conn[d].owner] = "resume"
             => issued_for[presented[conn[d].owner]] = m.fd
    PROVE  \A c \in Conns : Asked(conn[c])' /\ Told(conn[c])'
<1>1. conn \in [Conns -> ConnStates] /\ ConnShape(conn[d]) /\ conn[d].srv = "serving"
  BY SMTT(60), NoneAssumption DEF CommInv, TypeOK, ProtoTypeOK, Links, Serving
<1>2. PICK z \in ConnStates :
        /\ z = Replied(conn[d], m)
        /\ z.req = None /\ z.rsp = IF conn[d].up THEN m ELSE None
        /\ z.owner = conn[d].owner
  BY <1>1, RepliedShape
<1>3. conn'[d] = z /\ \A c \in Conns \ {d} : conn'[c] = conn[c]
  BY <1>1, <1>2 DEF Answer
<1>4. Asked(conn[d])'
  BY <1>2, <1>3 DEF Asked
<1>5. Told(conn[d])'
  BY <1>2, <1>3 DEF Told, workerVars
<1>6. \A c \in Conns \ {d} : Asked(conn[c])' /\ Told(conn[c])'
  BY <1>3, MessagesKept
<1> QED
  BY <1>4, <1>5, <1>6

(***************************************************************************)
(* A reply without a descriptor needs nothing.                             *)
(***************************************************************************)
LEMMA EmptyAnswerCookie ==
    ASSUME CommInv, CookieInv, UNCHANGED workerVars, cur \in Conns,
           Answer(Refusal) \/ Answer(Success(None))
    PROVE  \A c \in Conns : Asked(conn[c])' /\ Told(conn[c])'
<1>1. /\ Refusal \in Replies /\ Refusal.fd = None
      /\ Success(None) \in Replies /\ Success(None).fd = None
  BY ReplyShapes DEF Refusal, Success
<1> QED
  BY <1>1, AnswerCookie

(***************************************************************************)
(* Sweeping keeps the slots bound.                                         *)
(***************************************************************************)
LEMMA SweptBound ==
    ASSUME CommInv, CookieInv, UNCHANGED workerVars
    PROVE  /\ suspended' = suspended => \A i \in Slots : Bound(suspended[i])'
           /\ suspended' = Swept => \A i \in Slots : Bound(suspended[i])'
<1>1. \A i \in Slots : Bound(suspended[i])
  BY DEF CookieInv
<1>2. suspended \in [Slots -> SlotStates]
  BY DEF CommInv, TypeOK, MgrTypeOK
<1>3. \A i \in Slots : Swept[i].in_use => Swept[i] = suspended[i]
  BY <1>2, SweptShape
<1> QED
  BY SMTT(60), <1>1, <1>3 DEF Bound, workerVars

(***************************************************************************)
(* Storing a session under its own cookie, or under none, keeps the slots  *)
(* bound.                                                                  *)
(***************************************************************************)
LEMMA StoredBound ==
    ASSUME CommInv, CookieInv, UNCHANGED workerVars,
           NEW id \in LogonIds \cup {None}, NEW s \in Sessions, NEW a \in ArcRandom,
           suspended' = Stored(id, s, a), a # None => issued_for[a] = s
    PROVE  \A i \in Slots : Bound(suspended[i])'
<1>1. suspended \in [Slots -> SlotStates] /\ now \in Nat
  BY DEF CommInv, TypeOK, MgrTypeOK
<1>2. CASE suspended' = Swept
  BY <1>2, SweptBound
<1>3. CASE \E i \in Slots : suspended' = [Swept EXCEPT ![i] = NewSlot(id, s, a)]
  <2>1. PICK i \in Slots : suspended' = [Swept EXCEPT ![i] = NewSlot(id, s, a)]
    BY <1>3
  <2>2. /\ Swept \in [Slots -> SlotStates]
        /\ \A j \in Slots : Swept[j].in_use => Swept[j] = suspended[j]
    BY <1>1, SweptShape
  <2>3. /\ suspended'[i].be_fd = s /\ suspended'[i].arc_random = a
        /\ \A j \in Slots \ {i} : suspended'[j] = Swept[j]
    BY SMTT(60), <2>1, <2>2 DEF NewSlot
  <2>4. \A j \in Slots : Bound(suspended[j])
    BY DEF CookieInv
  <2> QED
    BY SMTT(60), <2>2, <2>3, <2>4 DEF Bound, workerVars
<1> QED
  BY SMTT(60), <1>1, <1>2, <1>3, StoredShape

(***************************************************************************)
(* The steps without a request in hand: a signal, a monitor, the clock, an *)
(* exit, a new client.                                                     *)
(***************************************************************************)
LEMMA QuietCookie ==
    ASSUME CommInv, CookieInv, UNCHANGED workerVars,
           \/ ClientLeaves \/ on_sigchld \/ Clock \/ SpawnRecord \/ AuthBegin
           \/ \E s \in Sessions : MonitorStep(s) \/ SessionExits(s) \/ SpawnFork(s)
           \/ UNCHANGED vars
    PROVE  CookieInv'
<1>1. UNCHANGED <<suspended, conn, cur>>
  BY DEF ClientLeaves, on_sigchld, Clock, SpawnRecord, AuthBegin, MonitorStep,
         MonitorFails, MonitorStarts, MonitorExits, SessionExits, SpawnFork, vars,
         mgrVars, clientVars, slotVars, protoVars
<1>2. pc' = "resume" => pc = "resume" /\ born' = born
  BY DEF ClientLeaves, on_sigchld, Clock, SpawnRecord, AuthBegin, MonitorStep,
         MonitorFails, MonitorStarts, MonitorExits, SessionExits, SpawnFork, vars,
         mgrVars, clientVars, slotVars, protoVars
<1>3. Taken'
  BY <1>1, <1>2 DEF Taken, CookieInv, workerVars
<1>4. \A c \in Conns : Asked(conn[c])' /\ Told(conn[c])'
  BY <1>1, MessagesKept
<1>5. \A i \in Slots : Bound(suspended[i])'
  BY <1>1, SweptBound
<1> QED
  BY <1>3, <1>4, <1>5, ManagerCookie

(***************************************************************************)
(* accept, and the close at the end of handle_client, with the automatic   *)
(* suspend under no cookie.                                                *)
(***************************************************************************)
LEMMA ClientCookie ==
    ASSUME CommInv, CookieInv, UNCHANGED workerVars, accept \/ EndClient
    PROVE  CookieInv'
<1>1. pc' # "resume"
  BY DEF accept, EndClient
<1>2. conn \in [Conns -> ConnStates]
  BY DEF CommInv, TypeOK, ProtoTypeOK
<1>3. CASE accept
  <2>1. PICK d \in Conns : d = Head(backlog)
    BY SMTT(60), <1>3 DEF accept, CommInv, TypeOK, ProtoTypeOK
  <2>2. conn' = [conn EXCEPT ![d].srv = "serving"] /\ suspended' = suspended
    BY <1>3, <2>1 DEF accept, slotVars
  <2>3. conn'[d] = [conn[d] EXCEPT !.srv = "serving"]
        /\ \A c \in Conns \ {d} : conn'[c] = conn[c]
    BY <1>2, <2>2
  <2>4. conn[d] \in ConnStates
    BY <1>2
  <2>5. /\ conn'[d].req = conn[d].req /\ conn'[d].rsp = conn[d].rsp
        /\ conn'[d].up = conn[d].up /\ conn'[d].owner = conn[d].owner
    BY <2>3, <2>4 DEF ConnStates
  <2>6. \A c \in Conns : Asked(conn[c])' /\ Told(conn[c])'
    BY <2>3, <2>5, MessagesKept
  <2>7. \A i \in Slots : Bound(suspended[i])'
    BY <2>2, SweptBound
  <2> QED
    BY <1>1, <2>6, <2>7, ManagerCookie DEF Taken
<1>4. CASE EndClient
  <2>1. PICK d \in Conns : d = cur
    BY <1>4 DEF EndClient, CommInv, Serving, TypeOK, MgrTypeOK
  <2>2. conn[d] \in ConnStates /\ ConnShape(conn[d]) /\ conn[d].srv = "serving"
    BY <1>2, <2>1, NoneAssumption DEF CommInv, Links, Serving
  <2>3. PICK z \in ConnStates :
          /\ z = ClosedByManager(conn[d]) /\ z.req = None /\ z.rsp = conn[d].rsp
          /\ z.up = conn[d].up /\ (z.up => z.owner = conn[d].owner)
    BY <2>2, ClosedByManagerShape
  <2>4. z.rsp # None => z.owner = conn[d].owner
    BY <2>2, <2>3 DEF ConnShape
  <2>5. conn'[d] = z /\ \A c \in Conns \ {d} : conn'[c] = conn[c]
    BY <1>2, <1>4, <2>1, <2>3 DEF EndClient
  <2>6. Asked(conn[d])' /\ Told(conn[d])'
    BY <2>3, <2>4, <2>5, MessagesKept
  <2>7. \A c \in Conns \ {d} : Asked(conn[c])' /\ Told(conn[c])'
    BY <2>5, MessagesKept
  <2>8. \A i \in Slots : Bound(suspended[i])'
    <3>1. CASE Unanswered
      <4>1. PICK s \in Sessions : s = retained_fd
        BY <3>1 DEF Unanswered, CommInv, TypeOK, MgrTypeOK
      <4>2. PICK id \in LogonIds : suspended' = Stored(id, s, None)
        BY <1>4, <3>1, <4>1 DEF EndClient, auto_suspend
      <4> QED
        BY <4>2, StoredBound DEF ArcRandom
    <3>2. CASE ~Unanswered
      BY <1>4, <3>2, SweptBound DEF EndClient
    <3> QED
      BY <3>1, <3>2
  <2> QED
    BY <1>1, <2>6, <2>7, <2>8, ManagerCookie DEF Taken
<1> QED
  BY <1>3, <1>4

(***************************************************************************)
(* The answers that carry no descriptor.                                   *)
(***************************************************************************)
LEMMA RefusalCookie ==
    ASSUME CommInv, CookieInv, UNCHANGED workerVars,
           \/ AuthThrottled \/ AuthAccepts \/ AuthRefuses
           \/ SpawnRefused \/ SpawnFailed \/ ResumeRefused
    PROVE  CookieInv'
<1>1. /\ pc' = "poll"
      /\ suspended' = suspended \/ suspended' = Swept
      /\ Answer(Refusal) \/ Answer(Success(None))
  BY DEF AuthThrottled, AuthAccepts, AuthRefuses, SpawnRefused, SpawnFailed,
         ResumeRefused, Received, slotVars
<1>2. cur \in Conns
  BY ReceivedFacts, WorkingFacts DEF AuthThrottled, AuthAccepts, AuthRefuses,
         SpawnRefused, SpawnFailed, ResumeRefused, CommInv, Serving
<1>3. \A c \in Conns : Asked(conn[c])' /\ Told(conn[c])'
  BY <1>1, <1>2, EmptyAnswerCookie
<1>4. \A i \in Slots : Bound(suspended[i])'
  BY <1>1, SweptBound
<1>5. Taken'
  BY <1>1 DEF Taken
<1> QED
  BY <1>3, <1>4, <1>5, ManagerCookie

(***************************************************************************)
(* handle_suspend: the slot is bound as the request was.                   *)
(***************************************************************************)
LEMMA SuspendCookie ==
    ASSUME CommInv, CookieInv, UNCHANGED workerVars, handle_suspend
    PROVE  CookieInv'
<1>1. /\ Received("SUSPEND") /\ pc' = pc
      /\ suspended' = Stored(conn[cur].req.id, conn[cur].req.fd, conn[cur].req.arc)
      /\ Answer(Success(None)) \/ Answer(Refusal)
  BY DEF handle_suspend
<1>2. PICK d \in Conns : d = cur
  BY <1>1, ReceivedFacts
<1>3. /\ conn[d].req \in Requests /\ conn[d].req # None /\ pc = "poll"
      /\ conn[d].req.op = "SUSPEND" /\ RequestShape(conn[d].req)
  BY <1>1, <1>2, ReceivedFacts
<1>4. /\ conn[d].req.fd \in Sessions /\ conn[d].req.id \in LogonIds \cup {None}
      /\ conn[d].req.arc \in ArcRandom
  BY <1>3 DEF Requests, RequestShape
<1>5. issued_for[conn[d].req.arc] = conn[d].req.fd
  BY <1>3 DEF CookieInv, Asked
<1>6. \A i \in Slots : Bound(suspended[i])'
  BY <1>1, <1>2, <1>4, <1>5, StoredBound
<1>7. \A c \in Conns : Asked(conn[c])' /\ Told(conn[c])'
  BY <1>1, <1>2, EmptyAnswerCookie
<1>8. Taken'
  BY <1>1, <1>3 DEF Taken
<1> QED
  BY <1>6, <1>7, <1>8, ManagerCookie

(***************************************************************************)
(* ResumeTake: the verifier ties the request's cookie to the slot's, and   *)
(* so the session in hand is the one the cookie was issued for.            *)
(***************************************************************************)
LEMMA ResumeTakeCookie ==
    ASSUME CommInv, CookieInv, UNCHANGED workerVars, ResumeTake
    PROVE  CookieInv'
<1>1. Received("RESUME") /\ UNCHANGED <<cur, conn>>
  BY DEF ResumeTake, protoVars
<1>2. PICK i \in Slots :
        /\ Swept[i].in_use /\ Swept[i] = suspended[i] /\ suspended[i].in_use
        /\ suspended[i].be_fd \in Sessions
        /\ suspended[i].arc_random = conn[cur].req.arc
        /\ born' = suspended[i].be_fd
        /\ suspended' = [Swept EXCEPT ![i] = NoSlot]
  BY TakenSlot
<1>3. cur \in Conns /\ conn[cur].req # None /\ conn[cur].req.op = "RESUME"
  BY <1>1, ReceivedFacts
<1>4. conn[cur].req.arc # None
  BY <1>3 DEF CookieInv, Asked
<1>5. issued_for[suspended[i].arc_random] = suspended[i].be_fd
  BY <1>2, <1>4 DEF CookieInv, Bound
<1>6. Taken'
  BY <1>1, <1>2, <1>5 DEF Taken, workerVars
<1>7. suspended \in [Slots -> SlotStates]
  BY DEF CommInv, TypeOK, MgrTypeOK
<1>8. /\ Swept \in [Slots -> SlotStates]
      /\ \A j \in Slots : Swept[j].in_use => Swept[j] = suspended[j]
  BY <1>7, SweptShape
<1>9. ~suspended'[i].in_use /\ \A j \in Slots \ {i} : suspended'[j] = Swept[j]
  BY <1>2, <1>8 DEF NoSlot
<1>10. \A j \in Slots : Bound(suspended[j])
  BY DEF CookieInv
<1>11. \A j \in Slots : Bound(suspended[j])'
  BY SMTT(60), <1>8, <1>9, <1>10 DEF Bound, workerVars
<1>12. \A c \in Conns : Asked(conn[c])' /\ Told(conn[c])'
  BY <1>1, MessagesKept
<1> QED
  BY <1>6, <1>11, <1>12, ManagerCookie

(***************************************************************************)
(* The answers with a descriptor: to RESUME, for the cookie its worker was *)
(* shown; to SPAWN, to a worker that does not resume.                      *)
(***************************************************************************)
LEMMA HandoutCookie ==
    ASSUME CommInv, CookieInv, UNCHANGED workerVars, ResumeReply \/ SpawnStarted
    PROVE  CookieInv'
<1>1. /\ pc' = "poll" /\ suspended' = suspended
      /\ \/ Answer(Success(born))
         \/ Answer(Refusal)
      /\ pc = "resume" \/ pc = "status"
  BY DEF ResumeReply, SpawnStarted, slotVars
<1>2. PICK d \in Conns : d = cur
  BY <1>1, WorkingFacts DEF CommInv, Serving
<1>3. PICK s \in Sessions : s = born /\ s # None
  BY <1>1, NoneAssumption DEF CommInv, Serving, TypeOK, MgrTypeOK
<1>4. Success(s) \in Replies /\ Success(s).fd = s
  BY ReplyShapes DEF Success
<1>5. conn[d].req # None /\ conn[d].req.op = IF pc = "resume" THEN "RESUME" ELSE "SPAWN"
  BY <1>1, <1>2, WorkingFacts DEF CommInv, Serving
<1>6. conn[d].up => wpc[conn[d].owner] = AsksAt(conn[d].req.op)
  BY <1>5 DEF CommInv, Dialogue
<1>7. conn[d].up /\ wpc[conn[d].owner] = "resume"
        => issued_for[presented[conn[d].owner]] = s
  <2>1. CASE pc = "resume"
    <3>1. conn[d].up => conn[d].req.arc = presented[conn[d].owner]
      BY <1>5, <2>1 DEF CookieInv, Asked
    <3>2. issued_for[conn[d].req.arc] = s
      BY <1>2, <1>3, <2>1 DEF CookieInv, Taken
    <3> QED
      BY <3>1, <3>2
  <2>2. CASE pc = "status"
    BY <1>5, <1>6, <2>2 DEF AsksAt
  <2> QED
    BY <1>1, <2>1, <2>2
<1>8. \A c \in Conns : Asked(conn[c])' /\ Told(conn[c])'
  BY <1>1, <1>2, <1>3, <1>4, <1>7, AnswerCookie, EmptyAnswerCookie
<1>9. \A i \in Slots : Bound(suspended[i])'
  BY <1>1, SweptBound
<1>10. Taken'
  BY <1>1 DEF Taken
<1> QED
  BY <1>8, <1>9, <1>10, ManagerCookie

-----------------------------------------------------------------------------
(***************************************************************************)
(* The workers' steps.  A cookie is issued once, so what was bound stays   *)
(* bound; the other workers and their connections are left alone.          *)
(***************************************************************************)
OthersKept(w) ==
    /\ \A v \in Workers \ {w} :
         /\ wpc'[v] = wpc[v] /\ mode'[v] = mode[v] /\ presented'[v] = presented[v]
         /\ be_fd'[v] = be_fd[v] /\ issued_for'[v] = issued_for[v]
    /\ issued_for[w] # None => issued_for'[w] = issued_for[w]

(***************************************************************************)
(* The worker's own connection stays bound, and so does the request that   *)
(* the handler of RESUME works on.                                         *)
(***************************************************************************)
OwnBound(w) ==
    /\ \A c \in Conns :
         \/ conn'[c] = conn[c] /\ c # wconn[w]
         \/ Asked(conn[c])' /\ Told(conn[c])'
    /\ pc = "resume" => conn'[cur].req = conn[cur].req

(***************************************************************************)
(* A cookie that has been issued stays issued for the same session.        *)
(***************************************************************************)
LEMMA StillIssued ==
    ASSUME CommInv, NEW w \in Workers, OthersKept(w), NEW a \in Workers,
           issued_for[a] # None
    PROVE  issued_for'[a] = issued_for[a]
  BY DEF OthersKept

(***************************************************************************)
(* A connection the worker does not have: its owner, while it is up, is    *)
(* another worker.                                                         *)
(***************************************************************************)
LEMMA OtherConnection ==
    ASSUME CommInv, CookieInv, NEW w \in Workers, OthersKept(w), NEW c \in Conns,
           conn'[c] = conn[c], c # wconn[w]
    PROVE  Asked(conn[c])' /\ Told(conn[c])'
<1>1. Asked(conn[c]) /\ Told(conn[c])
  BY DEF CookieInv
<1>2. ConnShape(conn[c]) /\ (conn[c].up => wconn[conn[c].owner] = c)
  BY DEF CommInv, Links
<1>3. conn[c].up => conn[c].owner \in Workers \ {w}
  BY <1>2 DEF ConnShape
<1>4. conn[c].req # None => conn[c].req \in Requests /\ RequestShape(conn[c].req)
  BY DEF CommInv, TypeOK, ProtoTypeOK, ConnStates, Dialogue
<1>5. Asked(conn[c])'
  <2>1. CASE conn[c].req # None /\ conn[c].req.op = "SUSPEND"
    <3>1. conn[c].req.arc \in Workers /\ conn[c].req.fd # None
      BY <1>4, <2>1 DEF Requests, RequestShape, ArcRandom
    <3>2. issued_for'[conn[c].req.arc] = conn[c].req.fd
      BY <1>1, <2>1, <3>1, StillIssued DEF Asked
    <3> QED
      BY <2>1, <3>2 DEF Asked
  <2>2. CASE conn[c].req # None /\ conn[c].req.op # "SUSPEND"
    BY <1>1, <1>3, <2>2 DEF Asked, OthersKept
  <2>3. CASE conn[c].req = None
    BY <2>3 DEF Asked
  <2> QED
    BY <2>1, <2>2, <2>3
<1>6. Told(conn[c])'
  <2> SUFFICES ASSUME conn[c].rsp # None, conn[c].rsp.fd # None,
                      wpc'[conn[c].owner] = "resume"
               PROVE  issued_for'[presented'[conn[c].owner]] = conn[c].rsp.fd
    BY DEF Told
  <2>1. PICK v \in Workers \ {w} : v = conn[c].owner
    BY <1>2, <1>3 DEF ConnShape
  <2>2. wpc[v] = "resume" /\ presented'[v] = presented[v]
    BY <2>1 DEF OthersKept
  <2>3. presented[v] \in Workers
    <3>1. IssuedAt(v) /\ presented[v] \in ArcRandom
      BY DEF CookieInv, CommInv, TypeOK, WorkerTypeOK
    <3> QED
      BY <2>2, <3>1 DEF IssuedAt, ArcRandom
  <2>4. issued_for[presented[v]] = conn[c].rsp.fd
    BY <1>1, <2>1, <2>2 DEF Told
  <2> QED
    BY <2>1, <2>2, <2>3, <2>4, StillIssued
<1> QED
  BY <1>5, <1>6

(***************************************************************************)
(* What a worker's step has to show for its own part.                      *)
(***************************************************************************)
LEMMA WorkerCookie ==
    ASSUME CommInv, CookieInv, NEW w \in Workers, UNCHANGED mgrVars,
           OthersKept(w), OwnBound(w), IssuedAt(w)', OpensAt(w)'
    PROVE  CookieInv'
<1>1. UNCHANGED <<pc, cur, born, suspended>>
  BY DEF mgrVars, clientVars, slotVars
<1>2. ASSUME NEW v \in Workers \ {w} PROVE IssuedAt(v)' /\ OpensAt(v)'
  <2>1. IssuedAt(v) /\ OpensAt(v) /\ presented[v] \in ArcRandom
    BY DEF CookieInv, CommInv, TypeOK, WorkerTypeOK
  <2>2. wpc[v] \in {"resume", "proxy"} /\ mode[v] = "resume"
          => /\ presented[v] \in Workers /\ issued_for[presented[v]] # None
             /\ issued_for'[presented[v]] = issued_for[presented[v]]
    BY <2>1, StillIssued DEF IssuedAt, ArcRandom
  <2>3. /\ wpc'[v] = wpc[v] /\ mode'[v] = mode[v] /\ presented'[v] = presented[v]
        /\ be_fd'[v] = be_fd[v] /\ issued_for'[v] = issued_for[v]
    BY DEF OthersKept
  <2> QED
    BY <2>1, <2>2, <2>3 DEF IssuedAt, OpensAt
<1>3. ASSUME NEW c \in Conns PROVE Asked(conn[c])' /\ Told(conn[c])'
  BY OtherConnection DEF OwnBound
<1>4. ASSUME NEW i \in Slots PROVE Bound(suspended[i])'
  <2>1. Bound(suspended[i]) /\ suspended[i] \in SlotStates
        /\ (suspended[i].in_use => suspended[i].be_fd # None)
    BY DEF CookieInv, CommInv, TypeOK, MgrTypeOK, Holding
  <2>2. suspended[i].arc_random # None => suspended[i].arc_random \in Workers
    BY <2>1 DEF SlotStates, ArcRandom
  <2>3. suspended[i].in_use /\ suspended[i].arc_random # None
          => issued_for'[suspended[i].arc_random] = suspended[i].be_fd
    BY <2>1, <2>2, StillIssued DEF Bound
  <2> QED
    BY <1>1, <2>3 DEF Bound
<1>5. Taken'
  <2> SUFFICES ASSUME pc = "resume"
               PROVE  issued_for'[conn'[cur].req.arc] = born
    BY <1>1 DEF Taken
  <2>1. /\ cur \in Conns /\ conn[cur].req \in Requests /\ conn[cur].req # None
        /\ conn[cur].req.op = "RESUME"
    BY WorkingFacts DEF CommInv, Serving
  <2>2. conn[cur].req.arc \in Workers
    BY <2>1 DEF CookieInv, Asked, Requests, ArcRandom
  <2>3. issued_for[conn[cur].req.arc] = born /\ born # None
    BY DEF CookieInv, Taken, CommInv, Serving
  <2>4. conn'[cur].req = conn[cur].req
    BY DEF OwnBound
  <2> QED
    BY <2>2, <2>3, <2>4, StillIssued
<1>6. ASSUME NEW v \in Workers PROVE IssuedAt(v)' /\ OpensAt(v)'
  <2>1. CASE v = w
    BY <2>1
  <2>2. CASE v # w
    BY <1>2, <2>2
  <2> QED
    BY <2>1, <2>2
<1> QED
  BY <1>3, <1>4, <1>5, <1>6 DEF CookieInv

(***************************************************************************)
(* Opening a connection.                                                   *)
(***************************************************************************)
LEMMA ConnectBound ==
    ASSUME CommInv, CookieInv, NEW w \in Workers, NEW c \in Conns, NEW r \in Requests,
           Connect(w, c, r), wpc[w] \notin Connected,
           r.op = "SUSPEND" => issued_for'[r.arc] = r.fd,
           r.op = "RESUME" => r.arc # None /\ r.arc = presented'[w]
    PROVE  OwnBound(w)
<1>1. wconn[w] = None /\ conn \in [Conns -> ConnStates]
  BY WorkerFacts
<1>2. PICK z : z = [owner |-> w, up |-> TRUE, srv |-> "queued", req |-> r, rsp |-> None]
  OBVIOUS
<1>3. conn'[c] = z /\ \A d \in Conns \ {c} : conn'[d] = conn[d]
  BY <1>1, <1>2 DEF Connect
<1>4. z.req = r /\ z.rsp = None /\ z.owner = w
  BY <1>2
<1>5. Asked(conn[c])' /\ Told(conn[c])'
  BY <1>3, <1>4 DEF Asked, Told
<1>6. pc = "resume" => cur \in Conns /\ cur # c
  <2>1. conn[c].req = None
    BY SMTT(60) DEF Connect, FreeConn
  <2> QED
    BY <2>1, WorkingFacts DEF CommInv, Serving
<1> QED
  BY <1>1, <1>3, <1>5, <1>6, NoneAssumption DEF OwnBound

(***************************************************************************)
(* Closing it.                                                             *)
(***************************************************************************)
LEMMA CloseBound ==
    ASSUME CommInv, CookieInv, NEW w \in Workers, OthersKept(w),
           wconn[w] # None, CloseConn(w)
    PROVE  OwnBound(w)
<1>1. PICK c \in Conns : c = wconn[w]
  BY WorkerFacts
<1>2. /\ conn \in [Conns -> ConnStates] /\ conn[c] \in ConnStates
      /\ ConnShape(conn[c]) /\ conn[c].up
  BY <1>1, NoneAssumption DEF CommInv, TypeOK, ProtoTypeOK, Links
<1>3. PICK z \in ConnStates :
        /\ z = ClosedByWorker(conn[c])
        /\ ~z.up /\ z.rsp = None /\ z.req = conn[c].req
  BY <1>2, ClosedByWorkerShape
<1>4. conn'[c] = z /\ \A d \in Conns \ {c} : conn'[d] = conn[d]
  BY <1>1, <1>2, <1>3 DEF CloseConn
<1>5. Asked(conn[c])
  BY DEF CookieInv
<1>6. Asked(conn[c])'
  <2>1. CASE conn[c].req # None /\ conn[c].req.op = "SUSPEND"
    <3>1. conn[c].req \in Requests /\ RequestShape(conn[c].req)
      BY <2>1 DEF CommInv, TypeOK, ProtoTypeOK, ConnStates, Dialogue
    <3>2. conn[c].req.arc \in Workers /\ conn[c].req.fd # None
      BY <2>1, <3>1 DEF Requests, RequestShape, ArcRandom
    <3>3. issued_for'[conn[c].req.arc] = conn[c].req.fd
      BY <1>5, <2>1, <3>2, StillIssued DEF Asked
    <3> QED
      BY <1>3, <1>4, <2>1, <3>3 DEF Asked
  <2>2. CASE conn[c].req # None /\ conn[c].req.op # "SUSPEND"
    BY <1>3, <1>4, <1>5, <2>2 DEF Asked
  <2>3. CASE conn[c].req = None
    BY <1>3, <1>4, <2>3 DEF Asked
  <2> QED
    BY <2>1, <2>2, <2>3
<1>7. Told(conn[c])'
  BY <1>3, <1>4 DEF Told
<1>8. pc = "resume" => conn'[cur].req = conn[cur].req
  <2>1. pc = "resume" => cur \in Conns
    BY WorkingFacts DEF CommInv, Serving
  <2> QED
    BY <1>3, <1>4, <2>1
<1> QED
  BY <1>1, <1>4, <1>6, <1>7, <1>8 DEF OwnBound

(***************************************************************************)
(* A worker that leaves issues nothing; its client keeps the cookie.       *)
(***************************************************************************)
LEMMA LeaveCookie ==
    ASSUME CommInv, CookieInv, NEW w \in Workers, UNCHANGED mgrVars,
           NEW p \in {"done", "killed"}, Leave(w, p),
           (wconn[w] = None /\ UNCHANGED conn) \/ (wconn[w] # None /\ CloseConn(w))
    PROVE  CookieInv'
<1>1. OthersKept(w)
  BY WorkerFacts DEF OthersKept, Leave, Goto, LoginVarsTyped
<1>2. wpc'[w] = p
  BY WorkerFacts DEF Leave, Goto
<1>3. IssuedAt(w)' /\ OpensAt(w)'
  BY <1>2 DEF IssuedAt, OpensAt
<1>4. OwnBound(w)
  <2>1. CASE wconn[w] = None /\ UNCHANGED conn
    BY <2>1, NoneAssumption DEF OwnBound
  <2>2. CASE wconn[w] # None /\ CloseConn(w)
    BY <1>1, <2>2, CloseBound
  <2> QED
    BY <2>1, <2>2
<1> QED
  BY <1>1, <1>3, <1>4, WorkerCookie

(***************************************************************************)
(* The ways a worker leaves: cancelled, at the end of its proxy, after     *)
(* SUSPEND, or killed.                                                     *)
(***************************************************************************)
LEMMA EndsCookie ==
    ASSUME CommInv, CookieInv, NEW w \in Workers, UNCHANGED mgrVars,
           GreeterCancelled(w) \/ ProxyEnds(w) \/ Suspended(w) \/ Killed(w)
    PROVE  CookieInv'
<1>1. PICK p \in {"done", "killed"} : Leave(w, p)
  BY DEF GreeterCancelled, ProxyEnds, Suspended, Killed
<1>2. (wconn[w] = None /\ UNCHANGED conn) \/ (wconn[w] # None /\ CloseConn(w))
  <2>1. CASE GreeterCancelled(w) \/ ProxyEnds(w)
    <3>1. wpc[w] \in {"greeter", "proxy"} /\ UNCHANGED conn
      BY <2>1 DEF GreeterCancelled, ProxyEnds, protoVars
    <3> QED
      BY <3>1, WorkerFacts DEF Connected
  <2>2. CASE Suspended(w)
    <3>1. wpc[w] = "suspend" /\ CloseConn(w)
      BY <2>2 DEF Suspended
    <3> QED
      BY <3>1, WorkerFacts DEF Connected
  <2>3. CASE Killed(w)
    BY <2>3 DEF Killed
  <2> QED
    BY <2>1, <2>2, <2>3
<1> QED
  BY <1>1, <1>2, LeaveCookie

(***************************************************************************)
(* The refusals: back to the login paths, to the greeter, or the end.      *)
(***************************************************************************)
LEMMA RefusedCookie ==
    ASSUME CommInv, CookieInv, NEW w \in Workers, UNCHANGED mgrVars,
           ResumeFailed(w) \/ LoginRefused(w) \/ SpawnUnsent(w) \/ SpawnDenied(w)
    PROVE  CookieInv'
<1>1. wpc[w] \in {"resume", "auth", "authed", "spawn"} /\ CloseConn(w)
  BY DEF ResumeFailed, LoginRefused, SpawnUnsent, SpawnDenied, GiveUp
<1>2. wconn[w] # None
  BY <1>1, WorkerFacts DEF Connected
<1>3. CASE \E p \in {"done", "killed"} : Leave(w, p)
  BY <1>1, <1>2, <1>3, LeaveCookie
<1>4. CASE /\ UNCHANGED <<be_fd, issued_for>>
           /\ \E p \in {"login", "greeter"} : Goto(w, p)
           /\ \E m \in {"none", "greeter"} : mode' = [mode EXCEPT ![w] = m]
           /\ presented' = presented \/ presented' = [presented EXCEPT ![w] = None]
  <2>1. OthersKept(w)
    BY <1>4, WorkerFacts DEF OthersKept, Goto, LoginVarsTyped
  <2>2. wpc'[w] \in {"login", "greeter"}
    BY <1>4, WorkerFacts DEF Goto
  <2>3. issued_for'[w] = None
    BY <1>1, <1>4 DEF CookieInv, IssuedAt
  <2>4. IssuedAt(w)' /\ OpensAt(w)'
    BY <2>2, <2>3 DEF IssuedAt, OpensAt
  <2>5. OwnBound(w)
    BY <1>1, <1>2, <2>1, CloseBound
  <2> QED
    BY <2>1, <2>4, <2>5, WorkerCookie
<1> QED
  BY <1>3, <1>4 DEF ResumeFailed, LoginRefused, SpawnUnsent, SpawnDenied, GiveUp

(***************************************************************************)
(* The requests without a session: RESUME bears an issued cookie.          *)
(***************************************************************************)
LEMMA OpenCookie ==
    ASSUME CommInv, CookieInv, NEW w \in Workers, UNCHANGED mgrVars,
           \/ rdp_sessmgr_resume(w)
           \/ \E m \in LoginPaths \cup {"greeter"}, u \in Users :
                rdp_sessmgr_open_auth(w, m, u)
    PROVE  CookieInv'
<1>1. wpc[w] \in {"start", "login", "greeter"} /\ UNCHANGED <<be_fd, issued_for>>
  BY DEF rdp_sessmgr_resume, rdp_sessmgr_open_auth
<1>2. wpc[w] \notin Connected /\ issued_for[w] = None
  BY <1>1 DEF Connected, CookieInv, IssuedAt
<1>3. CASE rdp_sessmgr_resume(w)
  <2>1. PICK c \in Conns, id \in LogonIds, v \in Workers :
          /\ issued_for[v] # None /\ Connect(w, c, ResumeReq(id, v))
          /\ presented' = [presented EXCEPT ![w] = v]
    BY <1>3 DEF rdp_sessmgr_resume
  <2>2. Goto(w, "resume") /\ mode' = [mode EXCEPT ![w] = "resume"]
    BY <1>3 DEF rdp_sessmgr_resume
  <2>3. PICK r \in Requests : r = ResumeReq(id, v)
    BY RequestTypes DEF ArcRandom
  <2>4. r.op = "RESUME" /\ r.arc = v /\ v # None
    BY <2>3, NoneAssumption DEF ResumeReq
  <2>5. wpc'[w] = "resume" /\ mode'[w] = "resume" /\ presented'[w] = v
    BY <2>1, <2>2, WorkerFacts DEF Goto, LoginVarsTyped
  <2>6. OthersKept(w)
    BY <1>1, <2>1, <2>2, WorkerFacts DEF OthersKept, Goto, LoginVarsTyped
  <2>7. IssuedAt(w)' /\ OpensAt(w)'
    BY <1>1, <1>2, <2>1, <2>4, <2>5 DEF IssuedAt, OpensAt
  <2>8. OwnBound(w)
    BY <1>2, <2>1, <2>3, <2>4, <2>5, ConnectBound
  <2> QED
    BY <2>6, <2>7, <2>8, WorkerCookie
<1>4. CASE \E m \in LoginPaths \cup {"greeter"}, u \in Users :
             rdp_sessmgr_open_auth(w, m, u)
  <2>1. PICK m \in LoginPaths \cup {"greeter"}, u \in Users :
          rdp_sessmgr_open_auth(w, m, u)
    BY <1>4
  <2>2. /\ Goto(w, "auth") /\ mode' = [mode EXCEPT ![w] = m] /\ presented' = presented
        /\ \E c \in Conns : Connect(w, c, AuthReq(u))
    BY <2>1 DEF rdp_sessmgr_open_auth
  <2>3. PICK r \in Requests : r = AuthReq(u)
    BY RequestTypes
  <2>4. r.op = "AUTH" /\ m # "resume"
    BY <2>3, WorkerAssumption DEF AuthReq
  <2>5. wpc'[w] = "auth" /\ mode'[w] = m
    BY <2>2, WorkerFacts DEF Goto, LoginVarsTyped
  <2>6. OthersKept(w)
    BY <1>1, <2>2, WorkerFacts DEF OthersKept, Goto, LoginVarsTyped
  <2>7. IssuedAt(w)' /\ OpensAt(w)'
    BY <1>1, <1>2, <2>4, <2>5 DEF IssuedAt, OpensAt
  <2>8. OwnBound(w)
    BY <1>2, <2>2, <2>3, <2>4, ConnectBound
  <2> QED
    BY <2>6, <2>7, <2>8, WorkerCookie
<1> QED
  BY <1>3, <1>4

(***************************************************************************)
(* SUSPEND hands the session in with the cookie issued for it.             *)
(***************************************************************************)
LEMMA SuspendCallCookie ==
    ASSUME CommInv, CookieInv, NEW w \in Workers, UNCHANGED mgrVars,
           rdp_sessmgr_suspend(w)
    PROVE  CookieInv'
<1>1. /\ wpc[w] = "proxy" /\ mode[w] \in {"resume", "greeter"} /\ Goto(w, "suspend")
      /\ UNCHANGED <<mode, be_fd, presented, issued_for>>
      /\ \E c \in Conns : Connect(w, c, SuspendReq(logon_id[w], w, be_fd[w]))
  BY DEF rdp_sessmgr_suspend
<1>2. issued_for[w] = be_fd[w]
  BY <1>1 DEF CookieInv, IssuedAt
<1>3. /\ logon_id[w] \in LogonIds \cup {None} /\ w \in ArcRandom
      /\ be_fd[w] \in Sessions \cup {None}
  BY WorkerFacts DEF LoginVarsTyped, ArcRandom
<1>4. PICK r \in Requests : r = SuspendReq(logon_id[w], w, be_fd[w])
  BY <1>3, RequestTypes
<1>5. r.op = "SUSPEND" /\ r.arc = w /\ r.fd = be_fd[w]
  BY <1>4 DEF SuspendReq
<1>6. PICK c \in Conns : Connect(w, c, r)
  BY <1>1, <1>4
<1>7. OthersKept(w)
  BY <1>1, WorkerFacts DEF OthersKept, Goto
<1>8. wpc'[w] = "suspend" /\ wpc[w] \notin Connected
  BY <1>1, WorkerFacts DEF Goto, Connected
<1>9. IssuedAt(w)' /\ OpensAt(w)'
  BY <1>8 DEF IssuedAt, OpensAt
<1>10. OwnBound(w)
  BY <1>1, <1>2, <1>5, <1>6, <1>8, ConnectBound
<1> QED
  BY <1>7, <1>9, <1>10, WorkerCookie

(***************************************************************************)
(* A session attached: by RESUME, the reply brings the session of the      *)
(* cookie shown; by SPAWN, the greeter issues the first cookie.            *)
(***************************************************************************)
LEMMA AttachCookie ==
    ASSUME CommInv, CookieInv, NEW w \in Workers, UNCHANGED mgrVars,
           Resumed(w) \/ Spawned(w)
    PROVE  CookieInv'
<1>1. /\ wpc[w] \in {"resume", "spawn"} /\ Granted(w) /\ CloseConn(w)
      /\ Goto(w, "proxy") /\ UNCHANGED <<mode, presented>>
      /\ be_fd' = [be_fd EXCEPT ![w] = Reply(w).fd]
  BY DEF Resumed, Spawned
<1>2. IssuedAt(w) /\ issued_for[w] = None
  BY <1>1 DEF CookieInv, IssuedAt
<1>3. PICK c \in Conns : c = wconn[w]
  BY <1>1, WorkerFacts DEF Connected
<1>4. /\ conn[c].rsp # None /\ conn[c].rsp.ok /\ conn[c].owner = w
  BY <1>1, <1>3, NoneAssumption DEF Granted, Reply, CommInv, Links
<1>5. PICK s \in Sessions : s = conn[c].rsp.fd /\ s = Reply(w).fd
  <2>1. conn[c].rsp \in Replies /\ ReplyShape(conn[c].rsp, wpc[w])
    BY <1>4 DEF CommInv, TypeOK, ProtoTypeOK, ConnStates, Dialogue
  <2>2. conn[c].rsp.fd \in Sessions
    BY <1>1, <1>4, <2>1 DEF ReplyShape, Replies
  <2> QED
    BY <1>3, <2>2 DEF Reply
<1>6. /\ issued_for' \in [Workers -> Sessions \cup {None}]
      /\ \A v \in Workers \ {w} : issued_for'[v] = issued_for[v]
      /\ mode[w] \in {"resume", "greeter"} => issued_for'[w] = s
  <2>1. CASE Resumed(w)
    BY <1>5, <2>1, WorkerFacts DEF Resumed, IssueCookie, LoginVarsTyped
  <2>2. CASE Spawned(w)
    <3>1. mode[w] # "resume"
      BY <1>2, <2>2 DEF Spawned, IssuedAt
    <3>2. CASE mode[w] = "greeter"
      BY SMTT(60), <1>5, <2>2, <3>2, WorkerFacts DEF Spawned, IssueCookie, LoginVarsTyped
    <3>3. CASE mode[w] # "greeter"
      BY <2>2, <3>1, <3>3, WorkerFacts DEF Spawned, LoginVarsTyped
    <3> QED
      BY <3>2, <3>3
  <2> QED
    BY <2>1, <2>2
<1>7. OthersKept(w)
  BY <1>1, <1>2, <1>6, WorkerFacts DEF OthersKept, Goto
<1>8. wpc'[w] = "proxy" /\ be_fd'[w] = s
  BY <1>1, <1>5, WorkerFacts DEF Goto
<1>9. mode[w] = "resume" =>
        /\ wpc[w] = "resume" /\ presented[w] \in Workers
        /\ issued_for[presented[w]] = s /\ issued_for'[presented[w]] = s
  <2> SUFFICES ASSUME mode[w] = "resume"
               PROVE  /\ wpc[w] = "resume" /\ presented[w] \in Workers
                      /\ issued_for[presented[w]] = s /\ issued_for'[presented[w]] = s
    OBVIOUS
  <2>1. wpc[w] = "resume"
    BY <1>1, <1>2 DEF IssuedAt
  <2>2. presented[w] # None /\ presented[w] \in ArcRandom
    BY <1>2, <2>1, WorkerFacts DEF IssuedAt, LoginVarsTyped
  <2>3. presented[w] \in Workers
    BY <2>2 DEF ArcRandom
  <2>4. issued_for[presented[w]] = s
    <3>1. Told(conn[c]) /\ conn[c].rsp.fd # None
      BY <1>5, NoneAssumption DEF CookieInv
    <3> QED
      BY <1>4, <1>5, <2>1, <3>1 DEF Told
  <2>5. issued_for'[presented[w]] = s
    BY <1>7, <2>3, <2>4, StillIssued, NoneAssumption
  <2> QED
    BY <2>1, <2>3, <2>4, <2>5
<1>10. IssuedAt(w)'
  BY <1>1, <1>6, <1>8, <1>9, NoneAssumption DEF IssuedAt
<1>11. OpensAt(w)'
  BY <1>1, <1>8, <1>9 DEF OpensAt
<1>12. OwnBound(w)
  BY <1>1, <1>3, <1>7, CloseBound, NoneAssumption
<1> QED
  BY <1>7, <1>10, <1>11, <1>12, WorkerCookie

(***************************************************************************)
(* The dialogue of a login carries no cookie.                              *)
(***************************************************************************)
LEMMA TalkCookie ==
    ASSUME CommInv, CookieInv, NEW w \in Workers, UNCHANGED mgrVars,
           LoggedIn(w) \/ rdp_sessmgr_spawn(w)
    PROVE  CookieInv'
<1>1. /\ wpc[w] \in {"auth", "authed"} /\ UNCHANGED <<mode, presented, be_fd, issued_for>>
      /\ \E p \in {"authed", "spawn"} : Goto(w, p)
  BY DEF LoggedIn, rdp_sessmgr_spawn
<1>2. OthersKept(w)
  BY <1>1, WorkerFacts DEF OthersKept, Goto
<1>3. wpc'[w] \in {"authed", "spawn"} /\ IssuedAt(w)
  BY <1>1, WorkerFacts DEF Goto, CookieInv
<1>4. IssuedAt(w)' /\ OpensAt(w)'
  BY <1>1, <1>3 DEF IssuedAt, OpensAt
<1>5. PICK c \in Conns : c = wconn[w]
  BY <1>1, WorkerFacts DEF Connected
<1>6. conn[c] \in ConnStates /\ conn[c].up /\ conn[c].owner = w
  BY SMTT(60), <1>5, NoneAssumption DEF CommInv, TypeOK, ProtoTypeOK, Links
<1>7. PICK z \in ConnStates :
        /\ conn'[c] = z /\ \A d \in Conns \ {c} : conn'[d] = conn[d]
        /\ z.owner = w
        /\ z.req = conn[c].req \/ z.req = SpawnReq
  <2>1. CASE LoggedIn(w)
    <3>1. PICK z \in ConnStates : z = [conn[c] EXCEPT !.rsp = None]
      BY <1>6 DEF ConnStates
    <3>2. conn'[c] = z /\ \A d \in Conns \ {c} : conn'[d] = conn[d]
      BY <1>5, <2>1, <3>1, WorkerFacts DEF LoggedIn
    <3>3. z.owner = w /\ z.req = conn[c].req
      BY <1>6, <3>1 DEF ConnStates
    <3> QED
      BY <3>2, <3>3
  <2>2. CASE rdp_sessmgr_spawn(w)
    <3>1. PICK z \in ConnStates : z = [conn[c] EXCEPT !.req = SpawnReq]
      BY <1>6, RequestTypes DEF ConnStates
    <3>2. conn'[c] = z /\ \A d \in Conns \ {c} : conn'[d] = conn[d]
      BY <1>5, <2>2, <3>1, WorkerFacts DEF rdp_sessmgr_spawn
    <3>3. z.owner = w /\ z.req = SpawnReq
      BY <1>6, <3>1 DEF ConnStates
    <3> QED
      BY <3>2, <3>3
  <2> QED
    BY <2>1, <2>2
<1>8. conn[c].req # None => conn[c].req.op = "AUTH"
  <2>1. ASSUME conn[c].req # None
        PROVE  conn[c].req \in Requests /\ wpc[w] = AsksAt(conn[c].req.op)
    BY <1>6, <2>1 DEF CommInv, Dialogue, ConnStates
  <2>2. ASSUME conn[c].req # None PROVE conn[c].req.op \in Ops
    BY <2>1, <2>2 DEF Requests
  <2> QED
    BY <1>1, <2>1, <2>2 DEF AsksAt, Ops
<1>9. Asked(conn[c])' /\ Told(conn[c])'
  <2>1. SpawnReq.op = "SPAWN"
    BY DEF SpawnReq
  <2>2. z.req # None => z.req.op \in {"AUTH", "SPAWN"}
    BY <1>7, <1>8, <2>1
  <2>3. Asked(conn[c])'
    BY <1>7, <2>2 DEF Asked
  <2>4. Told(conn[c])'
    BY <1>3, <1>7 DEF Told
  <2> QED
    BY <2>3, <2>4
<1>10. pc = "resume" => conn'[cur].req = conn[cur].req
  <2> SUFFICES ASSUME pc = "resume" PROVE conn'[cur].req = conn[cur].req
    OBVIOUS
  <2>1. cur \in Conns /\ conn[cur].req # None /\ conn[cur].req.op = "RESUME"
    BY WorkingFacts DEF CommInv, Serving
  <2>2. cur # c
    BY <1>8, <2>1
  <2> QED
    BY <1>7, <2>1, <2>2
<1>11. OwnBound(w)
  BY <1>5, <1>7, <1>9, <1>10 DEF OwnBound
<1> QED
  BY <1>2, <1>4, <1>11, WorkerCookie

-----------------------------------------------------------------------------
(***************************************************************************)
(* Every step keeps cookies and sessions together.                         *)
(***************************************************************************)
LEMMA CookieStep ==
    ASSUME CommInv, CookieInv, [Next]_vars
    PROVE  CookieInv'
<1>1. CASE MgrNext /\ UNCHANGED workerVars
  BY <1>1, QuietCookie, ClientCookie, RefusalCookie, SuspendCookie, ResumeTakeCookie,
     HandoutCookie DEF MgrNext, MgrStep
<1>2. ASSUME NEW w \in Workers, WorkerStep(w) \/ Killed(w), UNCHANGED mgrVars
      PROVE  CookieInv'
  BY <1>2, OpenCookie, AttachCookie, RefusedCookie, TalkCookie, SuspendCallCookie,
     EndsCookie DEF WorkerStep
<1>3. CASE \E s \in Sessions : SessionExits(s)
  BY <1>3, QuietCookie DEF SessionExits
<1>4. CASE UNCHANGED vars
  BY <1>4, QuietCookie DEF vars
<1> QED
  BY <1>1, <1>2, <1>3, <1>4 DEF Next, Finished

(***************************************************************************)
(* At the start no cookie exists.                                          *)
(***************************************************************************)
LEMMA InitCookie == Init => CookieInv
<1> SUFFICES ASSUME Init PROVE CookieInv
  OBVIOUS
<1>1. FreeConn.req = None /\ FreeConn.rsp = None /\ ~NoSlot.in_use
  BY DEF FreeConn, NoSlot
<1>2. ASSUME NEW w \in Workers PROVE IssuedAt(w) /\ OpensAt(w)
  BY DEF Init, WorkerInit, IssuedAt, OpensAt
<1>3. ASSUME NEW c \in Conns PROVE Asked(conn[c]) /\ Told(conn[c])
  BY <1>1 DEF Init, ProtoInit, Asked, Told
<1>4. ASSUME NEW i \in Slots PROVE Bound(suspended[i])
  BY <1>1 DEF Init, MgrInit, Bound
<1>5. Taken
  BY DEF Init, MgrInit, Taken
<1> QED
  BY <1>2, <1>3, <1>4, <1>5 DEF CookieInv

-----------------------------------------------------------------------------
(***************************************************************************)
(* Accounts.                                                               *)
(***************************************************************************)

(***************************************************************************)
(* A connection whose messages are kept or dropped and whose ends are not  *)
(* exchanged, when the manager's step keeps the handle or frees it.        *)
(***************************************************************************)
LEMMA TalkKept ==
    ASSUME AccountInv, UNCHANGED workerVars, UNCHANGED sess_user, NEW c \in Conns,
           conn'[c].req = None \/ conn'[c].req = conn[c].req,
           conn'[c].rsp = None \/ conn'[c].rsp = conn[c].rsp,
           conn'[c].up = conn[c].up,
           conn'[c].up \/ conn'[c].rsp # None => conn'[c].owner = conn[c].owner,
           auth' = None \/ (auth' = auth /\ (c = cur' => c = cur)) \/ c # cur'
    PROVE  Named(c)' /\ Linked(c)' /\ Given(c)'
<1>1. Named(c) /\ Linked(c) /\ Given(c)
  BY DEF AccountInv
<1>2. Named(c)'
  BY <1>1 DEF Named, workerVars
<1>3. Linked(c)'
  BY <1>1 DEF Linked, workerVars
<1>4. Given(c)'
  BY <1>1 DEF Given, workerVars
<1> QED
  BY <1>2, <1>3, <1>4

(***************************************************************************)
(* The manager's steps that start no session leave the workers' part.      *)
(***************************************************************************)
LEMMA ManagerAccount ==
    ASSUME AccountInv, UNCHANGED workerVars, UNCHANGED sess_user,
           auth' # None => cur' # None,
           \A c \in Conns : Named(c)' /\ Linked(c)' /\ Given(c)',
           Opened'
    PROVE  AccountInv'
<1>1. ASSUME NEW w \in Workers PROVE OwnAt(w)'
  BY DEF AccountInv, OwnAt, workerVars
<1> QED
  BY <1>1 DEF AccountInv

(***************************************************************************)
(* The steps that touch neither a connection nor the handle.               *)
(***************************************************************************)
LEMMA QuietAccount ==
    ASSUME CommInv, AccountInv, UNCHANGED workerVars,
           \/ ClientLeaves \/ on_sigchld \/ Clock \/ SpawnRecord \/ AuthBegin
           \/ ResumeTake \/ UNCHANGED vars
           \/ \E s \in Sessions : MonitorStep(s) \/ SessionExits(s)
    PROVE  AccountInv'
<1>1. UNCHANGED <<conn, cur, auth, sess_user>>
  BY DEF ClientLeaves, on_sigchld, Clock, SpawnRecord, AuthBegin, ResumeTake, vars,
         MonitorStep, MonitorFails, MonitorStarts, MonitorExits, SessionExits,
         mgrVars, clientVars, monitorVars, protoVars
<1>2. pc' \in {"record", "status"} => pc \in {"record", "status"} /\ born' = born
  BY DEF ClientLeaves, on_sigchld, Clock, SpawnRecord, AuthBegin, ResumeTake, vars,
         MonitorStep, MonitorFails, MonitorStarts, MonitorExits, SessionExits,
         mgrVars, clientVars, monitorVars, protoVars
<1>3. \A c \in Conns : Named(c)' /\ Linked(c)' /\ Given(c)'
  BY <1>1, TalkKept
<1>4. Opened'
  BY <1>1, <1>2 DEF Opened, AccountInv
<1> QED
  BY <1>1, <1>3, <1>4, ManagerAccount DEF AccountInv

(***************************************************************************)
(* accept finds no handle, and the end of handle_client frees it.          *)
(***************************************************************************)
LEMMA ClientAccount ==
    ASSUME CommInv, AccountInv, UNCHANGED workerVars, accept \/ EndClient
    PROVE  AccountInv'
<1>1. /\ pc' \notin {"record", "status"} /\ UNCHANGED sess_user
  BY DEF accept, EndClient, monitorVars
<1>2. conn \in [Conns -> ConnStates]
  BY DEF CommInv, TypeOK, ProtoTypeOK
<1>3. auth' = None
  BY DEF accept, EndClient, AccountInv, CommInv, Serving
<1>4. CASE accept
  <2>1. PICK d \in Conns : d = Head(backlog)
    BY SMTT(60), <1>4 DEF accept, CommInv, TypeOK, ProtoTypeOK
  <2>2. conn' = [conn EXCEPT ![d].srv = "serving"]
    BY <1>4, <2>1 DEF accept
  <2>3. conn'[d] = [conn[d] EXCEPT !.srv = "serving"]
        /\ \A c \in Conns \ {d} : conn'[c] = conn[c]
    BY <1>2, <2>2
  <2>4. conn[d] \in ConnStates
    BY <1>2
  <2>5. /\ conn'[d].req = conn[d].req /\ conn'[d].rsp = conn[d].rsp
        /\ conn'[d].up = conn[d].up /\ conn'[d].owner = conn[d].owner
    BY <2>3, <2>4 DEF ConnStates
  <2>6. \A c \in Conns : Named(c)' /\ Linked(c)' /\ Given(c)'
    BY <1>1, <1>3, <2>3, <2>5, TalkKept
  <2> QED
    BY <1>1, <1>3, <2>6, ManagerAccount DEF Opened
<1>5. CASE EndClient
  <2>1. PICK d \in Conns : d = cur
    BY <1>5 DEF EndClient, CommInv, Serving, TypeOK, MgrTypeOK
  <2>2. conn[d] \in ConnStates /\ ConnShape(conn[d]) /\ conn[d].srv = "serving"
    BY <1>2, <2>1, NoneAssumption DEF CommInv, Links, Serving
  <2>3. PICK z \in ConnStates :
          /\ z = ClosedByManager(conn[d]) /\ z.req = None /\ z.rsp = conn[d].rsp
          /\ z.up = conn[d].up /\ (z.up => z.owner = conn[d].owner)
    BY <2>2, ClosedByManagerShape
  <2>4. z.rsp # None => z.owner = conn[d].owner
    BY <2>2, <2>3 DEF ConnShape
  <2>5. conn'[d] = z /\ \A c \in Conns \ {d} : conn'[c] = conn[c]
    BY <1>2, <1>5, <2>1, <2>3 DEF EndClient
  <2>6. Named(d)' /\ Linked(d)' /\ Given(d)'
    BY <1>1, <1>3, <2>3, <2>4, <2>5, TalkKept
  <2>7. \A c \in Conns \ {d} : Named(c)' /\ Linked(c)' /\ Given(c)'
    BY <1>1, <1>3, <2>5, TalkKept
  <2> QED
    BY <1>1, <1>3, <2>6, <2>7, ManagerAccount DEF Opened
<1> QED
  BY <1>4, <1>5

(***************************************************************************)
(* reply(), with the handle kept, freed or made for the worker's user.     *)
(***************************************************************************)
LEMMA AnswerAccount ==
    ASSUME CommInv, AccountInv, UNCHANGED workerVars, UNCHANGED <<cur, sess_user>>,
           NEW d \in Conns, d = cur, NEW m \in Replies, Answer(m), pc' = "poll",
           auth' # None /\ conn[d].up => auth' = AuthName[wuser[conn[d].owner]],
           conn[d].up /\ m.fd # None /\ wpc[conn[d].owner] = "spawn"
             => /\ sess_user[m.fd] = AuthName[wuser[conn[d].owner]]
                /\ sess_user[m.fd] \notin NoShell
    PROVE  AccountInv'
<1>1. conn \in [Conns -> ConnStates] /\ ConnShape(conn[d]) /\ conn[d].srv = "serving"
  BY SMTT(60), NoneAssumption DEF CommInv, TypeOK, ProtoTypeOK, Links, Serving
<1>2. PICK z \in ConnStates :
        /\ z = Replied(conn[d], m)
        /\ z.req = None /\ z.rsp = IF conn[d].up THEN m ELSE None
        /\ z.owner = conn[d].owner /\ z.up = conn[d].up
  BY <1>1, RepliedShape
<1>3. conn'[d] = z /\ \A c \in Conns \ {d} : conn'[c] = conn[c]
  BY <1>1, <1>2 DEF Answer
<1>4. Named(d)'
  BY <1>2, <1>3 DEF Named
<1>5. Linked(d)'
  BY <1>2, <1>3 DEF Linked, workerVars
<1>6. Given(d)'
  BY <1>2, <1>3 DEF Given, workerVars
<1>7. \A c \in Conns \ {d} : Named(c)' /\ Linked(c)' /\ Given(c)'
  BY <1>3, TalkKept
<1>8. cur' # None
  BY NoneAssumption
<1> QED
  BY <1>4, <1>5, <1>6, <1>7, <1>8, ManagerAccount DEF Opened

(***************************************************************************)
(* The answers that carry no descriptor and make no handle.                *)
(***************************************************************************)
LEMMA RefusalAccount ==
    ASSUME CommInv, AccountInv, UNCHANGED workerVars,
           \/ AuthThrottled \/ AuthRefuses \/ SpawnRefused \/ SpawnFailed
           \/ ResumeRefused \/ handle_suspend
    PROVE  AccountInv'
<1>1. /\ pc' = "poll" /\ UNCHANGED <<cur, sess_user>> /\ auth' \in {auth, None}
      /\ Answer(Refusal) \/ Answer(Success(None))
  BY DEF AuthThrottled, AuthRefuses, SpawnRefused, SpawnFailed, ResumeRefused,
         handle_suspend, Received, clientVars, monitorVars
<1>2. PICK d \in Conns : d = cur
  BY ReceivedFacts, WorkingFacts DEF AuthThrottled, AuthRefuses, SpawnRefused,
     SpawnFailed, ResumeRefused, handle_suspend, CommInv, Serving
<1>3. auth' # None /\ conn[d].up => auth' = AuthName[wuser[conn[d].owner]]
  BY <1>1, <1>2 DEF AccountInv, Linked
<1>4. /\ Refusal \in Replies /\ Refusal.fd = None
      /\ Success(None) \in Replies /\ Success(None).fd = None
  BY ReplyShapes DEF Refusal, Success
<1> QED
  BY <1>1, <1>2, <1>3, <1>4, AnswerAccount

(***************************************************************************)
(* rdp_auth_user accepts: the handle is for the name in the request, which *)
(* is the name its worker logs in with.                                    *)
(***************************************************************************)
LEMMA AcceptsAccount ==
    ASSUME CommInv, AccountInv, UNCHANGED workerVars, AuthAccepts
    PROVE  AccountInv'
<1>1. /\ pc = "auth" /\ pc' = "poll" /\ UNCHANGED <<cur, sess_user>>
      /\ auth' = AuthName[conn[cur].req.user] /\ Answer(Success(None))
  BY DEF AuthAccepts, monitorVars
<1>2. PICK d \in Conns : /\ d = cur /\ conn[d].req # None
                         /\ conn[d].req.op = "AUTH"
  BY <1>1, WorkingFacts DEF CommInv, Serving
<1>3. auth' # None /\ conn[d].up => auth' = AuthName[wuser[conn[d].owner]]
  BY <1>1, <1>2 DEF AccountInv, Named
<1>4. Success(None) \in Replies /\ Success(None).fd = None
  BY ReplyShapes DEF Success
<1> QED
  BY <1>1, <1>2, <1>3, <1>4, AnswerAccount

(***************************************************************************)
(* The answers with a descriptor: SPAWN's is for the worker whose login    *)
(* the handle was made for, RESUME's for one that does not wait for SPAWN. *)
(***************************************************************************)
LEMMA HandoutAccount ==
    ASSUME CommInv, AccountInv, UNCHANGED workerVars, ResumeReply \/ SpawnStarted
    PROVE  AccountInv'
<1>1. /\ pc' = "poll" /\ UNCHANGED <<cur, sess_user>> /\ auth' \in {auth, None}
      /\ pc = "resume" \/ pc = "status"
      /\ Answer(Success(born)) \/ Answer(Refusal)
  BY DEF ResumeReply, SpawnStarted, monitorVars
<1>2. PICK d \in Conns : d = cur
  BY <1>1, WorkingFacts DEF CommInv, Serving
<1>3. PICK s \in Sessions : s = born
  BY <1>1 DEF CommInv, Serving, TypeOK, MgrTypeOK
<1>4. /\ Success(s) \in Replies /\ Success(s).fd = s
      /\ Refusal \in Replies /\ Refusal.fd = None
  BY ReplyShapes DEF Success, Refusal
<1>5. conn[d].req # None /\ conn[d].req.op = IF pc = "resume" THEN "RESUME" ELSE "SPAWN"
  BY <1>1, <1>2, WorkingFacts DEF CommInv, Serving
<1>6. conn[d].up => wpc[conn[d].owner] = AsksAt(conn[d].req.op)
  BY <1>5 DEF CommInv, Dialogue
<1>7. Linked(d) /\ Opened
  BY DEF AccountInv
<1>8. conn[d].up /\ wpc[conn[d].owner] = "spawn"
        => /\ sess_user[s] = AuthName[wuser[conn[d].owner]]
           /\ sess_user[s] \notin NoShell
  <2>1. CASE pc = "resume"
    BY <1>5, <1>6, <2>1 DEF AsksAt
  <2>2. CASE pc = "status"
    BY <1>2, <1>3, <1>7, <2>2 DEF Linked, Opened
  <2> QED
    BY <1>1, <2>1, <2>2
<1>9. auth' # None /\ conn[d].up => auth' = AuthName[wuser[conn[d].owner]]
  BY <1>1, <1>2, <1>7 DEF Linked
<1> QED
  BY <1>1, <1>2, <1>3, <1>4, <1>8, <1>9, AnswerAccount

(***************************************************************************)
(* The fork: nobody holds the session that is still to be born, so no      *)
(* account that is settled changes.                                        *)
(***************************************************************************)
LEMMA ForkAccount ==
    ASSUME CommInv, Exclusive, AccountInv, UNCHANGED workerVars,
           NEW s \in Sessions, SpawnFork(s)
    PROVE  AccountInv'
<1>1. /\ UNCHANGED <<conn, cur, auth>> /\ born' = s /\ auth # None /\ auth \notin NoShell
      /\ monitor[s] = "unborn" /\ sess_user' = [sess_user EXCEPT ![s] = auth]
  BY DEF SpawnFork, MaySpawn, protoVars
<1>2. sess_user \in [Sessions -> Users \cup {None}]
  BY DEF CommInv, TypeOK, MgrTypeOK
<1>3. sess_user'[s] = auth /\ \A t \in Sessions \ {s} : sess_user'[t] = sess_user[t]
  BY <1>1, <1>2
<1>4. <<"unborn", None>> \in Holders(s)
  BY <1>1, HoldersAre
<1>5. \A x \in Holders(s) : x = <<"unborn", None>>
  BY <1>4 DEF Exclusive
<1>6. ASSUME NEW c \in Conns PROVE Named(c)' /\ Linked(c)' /\ Given(c)'
  <2>1. Named(c) /\ Linked(c) /\ Given(c)
    BY DEF AccountInv
  <2>2. ~Carries(c, s)
    BY <1>5, HoldersAre
  <2>3. conn[c].rsp # None /\ conn[c].rsp.fd # None => conn[c].rsp.fd \in Sessions \ {s}
    <3>1. conn[c] \in ConnStates
      BY DEF CommInv, TypeOK, ProtoTypeOK
    <3> QED
      BY <2>2, <3>1 DEF Carries, ConnStates, Replies
  <2>4. Given(c)'
    BY <1>1, <1>3, <2>1, <2>3 DEF Given, workerVars
  <2>5. Named(c)'
    BY <1>1, <2>1 DEF Named, workerVars
  <2>6. Linked(c)'
    BY <1>1, <2>1 DEF Linked, workerVars
  <2> QED
    BY <2>4, <2>5, <2>6
<1>7. ASSUME NEW w \in Workers PROVE OwnAt(w)'
  <2>1. wpc[w] = "proxy" => be_fd[w] \in Sessions
    BY WorkerFacts
  <2>2. wpc[w] = "proxy" => be_fd[w] # s
    BY <1>5, HoldersAre DEF Proxy
  <2>3. OwnAt(w)
    BY DEF AccountInv
  <2> QED
    BY <1>3, <2>1, <2>2, <2>3 DEF OwnAt, workerVars
<1>8. Opened'
  BY <1>1, <1>3 DEF Opened
<1>9. auth' # None => cur' # None
  BY <1>1 DEF AccountInv
<1> QED
  BY <1>6, <1>7, <1>8, <1>9 DEF AccountInv

-----------------------------------------------------------------------------
(***************************************************************************)
(* The workers' steps.  The other workers are left alone.                  *)
(***************************************************************************)
OthersLogins(w) ==
    \A v \in Workers \ {w} :
        /\ wpc'[v] = wpc[v] /\ mode'[v] = mode[v] /\ wuser'[v] = wuser[v]
        /\ be_fd'[v] = be_fd[v]

(***************************************************************************)
(* The worker's own connection.                                            *)
(***************************************************************************)
OwnTalk(w) ==
    \A c \in Conns :
        \/ conn'[c] = conn[c] /\ c # wconn[w]
        \/ Named(c)' /\ Linked(c)' /\ Given(c)'

(***************************************************************************)
(* What a worker's step has to show for its own part.                      *)
(***************************************************************************)
LEMMA WorkerAccount ==
    ASSUME CommInv, AccountInv, NEW w \in Workers, UNCHANGED mgrVars,
           OthersLogins(w), OwnTalk(w), OwnAt(w)'
    PROVE  AccountInv'
<1>1. UNCHANGED <<pc, cur, born, auth, sess_user>>
  BY DEF mgrVars, clientVars, monitorVars
<1>2. ASSUME NEW c \in Conns, conn'[c] = conn[c], c # wconn[w]
      PROVE  Named(c)' /\ Linked(c)' /\ Given(c)'
  <2>1. Named(c) /\ Linked(c) /\ Given(c)
    BY DEF AccountInv
  <2>2. ConnShape(conn[c]) /\ (conn[c].up => wconn[conn[c].owner] = c)
    BY DEF CommInv, Links
  <2>3. conn[c].up => conn[c].owner \in Workers \ {w}
    BY <1>2, <2>2 DEF ConnShape
  <2>4. conn[c].rsp # None => conn[c].owner \in Workers \ {w}
    BY <2>2, <2>3 DEF ConnShape
  <2>5. Named(c)'
    BY <1>2, <2>1, <2>3 DEF Named, OthersLogins
  <2>6. Linked(c)'
    BY <1>1, <1>2, <2>1, <2>3 DEF Linked, OthersLogins
  <2>7. Given(c)'
    BY <1>1, <1>2, <2>1, <2>4 DEF Given, OthersLogins
  <2> QED
    BY <2>5, <2>6, <2>7
<1>3. \A c \in Conns : Named(c)' /\ Linked(c)' /\ Given(c)'
  BY <1>2 DEF OwnTalk
<1>4. ASSUME NEW v \in Workers \ {w} PROVE OwnAt(v)'
  BY <1>1 DEF AccountInv, OwnAt, OthersLogins
<1>5. \A v \in Workers : OwnAt(v)'
  BY <1>4
<1>6. Opened' /\ (auth' # None => cur' # None)
  BY <1>1 DEF AccountInv, Opened
<1> QED
  BY <1>3, <1>5, <1>6 DEF AccountInv

(***************************************************************************)
(* A new connection is not the one being served.                           *)
(***************************************************************************)
LEMMA ConnectTalk ==
    ASSUME CommInv, NEW w \in Workers, NEW c \in Conns, NEW r \in Requests,
           Connect(w, c, r), wpc[w] \notin Connected, UNCHANGED mgrVars,
           r.op = "AUTH" => r.user = wuser'[w]
    PROVE  OwnTalk(w)
<1>1. wconn[w] = None /\ conn \in [Conns -> ConnStates]
  BY WorkerFacts
<1>2. PICK z : z = [owner |-> w, up |-> TRUE, srv |-> "queued", req |-> r, rsp |-> None]
  OBVIOUS
<1>3. conn'[c] = z /\ \A d \in Conns \ {c} : conn'[d] = conn[d]
  BY <1>1, <1>2 DEF Connect
<1>4. z.req = r /\ z.rsp = None /\ z.owner = w
  BY <1>2
<1>5. cur' = cur /\ c # cur
  <2>1. conn[c].srv = "free"
    BY SMTT(60) DEF Connect, FreeConn
  <2> QED
    BY <2>1, NoneAssumption DEF CommInv, Serving, mgrVars, clientVars
<1>6. Named(c)' /\ Linked(c)' /\ Given(c)'
  BY <1>3, <1>4, <1>5 DEF Named, Linked, Given
<1> QED
  BY <1>1, <1>3, <1>6, NoneAssumption DEF OwnTalk

(***************************************************************************)
(* A closed connection says nothing.                                       *)
(***************************************************************************)
LEMMA CloseTalk ==
    ASSUME CommInv, NEW w \in Workers, wconn[w] # None, CloseConn(w)
    PROVE  OwnTalk(w)
<1>1. PICK c \in Conns : c = wconn[w]
  BY WorkerFacts
<1>2. /\ conn \in [Conns -> ConnStates] /\ conn[c] \in ConnStates
      /\ ConnShape(conn[c]) /\ conn[c].up
  BY <1>1, NoneAssumption DEF CommInv, TypeOK, ProtoTypeOK, Links
<1>3. PICK z \in ConnStates :
        /\ z = ClosedByWorker(conn[c])
        /\ ~z.up /\ z.rsp = None /\ z.req = conn[c].req
  BY <1>2, ClosedByWorkerShape
<1>4. conn'[c] = z /\ \A d \in Conns \ {c} : conn'[d] = conn[d]
  BY <1>1, <1>2, <1>3 DEF CloseConn
<1>5. Named(c)' /\ Linked(c)' /\ Given(c)'
  BY <1>3, <1>4 DEF Named, Linked, Given
<1> QED
  BY <1>1, <1>4, <1>5 DEF OwnTalk

(***************************************************************************)
(* The steps that open a connection: an AUTH names the worker's user.      *)
(***************************************************************************)
LEMMA OpenAccount ==
    ASSUME CommInv, AccountInv, NEW w \in Workers, UNCHANGED mgrVars,
           \/ rdp_sessmgr_resume(w) \/ rdp_sessmgr_suspend(w)
           \/ \E m \in LoginPaths \cup {"greeter"}, u \in Users :
                rdp_sessmgr_open_auth(w, m, u)
    PROVE  AccountInv'
<1>1. wpc[w] \in {"start", "login", "greeter", "proxy"} /\ UNCHANGED be_fd
  BY DEF rdp_sessmgr_resume, rdp_sessmgr_suspend, rdp_sessmgr_open_auth
<1>2. wpc[w] \notin Connected
  BY <1>1 DEF Connected
<1>3. /\ \E p \in {"resume", "auth", "suspend"} : Goto(w, p)
      /\ mode' = mode \/ \E m : mode' = [mode EXCEPT ![w] = m]
      /\ wuser' = wuser \/ \E u \in Users : wuser' = [wuser EXCEPT ![w] = u]
  BY DEF rdp_sessmgr_resume, rdp_sessmgr_suspend, rdp_sessmgr_open_auth
<1>4. OthersLogins(w)
  BY <1>1, <1>3, WorkerFacts DEF OthersLogins, Goto, LoginVarsTyped
<1>5. wpc'[w] # "proxy"
  BY <1>3, WorkerFacts DEF Goto
<1>6. PICK c \in Conns, r \in Requests :
        Connect(w, c, r) /\ (r.op = "AUTH" => r.user = wuser'[w])
  <2>1. CASE rdp_sessmgr_resume(w)
    <3>1. PICK c \in Conns, id \in LogonIds, v \in Workers : Connect(w, c, ResumeReq(id, v))
      BY <2>1 DEF rdp_sessmgr_resume
    <3>2. ResumeReq(id, v) \in Requests /\ ResumeReq(id, v).op = "RESUME"
      BY RequestTypes DEF ResumeReq, ArcRandom
    <3> QED
      BY <3>1, <3>2
  <2>2. CASE rdp_sessmgr_suspend(w)
    <3>1. PICK c \in Conns : Connect(w, c, SuspendReq(logon_id[w], w, be_fd[w]))
      BY <2>2 DEF rdp_sessmgr_suspend
    <3>2. /\ SuspendReq(logon_id[w], w, be_fd[w]) \in Requests
          /\ SuspendReq(logon_id[w], w, be_fd[w]).op = "SUSPEND"
      BY RequestTypes, WorkerFacts DEF SuspendReq, ArcRandom, LoginVarsTyped
    <3> QED
      BY <3>1, <3>2
  <2>3. CASE \E m \in LoginPaths \cup {"greeter"}, u \in Users :
               rdp_sessmgr_open_auth(w, m, u)
    <3>1. PICK c \in Conns, u \in Users :
            Connect(w, c, AuthReq(u)) /\ wuser' = [wuser EXCEPT ![w] = u]
      BY <2>3 DEF rdp_sessmgr_open_auth
    <3>2. AuthReq(u) \in Requests /\ AuthReq(u).user = u
      BY RequestTypes DEF AuthReq
    <3>3. wuser'[w] = u
      BY <3>1, WorkerFacts DEF LoginVarsTyped
    <3> QED
      BY <3>1, <3>2, <3>3
  <2> QED
    BY <2>1, <2>2, <2>3
<1>7. OwnTalk(w)
  BY <1>2, <1>6, ConnectTalk
<1>8. OwnAt(w)'
  BY <1>5 DEF OwnAt
<1> QED
  BY <1>4, <1>7, <1>8, WorkerAccount

(***************************************************************************)
(* A session attached by SPAWN is one of the account; one attached by      *)
(* RESUME is the cookie's affair.                                          *)
(***************************************************************************)
LEMMA AttachAccount ==
    ASSUME CommInv, CookieInv, AccountInv, NEW w \in Workers, UNCHANGED mgrVars,
           Resumed(w) \/ Spawned(w)
    PROVE  AccountInv'
<1>1. /\ wpc[w] \in {"resume", "spawn"} /\ Granted(w) /\ CloseConn(w)
      /\ Goto(w, "proxy") /\ UNCHANGED <<mode, wuser>>
      /\ be_fd' = [be_fd EXCEPT ![w] = Reply(w).fd]
  BY DEF Resumed, Spawned
<1>2. PICK c \in Conns :
        /\ c = wconn[w] /\ conn[c].rsp # None /\ conn[c].owner = w
        /\ Reply(w) = conn[c].rsp /\ Reply(w).fd # None
  BY <1>1, GrantedSession
<1>3. OthersLogins(w)
  BY <1>1, WorkerFacts DEF OthersLogins, Goto
<1>4. be_fd'[w] = conn[c].rsp.fd /\ wuser'[w] = wuser[w] /\ mode'[w] = mode[w]
  BY <1>1, <1>2, WorkerFacts
<1>5. mode[w] # "resume" => wpc[w] = "spawn"
  BY <1>1 DEF CookieInv, IssuedAt
<1>6. Given(c) /\ sess_user' = sess_user
  BY DEF AccountInv, mgrVars, monitorVars
<1>7. OwnAt(w)'
  BY <1>2, <1>4, <1>5, <1>6 DEF OwnAt, Given
<1>8. OwnTalk(w)
  BY <1>1, <1>2, CloseTalk, NoneAssumption
<1> QED
  BY <1>3, <1>7, <1>8, WorkerAccount

(***************************************************************************)
(* The worker gives up a login, or leaves.                                 *)
(***************************************************************************)
LEMMA LeavingAccount ==
    ASSUME CommInv, AccountInv, NEW w \in Workers, UNCHANGED mgrVars,
           \/ ResumeFailed(w) \/ LoginRefused(w) \/ SpawnUnsent(w) \/ SpawnDenied(w)
           \/ GreeterCancelled(w) \/ ProxyEnds(w) \/ Suspended(w) \/ Killed(w)
    PROVE  AccountInv'
<1>1. /\ \E p \in {"login", "greeter", "done", "killed"} : Goto(w, p)
      /\ \E m : mode' = [mode EXCEPT ![w] = m]
      /\ wuser' = wuser \/ wuser' = [wuser EXCEPT ![w] = None]
      /\ be_fd' = be_fd \/ be_fd' = [be_fd EXCEPT ![w] = None]
  BY DEF ResumeFailed, LoginRefused, SpawnUnsent, SpawnDenied, GreeterCancelled,
         ProxyEnds, Suspended, Killed, GiveUp, Leave
<1>2. OthersLogins(w)
  BY <1>1, WorkerFacts DEF OthersLogins, Goto, LoginVarsTyped
<1>3. wpc'[w] # "proxy"
  BY <1>1, WorkerFacts DEF Goto
<1>4. OwnTalk(w)
  <2>1. CASE \/ ResumeFailed(w) \/ LoginRefused(w) \/ SpawnUnsent(w)
             \/ SpawnDenied(w) \/ Suspended(w)
    <3>1. /\ wpc[w] \in {"resume", "auth", "authed", "spawn", "suspend"}
          /\ CloseConn(w)
      BY <2>1 DEF ResumeFailed, LoginRefused, SpawnUnsent, SpawnDenied, Suspended, GiveUp
    <3> QED
      BY <3>1, WorkerFacts, CloseTalk DEF Connected
  <2>2. CASE GreeterCancelled(w) \/ ProxyEnds(w)
    <3>1. wpc[w] \in {"greeter", "proxy"} /\ UNCHANGED conn
      BY <2>2 DEF GreeterCancelled, ProxyEnds, protoVars
    <3>2. wconn[w] = None
      BY <3>1, WorkerFacts DEF Connected
    <3> QED
      BY <3>1, <3>2, NoneAssumption DEF OwnTalk
  <2>3. CASE Killed(w)
    <3>1. CASE wconn[w] = None
      BY <2>3, <3>1, NoneAssumption DEF Killed, OwnTalk
    <3>2. CASE wconn[w] # None
      BY <2>3, <3>2, CloseTalk DEF Killed
    <3> QED
      BY <3>1, <3>2
  <2> QED
    BY <2>1, <2>2, <2>3
<1>5. OwnAt(w)'
  BY <1>3 DEF OwnAt
<1> QED
  BY <1>2, <1>4, <1>5, WorkerAccount

(***************************************************************************)
(* The reply to AUTH is read, and SPAWN sent on the same connection, on    *)
(* behalf of the same user.                                                *)
(***************************************************************************)
LEMMA TalkAccount ==
    ASSUME CommInv, AccountInv, NEW w \in Workers, UNCHANGED mgrVars,
           LoggedIn(w) \/ rdp_sessmgr_spawn(w)
    PROVE  AccountInv'
<1>1. /\ wpc[w] \in {"auth", "authed"} /\ UNCHANGED <<mode, wuser, be_fd>>
      /\ \E p \in {"authed", "spawn"} : Goto(w, p)
  BY DEF LoggedIn, rdp_sessmgr_spawn
<1>2. OthersLogins(w) /\ wpc'[w] # "proxy"
  BY <1>1, WorkerFacts DEF OthersLogins, Goto
<1>3. PICK c \in Conns : c = wconn[w]
  BY <1>1, WorkerFacts DEF Connected
<1>4. conn[c] \in ConnStates /\ conn[c].up /\ conn[c].owner = w
  BY SMTT(60), <1>3, NoneAssumption DEF CommInv, TypeOK, ProtoTypeOK, Links
<1>5. PICK z \in ConnStates :
        /\ conn'[c] = z /\ \A d \in Conns \ {c} : conn'[d] = conn[d]
        /\ z.owner = w /\ z.up /\ z.rsp = None
        /\ z.req = conn[c].req \/ z.req = SpawnReq
  <2>1. CASE LoggedIn(w)
    <3>1. PICK z \in ConnStates : z = [conn[c] EXCEPT !.rsp = None]
      BY <1>4 DEF ConnStates
    <3>2. conn'[c] = z /\ \A d \in Conns \ {c} : conn'[d] = conn[d]
      BY <1>3, <2>1, <3>1, WorkerFacts DEF LoggedIn
    <3>3. z.owner = w /\ z.req = conn[c].req /\ z.up /\ z.rsp = None
      BY <1>4, <3>1 DEF ConnStates
    <3> QED
      BY <3>2, <3>3
  <2>2. CASE rdp_sessmgr_spawn(w)
    <3>1. PICK z \in ConnStates : z = [conn[c] EXCEPT !.req = SpawnReq]
      BY <1>4, RequestTypes DEF ConnStates
    <3>2. conn'[c] = z /\ \A d \in Conns \ {c} : conn'[d] = conn[d]
      BY <1>3, <2>2, <3>1, WorkerFacts DEF rdp_sessmgr_spawn
    <3>3. conn[c].rsp = None
      BY <1>4, <2>2 DEF rdp_sessmgr_spawn, CommInv, Dialogue, ReplyShape
    <3>4. z.owner = w /\ z.req = SpawnReq /\ z.up /\ z.rsp = None
      BY <1>4, <3>1, <3>3 DEF ConnStates
    <3> QED
      BY <3>2, <3>4
  <2> QED
    BY <2>1, <2>2
<1>6. Named(c) /\ Linked(c)
  BY DEF AccountInv
<1>7. SpawnReq.op = "SPAWN"
  BY DEF SpawnReq
<1>8. UNCHANGED <<auth, cur>>
  BY DEF mgrVars, clientVars
<1>9. Named(c)'
  BY <1>1, <1>4, <1>5, <1>6, <1>7 DEF Named
<1>10. Linked(c)'
  BY <1>1, <1>4, <1>5, <1>6, <1>8 DEF Linked
<1>11. Given(c)'
  BY <1>5 DEF Given
<1>12. OwnTalk(w)
  BY <1>3, <1>5, <1>9, <1>10, <1>11 DEF OwnTalk
<1>13. OwnAt(w)'
  BY <1>2 DEF OwnAt
<1> QED
  BY <1>2, <1>12, <1>13, WorkerAccount

-----------------------------------------------------------------------------
(***************************************************************************)
(* Every step keeps accounts and sessions together.                        *)
(***************************************************************************)
LEMMA AccountStep ==
    ASSUME CommInv, Exclusive, CookieInv, AccountInv, [Next]_vars
    PROVE  AccountInv'
<1>1. CASE MgrNext /\ UNCHANGED workerVars
  BY <1>1, QuietAccount, ClientAccount, RefusalAccount, AcceptsAccount,
     HandoutAccount, ForkAccount DEF MgrNext, MgrStep
<1>2. ASSUME NEW w \in Workers, WorkerStep(w) \/ Killed(w), UNCHANGED mgrVars
      PROVE  AccountInv'
  BY <1>2, OpenAccount, AttachAccount, LeavingAccount, TalkAccount DEF WorkerStep
<1>3. CASE \E s \in Sessions : SessionExits(s)
  BY <1>3, QuietAccount DEF SessionExits
<1>4. CASE UNCHANGED vars
  BY <1>4, QuietAccount DEF vars
<1> QED
  BY <1>1, <1>2, <1>3, <1>4 DEF Next, Finished

(***************************************************************************)
(* At the start nobody has logged in.                                      *)
(***************************************************************************)
LEMMA InitAccount == Init => AccountInv
<1> SUFFICES ASSUME Init PROVE AccountInv
  OBVIOUS
<1>1. FreeConn.req = None /\ FreeConn.rsp = None
  BY DEF FreeConn
<1>2. ASSUME NEW c \in Conns PROVE Named(c) /\ Linked(c) /\ Given(c)
  BY <1>1 DEF Init, ProtoInit, MgrInit, Named, Linked, Given
<1>3. ASSUME NEW w \in Workers PROVE OwnAt(w)
  BY DEF Init, WorkerInit, OwnAt
<1>4. Opened /\ auth = None
  BY DEF Init, MgrInit, Opened
<1> QED
  BY <1>2, <1>3, <1>4 DEF AccountInv
=============================================================================
