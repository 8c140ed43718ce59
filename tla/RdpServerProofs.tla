-------------------------- MODULE RdpServerProofs ---------------------------
(***************************************************************************)
(* Workers and session manager agree on what they say to each other, so    *)
(* that every variable keeps its type; a drive is unmounted by the time    *)
(* its monitor has been waited for, and not before the monitor is dead;    *)
(* and a suspend slot is kept for the client that can prove its cookie.    *)
(* For any number of workers, connections, sessions, users, logon ids and  *)
(* slots, and any bound on the clock.                                      *)
(***************************************************************************)
EXTENDS CommProofs, SequenceTheorems, FiniteSetTheorems

(***************************************************************************)
(* Most leaves are first-order: Zenon is tried first, then SMT.            *)
(***************************************************************************)
USE ZenonT(5), SMTT(90)

(***************************************************************************)
(* A connection that is accepted, whose reply is read, or on which SPAWN   *)
(* follows AUTH, stays well-formed.                                        *)
(***************************************************************************)
LEMMA AcceptedShape ==
    ASSUME NEW k \in ConnStates, ConnShape(k), k.srv = "queued"
    PROVE  LET z == [k EXCEPT !.srv = "serving"] IN
           /\ z \in ConnStates /\ ConnShape(z)
           /\ z.up = k.up /\ z.req = k.req /\ z.rsp = k.rsp
           /\ z.srv = "serving" /\ z.owner = k.owner
  BY DEF ConnStates, ConnShape, FreeConn

(***************************************************************************)
(* Reading a reply leaves a well-formed connection.                        *)
(***************************************************************************)
LEMMA ReadShape ==
    ASSUME NEW k \in ConnStates, ConnShape(k), k.up
    PROVE  LET z == [k EXCEPT !.rsp = None] IN
           /\ z \in ConnStates /\ ConnShape(z)
           /\ z.up = k.up /\ z.req = k.req /\ z.rsp = None
           /\ z.srv = k.srv /\ z.owner = k.owner
  BY DEF ConnStates, ConnShape, FreeConn

(***************************************************************************)
(* Sending a request on an open, quiet connection leaves a well-formed     *)
(* one.                                                                    *)
(***************************************************************************)
LEMMA AskedShape ==
    ASSUME NEW k \in ConnStates, ConnShape(k), k.up, k.rsp = None, k.srv # "closed",
           NEW r \in Requests
    PROVE  LET z == [k EXCEPT !.req = r] IN
           /\ z \in ConnStates /\ ConnShape(z)
           /\ z.up = k.up /\ z.req = r /\ z.rsp = None
           /\ z.srv = k.srv /\ z.owner = k.owner
  BY DEF ConnStates, ConnShape, FreeConn

-----------------------------------------------------------------------------
(***************************************************************************)
(* What the actions do to the connections, in the shapes they share.       *)
(***************************************************************************)

(***************************************************************************)
(* connect() and the first request of a worker that has no connection.     *)
(***************************************************************************)
LEMMA ConnectKeepsComm ==
    ASSUME CommInv, NEW w \in Workers, NEW c \in Conns, NEW r \in Requests,
           Connect(w, c, r), RequestShape(r), r.op # "SPAWN",
           wpc[w] \notin Connected,
           wconn' = [wconn EXCEPT ![w] = c],
           wpc' = [wpc EXCEPT ![w] = AsksAt(r.op)],
           pc' = pc, cur' = cur, born' = born
    PROVE  /\ conn' \in [Conns -> ConnStates]
           /\ backlog' \in Seq(Conns)
           /\ Serving' /\ Queue' /\ Links' /\ Dialogue'
<1>1. PICK z \in ConnStates :
        /\ z = [owner |-> w, up |-> TRUE, srv |-> "queued", req |-> r, rsp |-> None]
        /\ conn' = [conn EXCEPT ![c] = z]
  BY DEF Connect, ConnStates
<1>2. /\ z.owner = w /\ z.up /\ z.srv = "queued" /\ z.req = r /\ z.rsp = None
      /\ ConnShape(z)
  BY <1>1 DEF ConnShape
<1>3. /\ conn \in [Conns -> ConnStates]
      /\ wconn \in [Workers -> Conns \cup {None}]
      /\ wpc \in [Workers -> Places]
      /\ backlog \in Seq(Conns)
      /\ cur \in Conns \cup {None}
  BY DEF CommInv, TypeOK, ProtoTypeOK, MgrTypeOK, WorkerTypeOK
<1>4. conn' \in [Conns -> ConnStates] /\ conn'[c] = z
      /\ \A d \in Conns : d # c => conn'[d] = conn[d]
  BY <1>1, <1>3
<1>5. c # None /\ conn[c] = FreeConn /\ ~conn[c].up /\ conn[c].srv = "free"
  BY SMTT(60), NoneAssumption DEF Connect, FreeConn
<1>6. wconn[w] = None
  BY DEF CommInv, Links
<1>7. AsksAt(r.op) \in Connected /\ AsksAt(r.op) \in Places
  BY DEF Requests, Ops, AsksAt, Connected, Places
<1>8. Serving'
  BY <1>3, <1>4, <1>5 DEF CommInv, Serving, Working
<1>9. backlog' = Append(backlog, c)
  BY DEF Connect
<1>10. backlog' \in Seq(Conns)
  BY SMTT(60), <1>3, <1>9
<1>11. Queue'
  <2>1. PICK n \in Nat : n = Len(backlog)
    BY <1>3, LenProperties
  <2>2. /\ Len(backlog') = n + 1
        /\ backlog'[n + 1] = c
        /\ \A i \in 1 .. n : backlog'[i] = backlog[i]
    BY SMTT(60), <1>3, <1>9, <2>1, AppendProperties
  <2>3. \A i \in 1 .. n : backlog[i] \in Conns /\ conn[backlog[i]].srv = "queued"
    BY <1>3, <2>1, ElementOfSeq DEF CommInv, Queue
  <2>4. \A i \in 1 .. n : backlog[i] # c
    BY <1>5, <2>3
  <2>5. \A i, j \in 1 .. n : backlog[i] = backlog[j] => i = j
    BY <2>1 DEF CommInv, Queue
  <2>6. \A i \in 1 .. n + 1 : i = n + 1 \/ i \in 1 .. n
    BY SMTT(60), <2>1
  <2>7. \A i \in 1 .. n + 1 : conn'[backlog'[i]].srv = "queued"
    BY SMTT(60), <1>2, <1>4, <2>2, <2>3, <2>4, <2>6
  <2>8. \A i, j \in 1 .. n + 1 : backlog'[i] = backlog'[j] => i = j
    BY <2>2, <2>4, <2>5, <2>6
  <2> QED
    BY <2>2, <2>7, <2>8 DEF Queue
<1>12. Links'
  <2>1. \A d \in Conns : ConnShape(conn[d])
    BY DEF CommInv, Links
  <2>2. \A d \in Conns : d # c /\ conn[d].up => conn[d].owner \in Workers /\ conn[d].owner # w
    BY SMTT(60), <1>6, <2>1, NoneAssumption DEF CommInv, Links, ConnShape
  <2>3. \A d \in Conns : conn'[d].up => wconn'[conn'[d].owner] = d
    BY SMTT(60), <1>2, <1>3, <1>4, <2>2 DEF CommInv, Links
  <2>4. \A v \in Workers : v # w => wconn[v] # c
    BY <1>5 DEF CommInv, Links
  <2>5. \A v \in Workers :
          wconn'[v] # None => conn'[wconn'[v]].up /\ conn'[wconn'[v]].owner = v
    BY SMTT(60), <1>2, <1>3, <1>4, <2>4 DEF CommInv, Links
  <2>6. \A v \in Workers : wconn'[v] # None <=> wpc'[v] \in Connected
    BY SMTT(60), <1>3, <1>5, <1>7 DEF CommInv, Links
  <2> QED
    BY <1>2, <1>4, <2>1, <2>3, <2>5, <2>6 DEF Links
<1>13. Dialogue'
  <2>1. \A d \in Conns : d # c /\ (conn[d].up \/ conn[d].rsp # None)
          => conn[d].owner \in Workers /\ conn[d].owner # w
    BY SMTT(60), <1>6, NoneAssumption DEF CommInv, Links, ConnShape
  <2> QED
    BY SMTT(60), <1>2, <1>3, <1>4, <2>1 DEF CommInv, Dialogue
<1> QED
  BY <1>4, <1>8, <1>10, <1>11, <1>12, <1>13

(***************************************************************************)
(* close() by a worker, which goes on at a place without a connection.     *)
(***************************************************************************)
LEMMA CloseKeepsComm ==
    ASSUME CommInv, NEW w \in Workers, NEW p \in Places \ Connected,
           wconn[w] # None, CloseConn(w), Goto(w, p),
           pc' = pc, cur' = cur, born' = born
    PROVE  /\ conn' \in [Conns -> ConnStates]
           /\ backlog' \in Seq(Conns)
           /\ wconn' \in [Workers -> Conns \cup {None}]
           /\ Serving' /\ Queue' /\ Links' /\ Dialogue'
<1>1. /\ conn \in [Conns -> ConnStates]
      /\ wconn \in [Workers -> Conns \cup {None}]
      /\ wpc \in [Workers -> Places]
      /\ backlog \in Seq(Conns)
      /\ cur \in Conns \cup {None}
  BY DEF CommInv, TypeOK, ProtoTypeOK, MgrTypeOK, WorkerTypeOK
<1>2. PICK c \in Conns : c = wconn[w]
  BY <1>1
<1>3. /\ conn[c] \in ConnStates /\ ConnShape(conn[c])
      /\ conn[c].up /\ conn[c].owner = w /\ c # None
  BY <1>1, <1>2 DEF CommInv, Links
<1>4. PICK z \in ConnStates :
        /\ z = ClosedByWorker(conn[c]) /\ ConnShape(z)
        /\ ~z.up /\ z.rsp = None /\ z.req = conn[c].req
        /\ \/ z = FreeConn /\ conn[c].srv = "closed"
           \/ z.srv = conn[c].srv /\ z.owner = conn[c].owner /\ conn[c].srv # "closed"
  BY <1>3, ClosedByWorkerShape
<1>5. /\ conn' = [conn EXCEPT ![c] = z]
      /\ wconn' = [wconn EXCEPT ![w] = None]
      /\ wpc' = [wpc EXCEPT ![w] = p]
      /\ backlog' = backlog
  BY <1>2, <1>4 DEF CloseConn, Goto
<1>6. /\ conn' \in [Conns -> ConnStates] /\ conn'[c] = z
      /\ \A d \in Conns : d # c => conn'[d] = conn[d]
  BY <1>1, <1>5
<1>7. Serving'
  <2>1. cur = c => z.srv = conn[c].srv
    BY <1>3, <1>4 DEF CommInv, Serving
  <2> QED
    BY <1>1, <1>4, <1>6, <2>1 DEF CommInv, Serving, Working
<1>8. Queue'
  <2>1. \A i \in 1 .. Len(backlog) : backlog[i] \in Conns
    BY <1>1, ElementOfSeq
  <2> QED
    BY SMTT(60), <1>4, <1>5, <1>6, <2>1 DEF CommInv, Queue
<1>9. Links'
  <2>1. \A d \in Conns : d # c /\ conn[d].up => conn[d].owner \in Workers /\ conn[d].owner # w
    BY <1>2 DEF CommInv, Links, ConnShape
  <2>2. \A d \in Conns : conn'[d].up => wconn'[conn'[d].owner] = d
    BY SMTT(60), <1>1, <1>4, <1>5, <1>6, <2>1 DEF CommInv, Links
  <2>3. \A v \in Workers : v # w => wconn[v] # c
    BY <1>3 DEF CommInv, Links
  <2>4. \A v \in Workers :
          wconn'[v] # None => conn'[wconn'[v]].up /\ conn'[wconn'[v]].owner = v
    BY SMTT(60), <1>1, <1>5, <1>6, <2>3 DEF CommInv, Links
  <2>5. \A v \in Workers : wconn'[v] # None <=> wpc'[v] \in Connected
    BY SMTT(60), <1>1, <1>5 DEF CommInv, Links
  <2> QED
    BY SMTT(60), <1>4, <1>6, <2>2, <2>4, <2>5 DEF CommInv, Links
<1>10. Dialogue'
  <2>1. \A d \in Conns : d # c /\ (conn[d].up \/ conn[d].rsp # None)
          => conn[d].owner \in Workers /\ conn[d].owner # w
    BY <1>2 DEF CommInv, Links, ConnShape
  <2> QED
    BY <1>1, <1>4, <1>5, <1>6, <2>1 DEF CommInv, Dialogue
<1> QED
  BY <1>1, <1>5, <1>6, <1>7, <1>8, <1>9, <1>10

(***************************************************************************)
(* reply() to the request the manager has been working on, after which it  *)
(* polls the client again.                                                 *)
(***************************************************************************)
LEMMA AnswerKeepsComm ==
    ASSUME CommInv, NEW m \in Replies, cur # None, conn[cur].req # None,
           Answer(m), ReplyShape(m, AsksAt(conn[cur].req.op)),
           pc' = "poll", cur' = cur, born' = None,
           UNCHANGED <<backlog, wpc, wconn>>
    PROVE  /\ conn' \in [Conns -> ConnStates]
           /\ Serving' /\ Queue' /\ Links' /\ Dialogue'
<1>1. /\ conn \in [Conns -> ConnStates]
      /\ backlog \in Seq(Conns)
      /\ wconn \in [Workers -> Conns \cup {None}]
  BY DEF CommInv, TypeOK, ProtoTypeOK, MgrTypeOK, WorkerTypeOK
<1>2. PICK c \in Conns : c = cur
  BY DEF CommInv, TypeOK, MgrTypeOK
<1>3. /\ conn[c] \in ConnStates /\ ConnShape(conn[c])
      /\ conn[c].srv = "serving" /\ conn[c].req # None
  BY <1>1, <1>2 DEF CommInv, Links, Serving
<1>4. PICK z \in ConnStates :
        /\ z = Replied(conn[c], m) /\ ConnShape(z)
        /\ z.up = conn[c].up /\ z.req = None /\ z.srv = conn[c].srv
        /\ z.owner = conn[c].owner
        /\ z.rsp = IF conn[c].up THEN m ELSE None
  BY <1>3, RepliedShape
<1>5. conn' = [conn EXCEPT ![c] = z]
  BY <1>2, <1>4 DEF Answer
<1>6. /\ conn' \in [Conns -> ConnStates] /\ conn'[c] = z
      /\ \A d \in Conns : d # c => conn'[d] = conn[d]
  BY <1>1, <1>5
<1>7. Serving'
  BY <1>2, <1>3, <1>4, <1>6 DEF Serving
<1>8. Queue'
  <2>1. \A i \in 1 .. Len(backlog) : backlog[i] \in Conns
    BY <1>1, ElementOfSeq
  <2> QED
    BY <1>4, <1>6, <2>1 DEF CommInv, Queue
<1>9. Links'
  BY SMTT(60), <1>1, <1>4, <1>6 DEF CommInv, Links
<1>10. Dialogue'
  <2>1. conn[c].up => wpc[conn[c].owner] = AsksAt(conn[c].req.op)
    BY <1>3 DEF CommInv, Dialogue
  <2>2. z.rsp # None => ReplyShape(z.rsp, wpc[z.owner])
    BY <1>2, <1>4, <2>1
  <2> QED
    BY <1>4, <1>6, <2>2 DEF CommInv, Dialogue
<1> QED
  BY <1>6, <1>7, <1>8, <1>9, <1>10

(***************************************************************************)
(* accept() takes the first connection off the queue.                      *)
(***************************************************************************)
LEMMA AcceptKeepsComm ==
    ASSUME CommInv, accept, UNCHANGED <<wpc, wconn>>
    PROVE  /\ conn' \in [Conns -> ConnStates]
           /\ backlog' \in Seq(Conns)
           /\ cur' \in Conns
           /\ Serving' /\ Queue' /\ Links' /\ Dialogue'
<1>1. /\ conn \in [Conns -> ConnStates]
      /\ backlog \in Seq(Conns)
      /\ wconn \in [Workers -> Conns \cup {None}]
  BY DEF CommInv, TypeOK, ProtoTypeOK, MgrTypeOK, WorkerTypeOK
<1>2. PICK n \in Nat : n = Len(backlog)
  BY <1>1, LenProperties
<1>3. backlog # <<>>
  BY DEF accept
<1>4. n >= 1
  BY SMTT(60), <1>1, <1>2, <1>3, EmptySeq
<1>5. /\ Head(backlog) = backlog[1]
      /\ Tail(backlog) \in Seq(Conns)
      /\ Len(Tail(backlog)) = n - 1
      /\ \A i \in 1 .. n - 1 : Tail(backlog)[i] = backlog[i + 1]
  BY SMTT(60), <1>1, <1>2, <1>3, HeadTailProperties
<1>6. \A i \in 1 .. n : backlog[i] \in Conns /\ conn[backlog[i]].srv = "queued"
  BY <1>1, <1>2, ElementOfSeq DEF CommInv, Queue
<1>7. PICK c \in Conns : c = backlog[1] /\ conn[c].srv = "queued"
  BY SMTT(60), <1>4, <1>6
<1>8. c # None /\ conn[c] \in ConnStates /\ ConnShape(conn[c])
  BY SMTT(60), <1>1, NoneAssumption DEF CommInv, Links
<1>9. PICK z \in ConnStates :
        /\ z = [conn[c] EXCEPT !.srv = "serving"] /\ ConnShape(z)
        /\ z.up = conn[c].up /\ z.req = conn[c].req /\ z.rsp = conn[c].rsp
        /\ z.srv = "serving" /\ z.owner = conn[c].owner
  BY <1>7, <1>8, AcceptedShape
<1>10. /\ conn' = [conn EXCEPT ![c] = z]
       /\ cur' = c /\ pc' = "poll" /\ pc = "accept" /\ born' = born
       /\ backlog' = Tail(backlog)
  BY <1>1, <1>5, <1>7, <1>9 DEF accept
<1>11. /\ conn' \in [Conns -> ConnStates] /\ conn'[c] = z
       /\ \A d \in Conns : d # c => conn'[d] = conn[d]
  BY <1>1, <1>10
<1>12. Serving'
  BY <1>8, <1>9, <1>10, <1>11 DEF CommInv, Serving
<1>13. Queue'
  <2>1. \A i, j \in 1 .. n : backlog[i] = backlog[j] => i = j
    BY <1>2 DEF CommInv, Queue
  <2>2. \A i \in 1 .. n - 1 : i + 1 \in 1 .. n /\ i + 1 # 1
    BY SMTT(60), <1>4
  <2>3. 1 \in 1 .. n
    BY SMTT(60), <1>4
  <2>4. \A i \in 1 .. n - 1 : backlog[i + 1] # c
    BY <1>7, <2>1, <2>2, <2>3
  <2>5. \A i \in 1 .. n - 1 : conn'[backlog'[i]].srv = "queued"
    BY SMTT(60), <1>5, <1>6, <1>10, <1>11, <2>2, <2>4
  <2>6. \A i, j \in 1 .. n - 1 : backlog'[i] = backlog'[j] => i = j
    BY SMTT(60), <1>5, <1>10, <2>1, <2>2
  <2> QED
    BY <1>5, <1>10, <2>5, <2>6 DEF Queue
<1>14. \A d \in Conns :
         /\ conn'[d].up = conn[d].up /\ conn'[d].owner = conn[d].owner
         /\ conn'[d].req = conn[d].req /\ conn'[d].rsp = conn[d].rsp
         /\ ConnShape(conn'[d])
  <2> SUFFICES ASSUME NEW d \in Conns
               PROVE  /\ conn'[d].up = conn[d].up /\ conn'[d].owner = conn[d].owner
                      /\ conn'[d].req = conn[d].req /\ conn'[d].rsp = conn[d].rsp
                      /\ ConnShape(conn'[d])
    OBVIOUS
  <2>1. CASE d = c
    BY <1>9, <1>11, <2>1
  <2>2. CASE d # c
    BY <1>11, <2>2 DEF CommInv, Links
  <2> QED
    BY <2>1, <2>2
<1>15. Links'
  <2>1. \A w \in Workers : wconn[w] # None => wconn[w] \in Conns
    BY <1>1
  <2> QED
    BY SMTT(60), <1>14, <2>1 DEF CommInv, Links
<1>16. Dialogue'
  BY <1>14 DEF CommInv, Dialogue
<1> QED
  BY <1>5, <1>10, <1>11, <1>12, <1>13, <1>15, <1>16

(***************************************************************************)
(* The end of handle_client closes the manager's end.                      *)
(***************************************************************************)
LEMMA EndKeepsComm ==
    ASSUME CommInv, EndClient, UNCHANGED <<wpc, wconn>>
    PROVE  /\ conn' \in [Conns -> ConnStates]
           /\ Serving' /\ Queue' /\ Links' /\ Dialogue'
<1>1. /\ conn \in [Conns -> ConnStates]
      /\ backlog \in Seq(Conns)
      /\ wconn \in [Workers -> Conns \cup {None}]
  BY DEF CommInv, TypeOK, ProtoTypeOK, MgrTypeOK, WorkerTypeOK
<1>2. PICK c \in Conns : c = cur
  BY DEF EndClient, CommInv, TypeOK, MgrTypeOK, Serving
<1>3. conn[c] \in ConnStates /\ ConnShape(conn[c]) /\ conn[c].srv = "serving"
  BY <1>1, <1>2, NoneAssumption DEF CommInv, Links, Serving
<1>4. PICK z \in ConnStates :
        /\ z = ClosedByManager(conn[c]) /\ ConnShape(z)
        /\ z.up = conn[c].up /\ z.req = None /\ z.rsp = conn[c].rsp
        /\ z.srv \in {"free", "closed"}
        /\ z.up => z.owner = conn[c].owner
  BY <1>3, ClosedByManagerShape
<1>5. /\ conn' = [conn EXCEPT ![c] = z] /\ backlog' = backlog
      /\ pc = "end" /\ pc' = "accept" /\ cur' = None /\ born' = born
  BY <1>2, <1>4 DEF EndClient
<1>6. /\ conn' \in [Conns -> ConnStates] /\ conn'[c] = z
      /\ \A d \in Conns : d # c => conn'[d] = conn[d]
  BY <1>1, <1>5
<1>7. Serving'
  BY <1>5 DEF CommInv, Serving
<1>8. Queue'
  <2>1. \A i \in 1 .. Len(backlog) : backlog[i] \in Conns /\ backlog[i] # c
    BY <1>1, <1>3, ElementOfSeq DEF CommInv, Queue
  <2> QED
    BY <1>5, <1>6, <2>1 DEF CommInv, Queue
<1>9. Links'
  BY SMTT(60), <1>1, <1>4, <1>6 DEF CommInv, Links
<1>10. Dialogue'
  <2>1. z.rsp # None => z.up
    BY <1>4 DEF ConnShape
  <2> QED
    BY SMTT(60), <1>4, <1>6, <2>1 DEF CommInv, Dialogue
<1> QED
  BY <1>6, <1>7, <1>8, <1>9, <1>10

(***************************************************************************)
(* The worker reads the reply to AUTH and keeps the connection.            *)
(***************************************************************************)
LEMMA LoggedInKeepsComm ==
    ASSUME CommInv, NEW w \in Workers, LoggedIn(w), UNCHANGED <<pc, cur, born>>
    PROVE  /\ conn' \in [Conns -> ConnStates]
           /\ Serving' /\ Queue' /\ Links' /\ Dialogue'
<1>1. /\ conn \in [Conns -> ConnStates]
      /\ wconn \in [Workers -> Conns \cup {None}]
      /\ wpc \in [Workers -> Places]
      /\ backlog \in Seq(Conns)
      /\ cur \in Conns \cup {None}
  BY DEF CommInv, TypeOK, ProtoTypeOK, MgrTypeOK, WorkerTypeOK
<1>2. PICK c \in Conns : c = wconn[w]
  BY SMTT(60), <1>1 DEF LoggedIn, CommInv, Links, Connected
<1>3. /\ conn[c] \in ConnStates /\ ConnShape(conn[c])
      /\ conn[c].up /\ conn[c].owner = w /\ c # None
      /\ conn[c].rsp # None
  BY SMTT(60), <1>1, <1>2, NoneAssumption DEF CommInv, Links, LoggedIn, Granted, Reply
<1>4. PICK z \in ConnStates :
        /\ z = [conn[c] EXCEPT !.rsp = None] /\ ConnShape(z)
        /\ z.up = conn[c].up /\ z.req = conn[c].req /\ z.rsp = None
        /\ z.srv = conn[c].srv /\ z.owner = w
  BY <1>3, ReadShape
<1>5. /\ conn' = [conn EXCEPT ![c] = z] /\ backlog' = backlog
      /\ wconn' = wconn /\ wpc[w] = "auth"
      /\ wpc' = [wpc EXCEPT ![w] = "authed"]
  BY <1>1, <1>2, <1>4 DEF LoggedIn, Goto
<1>6. /\ conn' \in [Conns -> ConnStates] /\ conn'[c] = z
      /\ \A d \in Conns : d # c => conn'[d] = conn[d]
  BY <1>1, <1>5
<1>7. Serving'
  BY <1>1, <1>4, <1>6 DEF CommInv, Serving, Working
<1>8. Queue'
  <2>1. \A i \in 1 .. Len(backlog) : backlog[i] \in Conns
    BY <1>1, ElementOfSeq
  <2> QED
    BY SMTT(60), <1>4, <1>5, <1>6, <2>1 DEF CommInv, Queue
<1>9. Links'
  BY SMTT(60), <1>1, <1>3, <1>4, <1>5, <1>6 DEF CommInv, Links, Connected
<1>10. Dialogue'
  <2>1. \A d \in Conns : d # c /\ (conn[d].up \/ conn[d].rsp # None)
          => conn[d].owner \in Workers /\ conn[d].owner # w
    BY <1>2 DEF CommInv, Links, ConnShape
  <2>2. conn[c].req = None
    BY <1>3 DEF ConnShape
  <2> QED
    BY SMTT(60), <1>1, <1>4, <1>5, <1>6, <2>1, <2>2 DEF CommInv, Dialogue
<1> QED
  BY <1>6, <1>7, <1>8, <1>9, <1>10

(***************************************************************************)
(* SPAWN on the connection of an accepted login.                           *)
(***************************************************************************)
LEMMA SpawnKeepsComm ==
    ASSUME CommInv, NEW w \in Workers, rdp_sessmgr_spawn(w), UNCHANGED <<pc, cur, born>>
    PROVE  /\ conn' \in [Conns -> ConnStates]
           /\ Serving' /\ Queue' /\ Links' /\ Dialogue'
<1>1. /\ conn \in [Conns -> ConnStates]
      /\ wconn \in [Workers -> Conns \cup {None}]
      /\ wpc \in [Workers -> Places]
      /\ backlog \in Seq(Conns)
      /\ cur \in Conns \cup {None}
  BY DEF CommInv, TypeOK, ProtoTypeOK, MgrTypeOK, WorkerTypeOK
<1>2. PICK c \in Conns : c = wconn[w]
  BY SMTT(60), <1>1 DEF rdp_sessmgr_spawn, CommInv, Links, Connected
<1>3. wpc[w] = "authed" /\ conn[c].srv # "closed"
  BY <1>2 DEF rdp_sessmgr_spawn
<1>4. /\ conn[c] \in ConnStates /\ ConnShape(conn[c])
      /\ conn[c].up /\ conn[c].owner = w /\ c # None
  BY SMTT(60), <1>1, <1>2, NoneAssumption DEF CommInv, Links
<1>5. conn[c].rsp = None
  BY <1>3, <1>4 DEF CommInv, Dialogue, ReplyShape
<1>6. conn[c].req = None
  <2>1. ASSUME conn[c].req # None PROVE FALSE
    <3>1. conn[c].req \in Requests
      BY <1>4, <2>1 DEF ConnStates
    <3>2. wpc[w] = AsksAt(conn[c].req.op)
      BY <1>4, <2>1 DEF CommInv, Dialogue
    <3> QED
      BY <1>3, <3>1, <3>2 DEF Requests, Ops, AsksAt
  <2> QED
    BY <2>1
<1>7. PICK z \in ConnStates :
        /\ z = [conn[c] EXCEPT !.req = SpawnReq] /\ ConnShape(z)
        /\ z.up = conn[c].up /\ z.req = SpawnReq /\ z.rsp = None
        /\ z.srv = conn[c].srv /\ z.owner = w
  BY <1>3, <1>4, <1>5, AskedShape, RequestTypes, ZenonT(60)
<1>8. /\ conn' = [conn EXCEPT ![c] = z] /\ backlog' = backlog
      /\ wconn' = wconn /\ wpc' = [wpc EXCEPT ![w] = "spawn"]
  BY <1>1, <1>2, <1>7 DEF rdp_sessmgr_spawn, Goto
<1>9. /\ conn' \in [Conns -> ConnStates] /\ conn'[c] = z
      /\ \A d \in Conns : d # c => conn'[d] = conn[d]
  BY <1>1, <1>8
<1>10. Serving'
  <2>1. cur = c => pc \in {"poll", "end"}
    BY <1>4, <1>6 DEF CommInv, Serving, Working, TypeOK, MgrTypeOK
  <2> QED
    BY <1>1, <1>7, <1>9, <2>1 DEF CommInv, Serving, Working
<1>11. Queue'
  <2>1. \A i \in 1 .. Len(backlog) : backlog[i] \in Conns
    BY <1>1, ElementOfSeq
  <2> QED
    BY <1>7, <1>8, <1>9, <2>1 DEF CommInv, Queue
<1>12. Links'
  BY SMTT(60), <1>1, <1>3, <1>4, <1>7, <1>8, <1>9 DEF CommInv, Links, Connected
<1>13. Dialogue'
  <2>1. \A d \in Conns : d # c /\ (conn[d].up \/ conn[d].rsp # None)
          => conn[d].owner \in Workers /\ conn[d].owner # w
    BY <1>2 DEF CommInv, Links, ConnShape
  <2>2. RequestShape(SpawnReq) /\ AsksAt(SpawnReq.op) = "spawn"
    BY DEF RequestShape, SpawnReq, AsksAt
  <2> QED
    BY SMTT(60), <1>1, <1>7, <1>8, <1>9, <2>1, <2>2 DEF CommInv, Dialogue
<1> QED
  BY <1>9, <1>10, <1>11, <1>12, <1>13

(***************************************************************************)
(* A worker without a connection that goes on without one.                 *)
(***************************************************************************)
LEMMA QuietKeepsComm ==
    ASSUME CommInv, NEW w \in Workers, NEW p \in Places \ Connected,
           wpc[w] \notin Connected, Goto(w, p),
           UNCHANGED <<pc, cur, born, conn, backlog, wconn>>
    PROVE  Serving' /\ Queue' /\ Links' /\ Dialogue'
<1>1. wpc \in [Workers -> Places] /\ wpc' = [wpc EXCEPT ![w] = p]
  BY DEF CommInv, TypeOK, WorkerTypeOK, Goto
<1>2. Serving' /\ Queue'
  BY DEF CommInv, Serving, Working, Queue
<1>3. Links'
  BY SMTT(60), <1>1 DEF CommInv, Links
<1>4. wconn[w] = None
  BY DEF CommInv, Links
<1>5. \A d \in Conns : conn[d].up \/ conn[d].rsp # None
        => conn[d].owner \in Workers /\ conn[d].owner # w
  BY SMTT(60), <1>4, NoneAssumption DEF CommInv, Links, ConnShape
<1>6. Dialogue'
  BY <1>1, <1>5 DEF CommInv, Dialogue
<1> QED
  BY <1>2, <1>3, <1>6

(***************************************************************************)
(* The mount table and the mounts keep their types when mounts are         *)
(* recorded, made and reaped.                                              *)
(***************************************************************************)
MountsTyped ==
    /\ fuse_mounts \in [Mounts -> Sessions \cup {None}]
    /\ mounted \in [Users -> Sessions \cup {None}]

(***************************************************************************)
(* fuse_mount_reap keeps the types of the mounts.                          *)
(***************************************************************************)
LEMMA ReapTyped ==
    ASSUME MountsTyped, NEW dead, fuse_mount_reap(dead)
    PROVE  MountsTyped'
  BY DEF MountsTyped, fuse_mount_reap, ReapTable, ReapMounted

(***************************************************************************)
(* fuse_mount_record keeps them.                                           *)
(***************************************************************************)
LEMMA RecordTyped ==
    ASSUME MountsTyped, NEW s \in Sessions, fuse_mount_record(s), UNCHANGED mounted
    PROVE  MountsTyped'
<1>1. {m \in Mounts : fuse_mounts[m] = None} \subseteq Nat
  BY SMTT(60) DEF Mounts
<1> QED
  BY <1>1, FirstInSet DEF MountsTyped, fuse_mount_record

(***************************************************************************)
(* fuse_mount_setup keeps them.                                            *)
(***************************************************************************)
LEMMA SetupTyped ==
    ASSUME MountsTyped, NEW s \in Sessions, NEW u \in Users,
           fuse_mount_setup(u, s), UNCHANGED fuse_mounts
    PROVE  MountsTyped'
  BY DEF MountsTyped, fuse_mount_setup

-----------------------------------------------------------------------------

(***************************************************************************)
(* handle_auth's early rejection.                                          *)
(***************************************************************************)
LEMMA AuthThrottledComm ==
    ASSUME CommInv, AuthThrottled, UNCHANGED workerVars
    PROVE  CommInv'
<1>1. Received("AUTH") /\ Answer(Refusal)
  BY DEF AuthThrottled
<1>2. UNCHANGED <<pc, clientVars, slotVars, monitorVars, mountVars,
                  auth_throttle, now, backlog, proc, nthashes>>
  BY DEF AuthThrottled
<1>3. /\ conn' \in [Conns -> ConnStates]
      /\ Serving' /\ Queue' /\ Links' /\ Dialogue'
  BY SMTT(60), <1>1, <1>2, ReceivedFacts, ReplyShapes, AnswerKeepsComm
     DEF clientVars, workerVars, Ops
<1>4. TypeOK'
  BY SMTT(60), <1>2, <1>3 DEF CommInv, TypeOK, ProtoTypeOK, MgrTypeOK, WorkerTypeOK,
     clientVars, slotVars, monitorVars, mountVars, workerVars
<1>5. Holding'
  BY <1>2 DEF CommInv, Holding, slotVars, workerVars
<1> QED
  BY <1>3, <1>4, <1>5 DEF CommInv

(***************************************************************************)
(* The call of rdp_auth_user.                                              *)
(***************************************************************************)
LEMMA AuthBeginComm ==
    ASSUME CommInv, AuthBegin, UNCHANGED workerVars
    PROVE  CommInv'
<1>1. Received("AUTH") /\ job_at' = now /\ pc' = "auth"
  BY DEF AuthBegin
<1>2. UNCHANGED <<cur, auth, retained_fd, spawn_done, born, status, slotVars,
                  monitorVars, mountVars, auth_throttle, now, protoVars>>
  BY DEF AuthBegin
<1>3. Serving'
  BY <1>1, <1>2, ReceivedFacts DEF CommInv, Serving, Working, protoVars
<1>4. Queue' /\ Links' /\ Dialogue' /\ Holding'
  BY <1>2 DEF CommInv, Queue, Links, Dialogue, Holding, slotVars, workerVars, protoVars
<1>5. TypeOK'
  BY <1>1, <1>2 DEF CommInv, TypeOK, ProtoTypeOK, MgrTypeOK, WorkerTypeOK,
     slotVars, monitorVars, mountVars, workerVars, protoVars
<1> QED
  BY <1>3, <1>4, <1>5 DEF CommInv

(***************************************************************************)
(* The two outcomes of rdp_auth_user.                                      *)
(***************************************************************************)
LEMMA AuthAcceptsComm ==
    ASSUME CommInv, AuthAccepts, UNCHANGED workerVars
    PROVE  CommInv'
<1>1. pc = "auth" /\ Working("AUTH")
  BY DEF AuthAccepts, CommInv, Serving
<1>2. PICK u \in Users : u = conn[cur].req.user
  BY <1>1, WorkingFacts DEF RequestShape
<1>3. PeerIP \in IPs
  BY <1>1, WorkingFacts, SessMgrAssumption DEF PeerIP
<1>4. /\ nthashes' \in {nthashes, nthashes \cup {u}}
      /\ auth' = AuthName[u]
      /\ auth_throttle' = auth_throttle_clear(auth_throttle, PeerIP)
      /\ Answer(Success(None)) /\ job_at' = 0 /\ pc' = "poll"
  BY <1>2 DEF AuthAccepts, cache_nthash
<1>5. UNCHANGED <<cur, retained_fd, spawn_done, born, status, slotVars,
                  monitorVars, mountVars, now, backlog, proc>>
  BY DEF AuthAccepts
<1>6. born = None
  BY <1>1 DEF CommInv, Serving
<1>7. /\ conn' \in [Conns -> ConnStates]
      /\ Serving' /\ Queue' /\ Links' /\ Dialogue'
  BY <1>1, <1>4, <1>5, <1>6, WorkingFacts, ReplyShapes, AnswerKeepsComm
     DEF workerVars, Working
<1>8. auth_throttle' \in Tables
  BY <1>3, <1>4, ClearFreesEntry DEF CommInv, TypeOK, MgrTypeOK
<1>9. nthashes' \subseteq Users /\ auth' \in Users
  BY <1>4, SessMgrAssumption DEF CommInv, TypeOK, ProtoTypeOK
<1>10. TypeOK'
  BY <1>4, <1>5, <1>7, <1>8, <1>9
     DEF CommInv, TypeOK, ProtoTypeOK, MgrTypeOK, WorkerTypeOK,
         slotVars, monitorVars, mountVars, workerVars
<1>11. Holding'
  BY <1>5 DEF CommInv, Holding, slotVars, workerVars
<1> QED
  BY <1>7, <1>10, <1>11 DEF CommInv

(***************************************************************************)
(* The backend refuses: the failure is counted and the worker told.        *)
(***************************************************************************)
LEMMA AuthRefusesComm ==
    ASSUME CommInv, AuthRefuses, UNCHANGED workerVars
    PROVE  CommInv'
<1>1. pc = "auth" /\ Working("AUTH")
  BY DEF AuthRefuses, CommInv, Serving
<1>2. PeerIP \in IPs
  BY <1>1, WorkingFacts, SessMgrAssumption DEF PeerIP
<1>3. /\ auth_throttle' = auth_throttle_fail(auth_throttle, PeerIP, job_at)
      /\ Answer(Refusal) /\ job_at' = 0 /\ pc' = "poll"
  BY DEF AuthRefuses
<1>4. UNCHANGED <<cur, auth, retained_fd, spawn_done, born, status, slotVars,
                  monitorVars, mountVars, now, backlog, proc, nthashes>>
  BY DEF AuthRefuses
<1>5. born = None
  BY <1>1 DEF CommInv, Serving
<1>6. /\ conn' \in [Conns -> ConnStates]
      /\ Serving' /\ Queue' /\ Links' /\ Dialogue'
  BY <1>1, <1>3, <1>4, <1>5, WorkingFacts, ReplyShapes, AnswerKeepsComm
     DEF workerVars, Working, Ops
<1>7. auth_throttle' \in Tables
  <2>1. auth_throttle \in Tables /\ job_at \in Nat
    BY DEF CommInv, TypeOK, MgrTypeOK
  <2>2. PICK v \in Entries, e \in EntryStates :
          auth_throttle' = [auth_throttle EXCEPT ![v] = e]
    BY SMTT(60), <1>2, <1>3, <2>1, FailRewritesOneEntry
  <2> QED
    BY <2>1, <2>2 DEF Tables, EntryStates
<1>8. TypeOK'
  BY <1>3, <1>4, <1>6, <1>7
     DEF CommInv, TypeOK, ProtoTypeOK, MgrTypeOK, WorkerTypeOK,
         slotVars, monitorVars, mountVars, workerVars
<1>9. Holding'
  BY <1>4 DEF CommInv, Holding, slotVars, workerVars
<1> QED
  BY <1>6, <1>8, <1>9 DEF CommInv

(***************************************************************************)
(* accept(), a client that leaves, the end of handle_client.               *)
(***************************************************************************)
LEMMA AcceptComm ==
    ASSUME CommInv, accept, UNCHANGED workerVars
    PROVE  CommInv'
<1>1. /\ conn' \in [Conns -> ConnStates] /\ backlog' \in Seq(Conns) /\ cur' \in Conns
      /\ Serving' /\ Queue' /\ Links' /\ Dialogue'
  BY AcceptKeepsComm DEF workerVars
<1>2. UNCHANGED <<job_at, auth, retained_fd, spawn_done, born, status,
                  slotVars, monitorVars, mountVars, auth_throttle, now,
                  proc, nthashes>> /\ pc' = "poll"
  BY DEF accept
<1>3. TypeOK'
  BY <1>1, <1>2 DEF CommInv, TypeOK, ProtoTypeOK, MgrTypeOK, WorkerTypeOK,
     slotVars, monitorVars, mountVars, workerVars
<1>4. Holding'
  BY <1>2 DEF CommInv, Holding, slotVars, workerVars
<1> QED
  BY <1>1, <1>3, <1>4 DEF CommInv

(***************************************************************************)
(* The wait for the client ends.                                           *)
(***************************************************************************)
LEMMA ClientLeavesComm ==
    ASSUME CommInv, ClientLeaves, UNCHANGED workerVars
    PROVE  CommInv'
<1>1. /\ pc = "poll" /\ pc' = "end"
      /\ UNCHANGED <<clientVars, slotVars, monitorVars, mountVars,
                     auth_throttle, now, protoVars>>
  BY DEF ClientLeaves
<1>2. Serving'
  BY <1>1 DEF CommInv, Serving, clientVars, protoVars
<1>3. Queue' /\ Links' /\ Dialogue' /\ Holding'
  BY <1>1 DEF CommInv, Queue, Links, Dialogue, Holding, slotVars, workerVars, protoVars
<1>4. TypeOK'
  BY <1>1 DEF CommInv, TypeOK, ProtoTypeOK, MgrTypeOK, WorkerTypeOK,
     clientVars, slotVars, monitorVars, mountVars, workerVars, protoVars
<1> QED
  BY <1>2, <1>3, <1>4 DEF CommInv

(***************************************************************************)
(* The end of handle_client: automatic suspend, close, back to accept.     *)
(***************************************************************************)
LEMMA EndClientComm ==
    ASSUME CommInv, EndClient, UNCHANGED workerVars
    PROVE  CommInv'
<1>1. /\ conn' \in [Conns -> ConnStates]
      /\ Serving' /\ Queue' /\ Links' /\ Dialogue'
  BY EndKeepsComm DEF workerVars
<1>2. /\ retained_fd' = None /\ spawn_done' = FALSE /\ auth' = None
      /\ cur' = None /\ pc' = "accept"
      /\ UNCHANGED <<job_at, born, status, resume_fail_count, monitorVars,
                     auth_throttle, now, backlog, proc, nthashes>>
  BY DEF EndClient
<1>3. suspended \in [Slots -> SlotStates] /\ now \in Nat /\ MountsTyped
  BY DEF CommInv, TypeOK, MgrTypeOK, MountsTyped
<1>4. /\ suspended' \in [Slots -> SlotStates]
      /\ \A i \in Slots : suspended'[i].in_use => suspended'[i].be_fd # None
      /\ MountsTyped'
  <2>1. CASE Unanswered
    <3>1. PICK s \in Sessions : s = retained_fd /\ s # None
      BY <2>1 DEF Unanswered, CommInv, TypeOK, MgrTypeOK
    <3>2. PICK id \in LogonIds : suspended' = Stored(id, s, None)
      BY <2>1, <3>1 DEF EndClient, auto_suspend
    <3>3. MountsTyped'
      BY <1>3, <2>1, ReapTyped DEF EndClient, auto_suspend, SweepMounts
    <3>4. None \in ArcRandom
      BY DEF ArcRandom
    <3>5. /\ suspended' \in [Slots -> SlotStates]
          /\ \/ suspended' = Swept
             \/ \E i \in Slots :
                  /\ ~Swept[i].in_use
                  /\ suspended' = [Swept EXCEPT ![i] = NewSlot(id, s, None)]
      BY <1>3, <3>2, <3>4, StoredShape
    <3>6. \A i \in Slots : Swept[i].in_use => Swept[i].be_fd # None
      BY <1>3, SweptShape DEF CommInv, Holding
    <3>7. Swept \in [Slots -> SlotStates]
      BY <1>3, SweptShape
    <3>8. \A i \in Slots : suspended'[i].in_use => suspended'[i].be_fd # None
      BY SMTT(60), <3>1, <3>5, <3>6, <3>7 DEF NewSlot
    <3> QED
      BY <3>3, <3>5, <3>8
  <2>2. CASE ~Unanswered
    <3>1. UNCHANGED <<suspended, mountVars>>
      BY <2>2 DEF EndClient
    <3> QED
      BY <1>3, <3>1 DEF CommInv, Holding, MountsTyped, mountVars
  <2> QED
    BY <2>1, <2>2
<1>5. TypeOK'
  <2>1. ProtoTypeOK'
    BY <1>1, <1>2 DEF CommInv, TypeOK, ProtoTypeOK
  <2>0. suspended' \in [Slots -> SlotStates] /\ MountsTyped'
    BY <1>4
  <2>4. spawn_done' \in BOOLEAN
    <3>1. spawn_done' = FALSE
      BY DEF EndClient
    <3> QED
      BY <3>1, Zenon
  <2>5. UNCHANGED <<job_at, born, status, resume_fail_count, monitorVars,
                    auth_throttle, now>>
    BY <1>2
  <2>6. /\ pc' = "accept" /\ cur' \in Conns \cup {None} /\ auth' \in Users \cup {None}
        /\ retained_fd' \in Sessions \cup {None}
    BY <1>2
  <2>2. MgrTypeOK'
    BY <2>0, <2>4, <2>5, <2>6 DEF CommInv, TypeOK, MgrTypeOK, monitorVars, MountsTyped
  <2>3. WorkerTypeOK'
    BY DEF CommInv, TypeOK, WorkerTypeOK, workerVars
  <2> QED
    BY <2>1, <2>2, <2>3 DEF TypeOK
<1>6. Holding'
  BY <1>4 DEF CommInv, Holding, workerVars
<1> QED
  BY <1>1, <1>5, <1>6 DEF CommInv

(***************************************************************************)
(* handle_spawn before the fork, the fork, and its record.                 *)
(***************************************************************************)
LEMMA SpawnRefusedComm ==
    ASSUME CommInv, SpawnRefused, UNCHANGED workerVars
    PROVE  CommInv'
<1>1. Received("SPAWN") /\ Answer(Refusal) /\ auth' \in {auth, None}
  BY DEF SpawnRefused
<1>2. /\ UNCHANGED <<pc, cur, job_at, retained_fd, born, status, slotVars,
                     monitorVars, mountVars, auth_throttle, now,
                     backlog, proc, nthashes>>
      /\ spawn_done' \in BOOLEAN
  BY DEF SpawnRefused
<1>3. /\ conn' \in [Conns -> ConnStates]
      /\ Serving' /\ Queue' /\ Links' /\ Dialogue'
  BY SMTT(60), <1>1, <1>2, ReceivedFacts, ReplyShapes, AnswerKeepsComm DEF workerVars, Ops
<1>4. TypeOK'
  BY SMTT(60), <1>1, <1>2, <1>3 DEF CommInv, TypeOK, ProtoTypeOK, MgrTypeOK, WorkerTypeOK,
     slotVars, monitorVars, mountVars, workerVars
<1>5. Holding'
  BY <1>2 DEF CommInv, Holding, slotVars, workerVars
<1> QED
  BY <1>3, <1>4, <1>5 DEF CommInv

(***************************************************************************)
(* The mount and the fork: from now on the handler has a session in hand.  *)
(***************************************************************************)
LEMMA SpawnForkComm ==
    ASSUME CommInv, NEW s \in Sessions, SpawnFork(s), UNCHANGED workerVars
    PROVE  CommInv'
<1>1. Received("SPAWN") /\ born' = s /\ pc' = "record" /\ auth \in Users
  BY DEF SpawnFork, MaySpawn, CommInv, TypeOK, MgrTypeOK
<1>2. /\ UNCHANGED <<cur, job_at, auth, retained_fd, spawn_done, status,
                     slotVars, sigchld, fuse_mounts, auth_throttle, now,
                     protoVars>>
      /\ monitor' = [monitor EXCEPT ![s] = "opening"]
      /\ sess_user' = [sess_user EXCEPT ![s] = auth]
      /\ fuse_mount_setup(auth, s)
  BY DEF SpawnFork
<1>3. Serving'
  BY <1>1, <1>2, ReceivedFacts, NoneAssumption
     DEF CommInv, Serving, Working, protoVars
<1>4. Queue' /\ Links' /\ Dialogue' /\ Holding'
  BY <1>2 DEF CommInv, Queue, Links, Dialogue, Holding, slotVars, workerVars, protoVars
<1>5. MountsTyped'
  BY <1>1, <1>2, SetupTyped DEF CommInv, TypeOK, MgrTypeOK, MountsTyped
<1>6. inherited' \in [Sessions -> SUBSET Sessions]
  <2>1. inherited \in [Sessions -> SUBSET Sessions] /\ retained_fd \in Sessions \cup {None}
        /\ suspended \in [Slots -> SlotStates]
    BY DEF CommInv, TypeOK, MgrTypeOK
  <2>2. \A i \in Slots \ FreeSlots(suspended) : suspended[i].be_fd \in Sessions
    BY <2>1 DEF FreeSlots, SlotStates, CommInv, Holding
  <2> DEFINE I == {suspended[i].be_fd : i \in Slots \ FreeSlots(suspended)}
                    \cup ({retained_fd} \ {None})
  <2>3. I \in SUBSET Sessions
    BY <2>1, <2>2
  <2>4. inherited' = [inherited EXCEPT ![s] = I]
    BY DEF SpawnFork
  <2> HIDE DEF I
  <2> QED
    BY <2>1, <2>3, <2>4
<1>7. TypeOK'
  <2>1. ProtoTypeOK'
    BY <1>2 DEF CommInv, TypeOK, ProtoTypeOK, protoVars
  <2>2. /\ monitor' \in [Sessions -> {"unborn", "opening", "waiting", "zombie", "reaped"}]
        /\ sess_user' \in [Sessions -> Users \cup {None}]
    BY <1>1, <1>2 DEF CommInv, TypeOK, MgrTypeOK
  <2>3. MgrTypeOK'
    BY <1>1, <1>2, <1>5, <1>6, <2>2 DEF CommInv, TypeOK, MgrTypeOK, slotVars, MountsTyped
  <2>4. WorkerTypeOK'
    BY DEF CommInv, TypeOK, WorkerTypeOK, workerVars
  <2> QED
    BY <2>1, <2>3, <2>4 DEF TypeOK
<1> QED
  BY <1>3, <1>4, <1>7 DEF CommInv

(***************************************************************************)
(* The mount is recorded while the handler keeps its session.              *)
(***************************************************************************)
LEMMA SpawnRecordComm ==
    ASSUME CommInv, SpawnRecord, UNCHANGED workerVars
    PROVE  CommInv'
<1>1. /\ pc = "record" /\ pc' = "status"
      /\ UNCHANGED <<clientVars, slotVars, monitorVars, mounted,
                     auth_throttle, now, protoVars>>
  BY DEF SpawnRecord
<1>2. born \in Sessions
  BY <1>1 DEF CommInv, Serving, TypeOK, MgrTypeOK
<1>3. Serving'
  BY <1>1 DEF CommInv, Serving, Working, clientVars, protoVars
<1>4. Queue' /\ Links' /\ Dialogue' /\ Holding'
  BY <1>1 DEF CommInv, Queue, Links, Dialogue, Holding, slotVars, workerVars, protoVars
<1>5. MountsTyped
  BY DEF CommInv, TypeOK, MgrTypeOK, MountsTyped
<1>6. MountsTyped'
  <2>1. CASE mounted[sess_user[born]] = born
    BY <1>1, <1>2, <1>5, <2>1, RecordTyped DEF SpawnRecord
  <2>2. CASE mounted[sess_user[born]] # born
    BY <1>1, <1>5, <2>2 DEF SpawnRecord, MountsTyped
  <2> QED
    BY <2>1, <2>2
<1>7. TypeOK'
  BY <1>1, <1>6 DEF CommInv, TypeOK, ProtoTypeOK, MgrTypeOK, WorkerTypeOK,
     clientVars, slotVars, monitorVars, workerVars, protoVars, MountsTyped
<1> QED
  BY <1>3, <1>4, <1>7 DEF CommInv

(***************************************************************************)
(* The two outcomes of a SPAWN that got as far as the fork.                *)
(***************************************************************************)
LEMMA SpawnFailedComm ==
    ASSUME CommInv, SpawnFailed, UNCHANGED workerVars
    PROVE  CommInv'
<1>1. /\ pc = "status" /\ pc' = "poll" /\ Answer(Refusal) /\ auth' = None
      /\ spawn_done' \in BOOLEAN /\ born' = None /\ status' = "none"
      /\ UNCHANGED <<cur, job_at, retained_fd, slotVars, monitorVars,
                     mountVars, auth_throttle, now, backlog, proc, nthashes>>
  BY DEF SpawnFailed
<1>2. Working("SPAWN")
  BY <1>1 DEF CommInv, Serving
<1>3. /\ conn' \in [Conns -> ConnStates]
      /\ Serving' /\ Queue' /\ Links' /\ Dialogue'
  BY <1>1, <1>2, WorkingFacts, ReplyShapes, AnswerKeepsComm
     DEF workerVars, Working, Ops
<1>4. TypeOK'
  BY <1>1, <1>3 DEF CommInv, TypeOK, ProtoTypeOK, MgrTypeOK, WorkerTypeOK,
     slotVars, monitorVars, mountVars, workerVars
<1>5. Holding'
  BY <1>1 DEF CommInv, Holding, slotVars, workerVars
<1> QED
  BY <1>3, <1>4, <1>5 DEF CommInv

(***************************************************************************)
(* The monitor reports success: the descriptor goes out with the reply.    *)
(***************************************************************************)
LEMMA SpawnStartedComm ==
    ASSUME CommInv, SpawnStarted, UNCHANGED workerVars
    PROVE  CommInv'
<1>1. /\ pc = "status" /\ pc' = "poll" /\ Answer(Success(born)) /\ auth' = None
      /\ spawn_done' \in BOOLEAN /\ born' = None /\ status' = "none"
      /\ retained_fd' = born
      /\ UNCHANGED <<cur, job_at, slotVars, monitorVars,
                     mountVars, auth_throttle, now, backlog, proc, nthashes>>
  BY DEF SpawnStarted
<1>2. Working("SPAWN")
  BY <1>1 DEF CommInv, Serving
<1>3. PICK s \in Sessions : s = born
  BY <1>1 DEF CommInv, Serving, TypeOK, MgrTypeOK
<1>4. Success(s) \in Replies /\ ReplyShape(Success(s), AsksAt(conn[cur].req.op))
  BY <1>2, ReplyShapes DEF Working
<1>5. /\ conn' \in [Conns -> ConnStates]
      /\ Serving' /\ Queue' /\ Links' /\ Dialogue'
  BY <1>1, <1>2, <1>3, <1>4, AnswerKeepsComm DEF workerVars, Working
<1>6. TypeOK'
  BY <1>1, <1>3, <1>5 DEF CommInv, TypeOK, ProtoTypeOK, MgrTypeOK, WorkerTypeOK,
     slotVars, monitorVars, mountVars, workerVars
<1>7. Holding'
  BY <1>1 DEF CommInv, Holding, slotVars, workerVars
<1> QED
  BY <1>5, <1>6, <1>7 DEF CommInv

(***************************************************************************)
(* handle_suspend and handle_resume.                                       *)
(***************************************************************************)
LEMMA SuspendComm ==
    ASSUME CommInv, handle_suspend, UNCHANGED workerVars
    PROVE  CommInv'
<1>1. /\ Received("SUSPEND") /\ SweepMounts /\ retained_fd' = None
      /\ UNCHANGED <<pc, cur, job_at, auth, spawn_done, born, status,
                     resume_fail_count, monitorVars, auth_throttle, now,
                     backlog, proc, nthashes>>
  BY DEF handle_suspend
<1>2. /\ cur # None /\ pc = "poll" /\ born = None
      /\ conn[cur].req \in Requests /\ conn[cur].req # None
      /\ conn[cur].req.op = "SUSPEND" /\ RequestShape(conn[cur].req)
  BY <1>1, ReceivedFacts
<1>3. PICK id \in LogonIds \cup {None}, s \in Sessions, a \in ArcRandom :
        suspended' = Stored(id, s, a)
  BY <1>2 DEF handle_suspend, Requests, RequestShape
<1>4. PICK m \in Replies : Answer(m) /\ ReplyShape(m, AsksAt("SUSPEND"))
  BY ReplyShapes DEF handle_suspend, Ops
<1>5. /\ conn' \in [Conns -> ConnStates]
      /\ Serving' /\ Queue' /\ Links' /\ Dialogue'
  BY <1>1, <1>2, <1>4, AnswerKeepsComm DEF workerVars
<1>6. suspended \in [Slots -> SlotStates] /\ now \in Nat /\ MountsTyped
  BY DEF CommInv, TypeOK, MgrTypeOK, MountsTyped
<1>7. /\ suspended' \in [Slots -> SlotStates]
      /\ \/ suspended' = Swept
         \/ \E i \in Slots :
              /\ ~Swept[i].in_use
              /\ suspended' = [Swept EXCEPT ![i] = NewSlot(id, s, a)]
  BY <1>3, <1>6, StoredShape
<1>8. MountsTyped'
  BY <1>1, <1>6, ReapTyped DEF SweepMounts
<1>9. \A i \in Slots : suspended'[i].in_use => suspended'[i].be_fd # None
  <2>1. Swept \in [Slots -> SlotStates]
        /\ \A i \in Slots : Swept[i].in_use => Swept[i].be_fd # None
    BY <1>6, SweptShape DEF CommInv, Holding
  <2> QED
    BY SMTT(60), <1>7, <2>1, NoneAssumption DEF NewSlot
<1>10. TypeOK'
  <2>1. ProtoTypeOK'
    BY <1>1, <1>5 DEF CommInv, TypeOK, ProtoTypeOK
  <2>2. suspended' \in [Slots -> SlotStates]
    BY <1>7
  <2>3. MgrTypeOK'
    BY <1>1, <1>8, <2>2 DEF CommInv, TypeOK, MgrTypeOK, monitorVars, MountsTyped
  <2>4. WorkerTypeOK'
    BY DEF CommInv, TypeOK, WorkerTypeOK, workerVars
  <2> QED
    BY <2>1, <2>3, <2>4 DEF TypeOK
<1>11. Holding'
  BY <1>9 DEF CommInv, Holding, workerVars
<1> QED
  BY <1>5, <1>10, <1>11 DEF CommInv

(***************************************************************************)
(* The count of failed resumes stays within its bound.                     *)
(***************************************************************************)
LEMMA FailCountBounded ==
    ASSUME resume_fail_count \in 0 .. ResumeFailMax + 1
    PROVE  FailCount \in 0 .. ResumeFailMax
  BY SMTT(60), SessMgrAssumption DEF FailCount

(***************************************************************************)
(* No slot matches, or the verifier fails: the refusal carries nothing.    *)
(***************************************************************************)
LEMMA ResumeRefusedComm ==
    ASSUME CommInv, ResumeRefused, UNCHANGED workerVars
    PROVE  CommInv'
<1>1. /\ Received("RESUME") /\ SweepMounts /\ Answer(Refusal)
      /\ suspended' = Swept /\ resume_fail_count' = FailCount + 1
      /\ UNCHANGED <<pc, clientVars, monitorVars, auth_throttle, now,
                     backlog, proc, nthashes>>
  BY DEF ResumeRefused
<1>2. /\ conn' \in [Conns -> ConnStates]
      /\ Serving' /\ Queue' /\ Links' /\ Dialogue'
  <2>1. /\ cur # None /\ conn[cur].req # None /\ conn[cur].req.op = "RESUME"
        /\ pc = "poll" /\ born = None
    BY <1>1, ReceivedFacts
  <2>2. /\ Refusal \in Replies /\ ReplyShape(Refusal, AsksAt(conn[cur].req.op))
    BY <2>1, ReplyShapes DEF Ops
  <2>3. pc' = "poll" /\ cur' = cur /\ born' = None /\ UNCHANGED <<backlog, wpc, wconn>>
    BY <1>1, <2>1 DEF clientVars, workerVars, Answer
  <2> QED
    BY <1>1, <2>1, <2>2, <2>3, AnswerKeepsComm
<1>3. suspended \in [Slots -> SlotStates] /\ MountsTyped
      /\ resume_fail_count \in 0 .. ResumeFailMax + 1
  BY DEF CommInv, TypeOK, MgrTypeOK, MountsTyped
<1>4. suspended' \in [Slots -> SlotStates] /\ MountsTyped'
  BY <1>1, <1>3, SweptShape, ReapTyped DEF SweepMounts
<1>5. resume_fail_count' \in 0 .. ResumeFailMax + 1
  BY SMTT(60), <1>1, <1>3, FailCountBounded, SessMgrAssumption
<1>6. TypeOK'
  BY SMTT(60), <1>1, <1>2, <1>4, <1>5 DEF CommInv, TypeOK, ProtoTypeOK, MgrTypeOK, WorkerTypeOK,
     clientVars, monitorVars, workerVars, MountsTyped
<1>7. Holding'
  BY <1>1, <1>3, SweptShape DEF CommInv, Holding, workerVars
<1> QED
  BY <1>2, <1>6, <1>7 DEF CommInv

(***************************************************************************)
(* The slot is freed and its session in the handler's hand.                *)
(***************************************************************************)
LEMMA ResumeTakeComm ==
    ASSUME CommInv, ResumeTake, UNCHANGED workerVars
    PROVE  CommInv'
<1>1. /\ Received("RESUME") /\ SweepMounts
      /\ resume_fail_count' = FailCount /\ pc' = "resume"
      /\ UNCHANGED <<cur, job_at, auth, retained_fd, spawn_done, status,
                     monitorVars, auth_throttle, now, protoVars>>
  BY DEF ResumeTake
<1>2. PICK i \in Slots :
        /\ suspended[i].be_fd \in Sessions /\ born' = suspended[i].be_fd
        /\ suspended' = [Swept EXCEPT ![i] = NoSlot]
  BY TakenSlot
<1>3. suspended \in [Slots -> SlotStates] /\ MountsTyped
      /\ resume_fail_count \in 0 .. ResumeFailMax + 1
  BY DEF CommInv, TypeOK, MgrTypeOK, MountsTyped
<1>4. Swept \in [Slots -> SlotStates]
      /\ \A j \in Slots : Swept[j].in_use => suspended[j].in_use /\ Swept[j] = suspended[j]
  BY <1>3, SweptShape
<1>5. NoSlot \in SlotStates /\ ~NoSlot.in_use
  BY DEF NoSlot, SlotStates, ArcRandom
<1>6. suspended' \in [Slots -> SlotStates]
  BY <1>2, <1>4, <1>5
<1>7. MountsTyped'
  BY <1>1, <1>3, ReapTyped DEF SweepMounts
<1>8. resume_fail_count' \in 0 .. ResumeFailMax + 1
  BY SMTT(60), <1>1, <1>3, FailCountBounded, SessMgrAssumption
<1>9. Serving'
  BY <1>1, <1>2, ReceivedFacts, NoneAssumption DEF CommInv, Serving, Working, protoVars
<1>10. Queue' /\ Links' /\ Dialogue'
  BY <1>1 DEF CommInv, Queue, Links, Dialogue, workerVars, protoVars
<1>11. Holding'
  <2>1. \A j \in Slots : suspended'[j].in_use => suspended'[j].be_fd # None
    BY <1>2, <1>4, <1>5 DEF CommInv, Holding
  <2> QED
    BY <2>1 DEF CommInv, Holding, workerVars
<1>12. TypeOK'
  <2>1. ProtoTypeOK'
    BY <1>1 DEF CommInv, TypeOK, ProtoTypeOK, protoVars
  <2>2. born' \in Sessions
    BY <1>2
  <2>3. MgrTypeOK'
    BY <1>1, <1>6, <1>7, <1>8, <2>2 DEF CommInv, TypeOK, MgrTypeOK, monitorVars, MountsTyped
  <2>4. WorkerTypeOK'
    BY DEF CommInv, TypeOK, WorkerTypeOK, workerVars
  <2> QED
    BY <2>1, <2>3, <2>4 DEF TypeOK
<1> QED
  BY <1>9, <1>10, <1>11, <1>12 DEF CommInv

(***************************************************************************)
(* The resumed descriptor goes out with the reply, or a refusal does.      *)
(***************************************************************************)
LEMMA ResumeReplyComm ==
    ASSUME CommInv, ResumeReply, UNCHANGED workerVars
    PROVE  CommInv'
<1>1. /\ pc = "resume" /\ pc' = "poll" /\ born' = None
      /\ UNCHANGED <<cur, job_at, auth, retained_fd, spawn_done, status,
                     slotVars, monitorVars, mountVars, auth_throttle, now,
                     backlog, proc, nthashes>>
  BY DEF ResumeReply
<1>2. Working("RESUME")
  BY <1>1 DEF CommInv, Serving
<1>3. PICK s \in Sessions : s = born
  BY <1>1 DEF CommInv, Serving, TypeOK, MgrTypeOK
<1>4. PICK m \in Replies : Answer(m) /\ ReplyShape(m, AsksAt(conn[cur].req.op))
  BY <1>2, <1>3, ReplyShapes DEF ResumeReply, Working, Ops
<1>5. /\ conn' \in [Conns -> ConnStates]
      /\ Serving' /\ Queue' /\ Links' /\ Dialogue'
  BY <1>1, <1>2, <1>4, AnswerKeepsComm DEF workerVars, Working
<1>6. TypeOK'
  BY <1>1, <1>5 DEF CommInv, TypeOK, ProtoTypeOK, MgrTypeOK, WorkerTypeOK,
     slotVars, monitorVars, mountVars, workerVars
<1>7. Holding'
  BY <1>1 DEF CommInv, Holding, slotVars, workerVars
<1> QED
  BY <1>5, <1>6, <1>7 DEF CommInv

(***************************************************************************)
(* SIGCHLD, the monitors, the clock and the user processes.                *)
(***************************************************************************)
LEMMA SigchldComm ==
    ASSUME CommInv, on_sigchld, UNCHANGED workerVars
    PROVE  CommInv'
<1>1. /\ fuse_mount_reap(Zombies)
      /\ UNCHANGED <<clientVars, slotVars, sess_user, inherited, auth_throttle,
                     now, protoVars>>
      /\ \/ pc' = pc
         \/ pc = "poll" /\ pc' = "end"
      /\ monitor' = [s \in Sessions |->
                       IF s \in Zombies THEN "reaped" ELSE monitor[s]]
  BY DEF on_sigchld
<1>2. Serving'
  BY <1>1 DEF CommInv, Serving, Working, clientVars, protoVars
<1>3. Queue' /\ Links' /\ Dialogue' /\ Holding'
  BY <1>1 DEF CommInv, Queue, Links, Dialogue, Holding, slotVars, workerVars, protoVars
<1>4. MountsTyped'
  BY <1>1, ReapTyped DEF CommInv, TypeOK, MgrTypeOK, MountsTyped
<1>5. sigchld' \in BOOLEAN
  <2>1. sigchld' = FALSE
    BY DEF on_sigchld
  <2> QED
    BY <2>1, Zenon
<1>6. monitor' \in [Sessions -> {"unborn", "opening", "waiting", "zombie", "reaped"}]
  BY <1>1 DEF CommInv, TypeOK, MgrTypeOK
<1>7. TypeOK'
  BY SMTT(60), <1>1, <1>4, <1>5, <1>6 DEF CommInv, TypeOK, ProtoTypeOK, MgrTypeOK, WorkerTypeOK,
     clientVars, slotVars, workerVars, protoVars, MountsTyped
<1> QED
  BY <1>2, <1>3, <1>7 DEF CommInv

(***************************************************************************)
(* The monitors' steps touch neither connections nor slots.                *)
(***************************************************************************)
LEMMA MonitorComm ==
    ASSUME CommInv, NEW s \in Sessions, MonitorStep(s), UNCHANGED workerVars
    PROVE  CommInv'
<1>1. /\ UNCHANGED <<pc, cur, job_at, auth, retained_fd, spawn_done, born,
                     slotVars, sess_user, mountVars, auth_throttle, now,
                     conn, backlog, nthashes>>
      /\ status' \in {status, "failed", "started"}
      /\ \E p \in {"zombie", "waiting"} : monitor' = [monitor EXCEPT ![s] = p]
      /\ inherited' \in {inherited, [inherited EXCEPT ![s] = {}]}
      /\ proc' \in {proc, [proc EXCEPT ![s] = "running"]}
  BY DEF MonitorStep, MonitorFails, MonitorStarts, MonitorExits, ChildExits,
         clientVars, protoVars
<1>2. sigchld' \in BOOLEAN
  <2>1. sigchld' = sigchld \/ sigchld' = (sigchld \/ pc # "auth")
    BY DEF MonitorStep, MonitorFails, MonitorStarts, MonitorExits, ChildExits
  <2> QED
    BY <2>1, Zenon DEF CommInv, TypeOK, MgrTypeOK
<1>3. Serving' /\ Queue' /\ Links' /\ Dialogue' /\ Holding'
  <2>1. UNCHANGED <<pc, cur, born, conn>>
    BY <1>1 DEF slotVars, workerVars
  <2>2. UNCHANGED <<conn, backlog, wconn, wpc, be_fd, suspended>>
    BY <1>1 DEF slotVars, workerVars
  <2>3. Serving'
    BY <2>1 DEF CommInv, Serving, Working
  <2>4. Queue' /\ Links'
    BY <2>2 DEF CommInv, Queue, Links
  <2>5. Dialogue' /\ Holding'
    BY <2>2 DEF CommInv, Dialogue, Holding
  <2> QED
    BY <2>3, <2>4, <2>5
<1>4. ProtoTypeOK'
  BY <1>1 DEF CommInv, TypeOK, ProtoTypeOK
<1>5. /\ monitor' \in [Sessions -> {"unborn", "opening", "waiting", "zombie", "reaped"}]
      /\ inherited' \in [Sessions -> SUBSET Sessions]
  BY <1>1 DEF CommInv, TypeOK, MgrTypeOK
<1>6. MgrTypeOK'
  BY <1>1, <1>2, <1>5 DEF CommInv, TypeOK, MgrTypeOK, slotVars, mountVars
<1>7. WorkerTypeOK'
  BY DEF CommInv, TypeOK, WorkerTypeOK, workerVars
<1> QED
  BY <1>3, <1>4, <1>6, <1>7 DEF CommInv, TypeOK

(***************************************************************************)
(* Time passes.                                                            *)
(***************************************************************************)
LEMMA ClockComm ==
    ASSUME CommInv, Clock, UNCHANGED workerVars
    PROVE  CommInv'
<1>1. /\ now' = now + 1
      /\ UNCHANGED <<pc, clientVars, slotVars, monitorVars, mountVars,
                     auth_throttle, protoVars>>
  BY DEF Clock
<1>2. Serving' /\ Queue' /\ Links' /\ Dialogue' /\ Holding'
  <2>1. UNCHANGED <<pc, cur, born, conn>>
    BY <1>1 DEF clientVars, slotVars, workerVars, protoVars
  <2>2. UNCHANGED <<conn, backlog, wconn, wpc, be_fd, suspended>>
    BY <1>1 DEF clientVars, slotVars, workerVars, protoVars
  <2>3. Serving'
    BY <2>1 DEF CommInv, Serving, Working
  <2>4. Queue' /\ Links'
    BY <2>2 DEF CommInv, Queue, Links
  <2>5. Dialogue' /\ Holding'
    BY <2>2 DEF CommInv, Dialogue, Holding
  <2> QED
    BY <2>3, <2>4, <2>5
<1>3. TypeOK'
  BY SMTT(60), <1>1 DEF CommInv, TypeOK, ProtoTypeOK, MgrTypeOK, WorkerTypeOK,
     clientVars, slotVars, monitorVars, mountVars, workerVars, protoVars
<1> QED
  BY <1>2, <1>3 DEF CommInv

(***************************************************************************)
(* A user process ends.                                                    *)
(***************************************************************************)
LEMMA SessionExitsComm ==
    ASSUME CommInv, NEW s \in Sessions, SessionExits(s)
    PROVE  CommInv'
<1>1. /\ proc' = [proc EXCEPT ![s] = "exited"]
      /\ UNCHANGED <<mgrVars, workerVars, conn, backlog, nthashes>>
  BY DEF SessionExits
<1>2. Serving' /\ Queue' /\ Links' /\ Dialogue' /\ Holding'
  <2>1. UNCHANGED <<pc, cur, born, conn>>
    BY <1>1 DEF clientVars, slotVars, workerVars, mgrVars
  <2>2. UNCHANGED <<conn, backlog, wconn, wpc, be_fd, suspended>>
    BY <1>1 DEF clientVars, slotVars, workerVars, mgrVars
  <2>3. Serving'
    BY <2>1 DEF CommInv, Serving, Working
  <2>4. Queue' /\ Links'
    BY <2>2 DEF CommInv, Queue, Links
  <2>5. Dialogue' /\ Holding'
    BY <2>2 DEF CommInv, Dialogue, Holding
  <2> QED
    BY <2>3, <2>4, <2>5
<1>3. TypeOK'
  BY SMTT(60), <1>1 DEF CommInv, TypeOK, ProtoTypeOK, MgrTypeOK, WorkerTypeOK,
     clientVars, slotVars, monitorVars, mountVars, workerVars, mgrVars
<1> QED
  BY <1>2, <1>3 DEF CommInv

(***************************************************************************)
(* A step that changes nothing.                                            *)
(***************************************************************************)
LEMMA StutterComm ==
    ASSUME CommInv, UNCHANGED vars
    PROVE  CommInv'
<1>1. Serving' /\ Queue' /\ Links' /\ Dialogue' /\ Holding'
  <2>1. UNCHANGED <<pc, cur, born, conn>>
    BY DEF vars, clientVars, slotVars, workerVars, mgrVars, protoVars
  <2>2. UNCHANGED <<conn, backlog, wconn, wpc, be_fd, suspended>>
    BY DEF vars, clientVars, slotVars, workerVars, mgrVars, protoVars
  <2>3. Serving'
    BY <2>1 DEF CommInv, Serving, Working
  <2>4. Queue' /\ Links'
    BY <2>2 DEF CommInv, Queue, Links
  <2>5. Dialogue' /\ Holding'
    BY <2>2 DEF CommInv, Dialogue, Holding
  <2> QED
    BY <2>3, <2>4, <2>5
<1>2. TypeOK'
  BY SMTT(60) DEF CommInv, TypeOK, ProtoTypeOK, MgrTypeOK, WorkerTypeOK, vars,
     clientVars, slotVars, monitorVars, mountVars, workerVars, mgrVars, protoVars
<1> QED
  BY <1>1, <1>2 DEF CommInv

-----------------------------------------------------------------------------
(***************************************************************************)
(* The workers' steps do so too.                                           *)
(***************************************************************************)

(***************************************************************************)
(* A worker step changes nothing of the manager.                           *)
(***************************************************************************)
LEMMA WorkerFrame ==
    ASSUME CommInv, UNCHANGED mgrVars, UNCHANGED <<proc, nthashes>>,
           conn' \in [Conns -> ConnStates], backlog' \in Seq(Conns),
           wpc' \in [Workers -> Places], wconn' \in [Workers -> Conns \cup {None}],
           be_fd' \in [Workers -> Sessions \cup {None}], LoginVarsTyped',
           Serving' /\ Queue' /\ Links' /\ Dialogue',
           \A w \in Workers : be_fd'[w] # None <=> wpc'[w] \in {"proxy", "suspend"}
    PROVE  CommInv'
<1>1. UNCHANGED suspended
  BY DEF mgrVars, slotVars
<1>2. Holding'
  BY <1>1 DEF CommInv, Holding
<1>3. ProtoTypeOK'
  BY DEF CommInv, TypeOK, ProtoTypeOK
<1>4. MgrTypeOK'
  BY DEF CommInv, TypeOK, MgrTypeOK, mgrVars, clientVars, slotVars, monitorVars, mountVars
<1>5. WorkerTypeOK'
  BY DEF WorkerTypeOK, LoginVarsTyped
<1> QED
  BY <1>2, <1>3, <1>4, <1>5 DEF CommInv, TypeOK

(***************************************************************************)
(* A worker that leaves, with or without a connection to close.            *)
(***************************************************************************)
LEMMA LeaveComm ==
    ASSUME CommInv, NEW w \in Workers, NEW p \in {"done", "killed"}, Leave(w, p),
           UNCHANGED mgrVars, UNCHANGED <<proc, nthashes>>,
           \/ wconn[w] # None /\ CloseConn(w)
           \/ wconn[w] = None /\ UNCHANGED <<conn, wconn, backlog>>
    PROVE  CommInv'
<1>1. /\ p \in Places \ Connected /\ p \notin {"proxy", "suspend"}
      /\ Goto(w, p) /\ wpc' = [wpc EXCEPT ![w] = p]
      /\ be_fd' = [be_fd EXCEPT ![w] = None]
  BY DEF Places, Connected, Leave, Goto
<1>2. LoginVarsTyped'
  BY WorkerFacts DEF Leave, LoginVarsTyped, ArcRandom
<1>3. /\ wpc' \in [Workers -> Places]
      /\ be_fd' \in [Workers -> Sessions \cup {None}]
      /\ \A v \in Workers : be_fd'[v] # None <=> wpc'[v] \in {"proxy", "suspend"}
  BY <1>1, WorkerFacts
<1>4. CASE wconn[w] # None /\ CloseConn(w)
  <2>1. /\ conn' \in [Conns -> ConnStates]
        /\ backlog' \in Seq(Conns)
        /\ wconn' \in [Workers -> Conns \cup {None}]
        /\ Serving' /\ Queue' /\ Links' /\ Dialogue'
    BY <1>1, <1>4, MgrQuiet, CloseKeepsComm
  <2> QED
    BY <1>2, <1>3, <2>1, WorkerFrame
<1>5. CASE wconn[w] = None /\ UNCHANGED <<conn, wconn, backlog>>
  <2>1. wpc[w] \notin Connected
    BY <1>5, WorkerFacts
  <2>2. Serving' /\ Queue' /\ Links' /\ Dialogue'
    BY <1>1, <1>5, <2>1, MgrQuiet, QuietKeepsComm
  <2> QED
    BY <1>2, <1>3, <1>5, <2>2, WorkerFacts, WorkerFrame
<1> QED
  BY <1>4, <1>5

(***************************************************************************)
(* A worker that closes its connection and goes on to another place.       *)
(***************************************************************************)
LEMMA MoveOnComm ==
    ASSUME CommInv, NEW w \in Workers, NEW p \in Places \ Connected,
           wpc[w] \in Connected, CloseConn(w), Goto(w, p),
           be_fd' \in [Workers -> Sessions \cup {None}],
           \A v \in Workers : be_fd'[v] # None <=> wpc'[v] \in {"proxy", "suspend"},
           LoginVarsTyped', UNCHANGED mgrVars, UNCHANGED <<proc, nthashes>>
    PROVE  CommInv'
<1>1. wconn[w] # None
  BY WorkerFacts
<1>2. /\ conn' \in [Conns -> ConnStates]
      /\ backlog' \in Seq(Conns)
      /\ wconn' \in [Workers -> Conns \cup {None}]
      /\ Serving' /\ Queue' /\ Links' /\ Dialogue'
  BY <1>1, MgrQuiet, CloseKeepsComm
<1>3. wpc' \in [Workers -> Places]
  BY WorkerFacts DEF Goto
<1> QED
  BY <1>2, <1>3, WorkerFrame

(***************************************************************************)
(* The paths that lead nowhere: GiveUp.                                    *)
(***************************************************************************)
LEMMA GiveUpComm ==
    ASSUME CommInv, NEW w \in Workers, wpc[w] \in Connected \ {"suspend"}, GiveUp(w),
           UNCHANGED mgrVars
    PROVE  CommInv'
<1>1. wconn[w] # None /\ CloseConn(w) /\ UNCHANGED <<proc, nthashes>>
  BY WorkerFacts DEF GiveUp
<1>2. CASE Leave(w, "done")
  BY <1>1, <1>2, LeaveComm
<1>3. CASE /\ mode' = [mode EXCEPT ![w] = "greeter"]
           /\ wuser' = [wuser EXCEPT ![w] = None]
           /\ Goto(w, "greeter")
           /\ UNCHANGED <<be_fd, presented, logon_id, issued_for>>
  <2>1. "greeter" \in Places \ Connected
    BY DEF Places, Connected
  <2>2. LoginVarsTyped'
    BY <1>3, WorkerFacts DEF LoginVarsTyped
  <2>3. /\ be_fd' \in [Workers -> Sessions \cup {None}]
        /\ \A v \in Workers : be_fd'[v] # None <=> wpc'[v] \in {"proxy", "suspend"}
    BY <1>3, WorkerFacts DEF Goto, Connected
  <2> QED
    BY <1>1, <1>3, <2>1, <2>2, <2>3, MoveOnComm
<1> QED
  BY <1>2, <1>3 DEF GiveUp

(***************************************************************************)
(* A worker that has no connection opens one.                              *)
(***************************************************************************)
LEMMA OpenComm ==
    ASSUME CommInv, NEW w \in Workers, NEW c \in Conns, NEW r \in Requests,
           Connect(w, c, r), RequestShape(r), r.op # "SPAWN",
           wpc[w] \notin Connected,
           wconn' = [wconn EXCEPT ![w] = c], Goto(w, AsksAt(r.op)),
           be_fd' = be_fd, be_fd[w] # None <=> AsksAt(r.op) \in {"proxy", "suspend"},
           LoginVarsTyped', UNCHANGED mgrVars, UNCHANGED <<proc, nthashes>>
    PROVE  CommInv'
<1>1. wpc' = [wpc EXCEPT ![w] = AsksAt(r.op)]
  BY DEF Goto
<1>2. /\ conn' \in [Conns -> ConnStates]
      /\ backlog' \in Seq(Conns)
      /\ Serving' /\ Queue' /\ Links' /\ Dialogue'
  BY <1>1, MgrQuiet, ConnectKeepsComm
<1>3. AsksAt(r.op) \in Places
  BY DEF Requests, Ops, AsksAt, Places
<1>4. /\ wpc' \in [Workers -> Places]
      /\ wconn' \in [Workers -> Conns \cup {None}]
      /\ be_fd' \in [Workers -> Sessions \cup {None}]
      /\ \A v \in Workers : be_fd'[v] # None <=> wpc'[v] \in {"proxy", "suspend"}
  BY <1>1, <1>3, WorkerFacts
<1> QED
  BY <1>2, <1>4, WorkerFrame

(***************************************************************************)
(* rdp_sessmgr_resume.                                                     *)
(***************************************************************************)
LEMMA ResumeCallComm ==
    ASSUME CommInv, NEW w \in Workers, rdp_sessmgr_resume(w), UNCHANGED mgrVars
    PROVE  CommInv'
<1>1. PICK c \in Conns, id \in LogonIds, v \in Workers :
        /\ Connect(w, c, ResumeReq(id, v))
        /\ wconn' = [wconn EXCEPT ![w] = c]
        /\ presented' = [presented EXCEPT ![w] = v]
  BY DEF rdp_sessmgr_resume
<1>2. /\ wpc[w] = "start" /\ mode' = [mode EXCEPT ![w] = "resume"]
      /\ Goto(w, "resume")
      /\ UNCHANGED <<wuser, be_fd, logon_id, issued_for, proc, nthashes>>
  BY DEF rdp_sessmgr_resume
<1>3. v \in ArcRandom
  BY DEF ArcRandom
<1>4. PICK r \in Requests : r = ResumeReq(id, v)
  BY <1>3, RequestTypes
<1>5. r.op = "RESUME" /\ AsksAt(r.op) = "resume" /\ RequestShape(r)
  BY <1>4 DEF ResumeReq, AsksAt, RequestShape
<1>6. LoginVarsTyped'
  BY <1>1, <1>2, <1>3, WorkerFacts DEF LoginVarsTyped
<1>7. wpc[w] \notin Connected /\ be_fd[w] = None
  BY <1>2, WorkerFacts DEF Connected
<1> QED
  BY <1>1, <1>2, <1>4, <1>5, <1>6, <1>7, OpenComm

(***************************************************************************)
(* rdp_sessmgr_open_auth, on each of the login paths.                      *)
(***************************************************************************)
LEMMA OpenAuthComm ==
    ASSUME CommInv, NEW w \in Workers, NEW m \in LoginPaths \cup {"greeter"},
           NEW u \in Users, rdp_sessmgr_open_auth(w, m, u), UNCHANGED mgrVars
    PROVE  CommInv'
<1>1. PICK c \in Conns :
        /\ Connect(w, c, AuthReq(u))
        /\ wconn' = [wconn EXCEPT ![w] = c]
  BY DEF rdp_sessmgr_open_auth
<1>2. /\ wpc[w] \in {"start", "login", "greeter"}
      /\ mode' = [mode EXCEPT ![w] = m] /\ wuser' = [wuser EXCEPT ![w] = u]
      /\ Goto(w, "auth")
      /\ UNCHANGED <<be_fd, presented, logon_id, issued_for, proc, nthashes>>
  BY DEF rdp_sessmgr_open_auth
<1>3. PICK r \in Requests : r = AuthReq(u)
  BY RequestTypes
<1>4. r.op = "AUTH" /\ AsksAt(r.op) = "auth" /\ RequestShape(r)
  BY <1>3 DEF AuthReq, AsksAt, RequestShape
<1>5. m \in {"nla", "auto", "greeter"}
  BY WorkerAssumption
<1>6. LoginVarsTyped'
  BY <1>2, <1>5, WorkerFacts DEF LoginVarsTyped
<1>7. wpc[w] \notin Connected /\ be_fd[w] = None
  BY <1>2, WorkerFacts DEF Connected
<1> QED
  BY <1>1, <1>2, <1>3, <1>4, <1>6, <1>7, OpenComm

(***************************************************************************)
(* rdp_sessmgr_suspend: the descriptor in the request is the proxy's.      *)
(***************************************************************************)
LEMMA SuspendCallComm ==
    ASSUME CommInv, NEW w \in Workers, rdp_sessmgr_suspend(w), UNCHANGED mgrVars
    PROVE  CommInv'
<1>1. PICK c \in Conns :
        /\ Connect(w, c, SuspendReq(logon_id[w], w, be_fd[w]))
        /\ wconn' = [wconn EXCEPT ![w] = c]
  BY DEF rdp_sessmgr_suspend
<1>2. /\ wpc[w] = "proxy" /\ Goto(w, "suspend")
      /\ UNCHANGED <<mode, wuser, be_fd, presented, logon_id, issued_for,
                     proc, nthashes>>
  BY DEF rdp_sessmgr_suspend
<1>3. /\ logon_id[w] \in LogonIds \cup {None} /\ w \in ArcRandom /\ w # None
      /\ be_fd[w] \in Sessions \cup {None} /\ be_fd[w] # None
  BY <1>2, WorkerFacts, NoneAssumption DEF LoginVarsTyped, ArcRandom
<1>4. PICK r \in Requests : r = SuspendReq(logon_id[w], w, be_fd[w])
  BY <1>3, RequestTypes
<1>5. r.op = "SUSPEND" /\ AsksAt(r.op) = "suspend" /\ RequestShape(r)
  BY <1>3, <1>4 DEF SuspendReq, AsksAt, RequestShape
<1>6. LoginVarsTyped'
  BY <1>2, WorkerFacts DEF LoginVarsTyped
<1>7. wpc[w] \notin Connected
  BY <1>2 DEF Connected
<1> QED
  BY <1>1, <1>2, <1>3, <1>4, <1>5, <1>6, <1>7, OpenComm

(***************************************************************************)
(* The worker reads a session out of the reply and proxies it.             *)
(***************************************************************************)
LEMMA AttachComm ==
    ASSUME CommInv, NEW w \in Workers, Resumed(w) \/ Spawned(w), UNCHANGED mgrVars
    PROVE  CommInv'
<1>1. /\ wpc[w] \in {"resume", "spawn"} /\ Granted(w) /\ CloseConn(w)
      /\ Goto(w, "proxy") /\ be_fd' = [be_fd EXCEPT ![w] = Reply(w).fd]
      /\ UNCHANGED <<mode, wuser, presented, proc, nthashes>>
  BY DEF Resumed, Spawned
<1>2. wpc[w] \in {"resume", "spawn"} /\ Granted(w)
  BY <1>1
<1>3. Reply(w).fd \in Sessions /\ Reply(w).fd # None
  BY <1>2, GrantedSession, ZenonT(30)
<1>4. PICK s \in Sessions : s = Reply(w).fd /\ s # None
  BY <1>3
<1>5. \/ IssueCookie(w, s)
      \/ UNCHANGED <<logon_id, issued_for>>
  BY <1>4 DEF Resumed, Spawned
<1>6. LoginVarsTyped'
  <2>1. LoginVarsTyped
    BY WorkerFacts
  <2>2. /\ logon_id' \in [Workers -> LogonIds \cup {None}]
        /\ issued_for' \in [Workers -> Sessions \cup {None}]
    <3>1. CASE IssueCookie(w, s)
      <4>1. PICK id \in LogonIds : logon_id' = [logon_id EXCEPT ![w] = id]
        BY <3>1 DEF IssueCookie
      <4>2. issued_for' = [issued_for EXCEPT ![w] = s]
        BY <3>1 DEF IssueCookie
      <4>3. /\ logon_id \in [Workers -> LogonIds \cup {None}]
            /\ issued_for \in [Workers -> Sessions \cup {None}]
        BY <2>1 DEF LoginVarsTyped
      <4>4. logon_id' \in [Workers -> LogonIds \cup {None}]
        BY <4>1, <4>3
      <4>5. issued_for' \in [Workers -> Sessions \cup {None}]
        BY <4>2, <4>3
      <4> QED
        BY <4>4, <4>5
    <3>2. CASE UNCHANGED <<logon_id, issued_for>>
      BY <2>1, <3>2 DEF LoginVarsTyped
    <3> QED
      BY <1>5, <3>1, <3>2
  <2>3. UNCHANGED <<mode, wuser, presented>>
    BY <1>1
  <2> QED
    BY <2>1, <2>2, <2>3 DEF LoginVarsTyped
<1>7. /\ be_fd' \in [Workers -> Sessions \cup {None}]
      /\ \A v \in Workers : be_fd'[v] # None <=> wpc'[v] \in {"proxy", "suspend"}
  BY <1>1, <1>4, WorkerFacts DEF Goto
<1>8. "proxy" \in Places \ Connected /\ wpc[w] \in Connected
  BY <1>1 DEF Places, Connected
<1> QED
  BY <1>1, <1>6, <1>7, <1>8, MoveOnComm

(***************************************************************************)
(* A failed RESUME sends the worker on to the login paths.                 *)
(***************************************************************************)
LEMMA ResumeFailedComm ==
    ASSUME CommInv, NEW w \in Workers, ResumeFailed(w), UNCHANGED mgrVars
    PROVE  CommInv'
<1>1. /\ wpc[w] = "resume" /\ CloseConn(w) /\ Goto(w, "login")
      /\ mode' = [mode EXCEPT ![w] = "none"]
      /\ presented' = [presented EXCEPT ![w] = None]
      /\ UNCHANGED <<wuser, be_fd, logon_id, issued_for, proc, nthashes>>
  BY DEF ResumeFailed
<1>2. LoginVarsTyped'
  BY <1>1, WorkerFacts DEF LoginVarsTyped, ArcRandom
<1>3. /\ be_fd' \in [Workers -> Sessions \cup {None}]
      /\ \A v \in Workers : be_fd'[v] # None <=> wpc'[v] \in {"proxy", "suspend"}
  BY <1>1, WorkerFacts DEF Goto
<1>4. "login" \in Places \ Connected /\ wpc[w] \in Connected
  BY <1>1 DEF Places, Connected
<1> QED
  BY <1>1, <1>2, <1>3, <1>4, MoveOnComm

(***************************************************************************)
(* The exchanges on a connection that stays open.                          *)
(***************************************************************************)
LEMMA TalkComm ==
    ASSUME CommInv, NEW w \in Workers, LoggedIn(w) \/ rdp_sessmgr_spawn(w),
           UNCHANGED mgrVars
    PROVE  CommInv'
<1>1. /\ \/ wpc[w] = "auth" /\ Goto(w, "authed")
         \/ wpc[w] = "authed" /\ Goto(w, "spawn")
      /\ UNCHANGED <<mode, wconn, wuser, be_fd, presented, logon_id, issued_for,
                     backlog, proc, nthashes>>
  BY DEF LoggedIn, rdp_sessmgr_spawn
<1>2. /\ conn' \in [Conns -> ConnStates]
      /\ Serving' /\ Queue' /\ Links' /\ Dialogue'
  BY MgrQuiet, LoggedInKeepsComm, SpawnKeepsComm
<1>3. LoginVarsTyped'
  BY <1>1, WorkerFacts DEF LoginVarsTyped
<1>4. /\ wpc' \in [Workers -> Places]
      /\ be_fd' \in [Workers -> Sessions \cup {None}]
      /\ wconn' \in [Workers -> Conns \cup {None}] /\ backlog' \in Seq(Conns)
      /\ \A v \in Workers : be_fd'[v] # None <=> wpc'[v] \in {"proxy", "suspend"}
  BY <1>1, WorkerFacts DEF Goto, Places
<1> QED
  BY <1>1, <1>2, <1>3, <1>4, WorkerFrame

(***************************************************************************)
(* The worker's ends: logged out, suspended, killed.                       *)
(***************************************************************************)
LEMMA EndsComm ==
    ASSUME CommInv, NEW w \in Workers,
           GreeterCancelled(w) \/ ProxyEnds(w) \/ Suspended(w) \/ Killed(w),
           UNCHANGED mgrVars
    PROVE  CommInv'
<1>1. CASE GreeterCancelled(w) \/ ProxyEnds(w)
  <2>1. /\ wpc[w] \in {"greeter", "proxy"} /\ Leave(w, "done")
        /\ UNCHANGED <<wconn, conn, backlog, proc, nthashes>>
    BY <1>1 DEF GreeterCancelled, ProxyEnds, protoVars
  <2>2. wconn[w] = None
    BY <2>1, WorkerFacts DEF Connected
  <2> QED
    BY <2>1, <2>2, LeaveComm
<1>2. CASE Suspended(w)
  <2>1. /\ wpc[w] = "suspend" /\ Leave(w, "done") /\ CloseConn(w)
        /\ UNCHANGED <<proc, nthashes>>
    BY <1>2 DEF Suspended
  <2>2. wconn[w] # None
    BY <2>1, WorkerFacts DEF Connected
  <2> QED
    BY <2>1, <2>2, LeaveComm
<1>3. CASE Killed(w)
  <2>1. /\ Leave(w, "killed") /\ UNCHANGED <<proc, nthashes>>
        /\ \/ wconn[w] # None /\ CloseConn(w)
           \/ wconn[w] = None /\ UNCHANGED <<conn, wconn, backlog>>
    BY <1>3 DEF Killed
  <2> QED
    BY <2>1, LeaveComm
<1> QED
  BY <1>1, <1>2, <1>3

(***************************************************************************)
(* The step theorem of the first part of the invariant.                    *)
(***************************************************************************)
LEMMA WorkerComm ==
    ASSUME CommInv, NEW w \in Workers, WorkerStep(w) \/ Killed(w), UNCHANGED mgrVars
    PROVE  CommInv'
<1>1. CASE LoginRefused(w) \/ SpawnUnsent(w) \/ SpawnDenied(w)
  <2>1. wpc[w] \in Connected \ {"suspend"} /\ GiveUp(w)
    BY <1>1 DEF LoginRefused, SpawnUnsent, SpawnDenied, Connected
  <2> QED
    BY <2>1, GiveUpComm
<1>2. CASE \E m \in LoginPaths \cup {"greeter"}, u \in Users :
             rdp_sessmgr_open_auth(w, m, u)
  BY <1>2, OpenAuthComm
<1> QED
  BY <1>1, <1>2, ResumeCallComm, AttachComm, ResumeFailedComm, TalkComm,
     SuspendCallComm, EndsComm DEF WorkerStep

(***************************************************************************)
(* The manager's steps, together.                                          *)
(***************************************************************************)
LEMMA MgrComm ==
    ASSUME CommInv, MgrNext, UNCHANGED workerVars
    PROVE  CommInv'
<1>1. CASE MgrStep
  BY <1>1, AcceptComm, ClientLeavesComm, EndClientComm, AuthThrottledComm,
     AuthBeginComm, AuthAcceptsComm, AuthRefusesComm, SpawnRefusedComm,
     SpawnForkComm, SpawnRecordComm, SpawnFailedComm, SpawnStartedComm,
     SuspendComm, ResumeRefusedComm, ResumeTakeComm, ResumeReplyComm DEF MgrStep
<1> QED
  BY <1>1, SigchldComm, MonitorComm, ClockComm DEF MgrNext

(***************************************************************************)
(* Every step of the system keeps CommInv.                                 *)
(***************************************************************************)
LEMMA CommStep ==
    ASSUME CommInv, [Next]_vars
    PROVE  CommInv'
<1>1. CASE Finished
  BY <1>1, StutterComm DEF Finished
<1> QED
  BY <1>1, MgrComm, WorkerComm, SessionExitsComm, StutterComm DEF Next

(***************************************************************************)
(* Nothing is connected, queued or held at the start.                      *)
(***************************************************************************)
LEMMA InitComm == Init => CommInv
<1> SUFFICES ASSUME Init PROVE CommInv
  OBVIOUS
<1>1. FreeConn \in ConnStates /\ ConnShape(FreeConn)
      /\ FreeConn.req = None /\ FreeConn.rsp = None /\ ~FreeConn.up
  BY DEF FreeConn, ConnStates, ConnShape
<1>2. NoSlot \in SlotStates /\ ~NoSlot.in_use
  BY DEF NoSlot, SlotStates, ArcRandom
<1>3. ProtoTypeOK
  BY SMTT(60), <1>1 DEF Init, ProtoInit, ProtoTypeOK
<1>4. auth_throttle \in Tables /\ now \in Nat
  BY DEF Init, MgrInit, ThrottleInit, Tables, EmptyEntry
<1>5. MgrTypeOK
  <2>1. spawn_done \in BOOLEAN /\ sigchld \in BOOLEAN
    BY Zenon DEF Init, MgrInit
  <2>2. /\ suspended \in [Slots -> SlotStates]
        /\ resume_fail_count \in 0 .. ResumeFailMax + 1
        /\ inherited \in [Sessions -> SUBSET Sessions]
    BY SMTT(60), <1>2, SessMgrAssumption DEF Init, MgrInit
  <2> QED
    BY <1>4, <2>1, <2>2 DEF Init, MgrInit, MgrTypeOK
<1>6. WorkerTypeOK
  BY DEF Init, WorkerInit, WorkerTypeOK, Places, ArcRandom
<1>7. Serving /\ Queue
  BY SMTT(60) DEF Init, ProtoInit, MgrInit, Serving, Queue
<1>8. Links /\ Dialogue
  BY <1>1 DEF Init, ProtoInit, WorkerInit, Links, Dialogue, Connected
<1>9. Holding
  BY <1>2 DEF Init, MgrInit, WorkerInit, Holding
<1> QED
  BY <1>3, <1>5, <1>6, <1>7, <1>8, <1>9 DEF CommInv, TypeOK

(***************************************************************************)
(* Workers and manager talk in step for ever.                              *)
(***************************************************************************)
THEOREM CommInvariant == Spec => []CommInv
<1>1. CommInv /\ [Next]_vars => CommInv'
  BY CommStep
<1> QED
  BY <1>1, InitComm, PTL DEF Spec

(***************************************************************************)
(* Type correctness of the whole composition.  It rests on CommInv: the    *)
(* handlers read cur, its request and the descriptor in it without a check *)
(* and the worker's reads index conn by wconn, so each is well typed only  *)
(* because both ends agree on what they are talking about.                 *)
(***************************************************************************)
THEOREM Typed == Spec => []TypeOK
<1>1. CommInv => TypeOK
  BY DEF CommInv
<1> QED
  BY <1>1, CommInvariant, PTL

(***************************************************************************)
(* The types that the proofs about mounts rest on.                         *)
(***************************************************************************)
LEMMA MountTypes ==
    ASSUME CommInv
    PROVE  /\ fuse_mounts \in [Mounts -> Sessions \cup {None}]
           /\ mounted \in [Users -> Sessions \cup {None}]
           /\ monitor \in [Sessions -> {"unborn", "opening", "waiting", "zombie", "reaped"}]
           /\ sess_user \in [Sessions -> Users \cup {None}]
           /\ None \notin Sessions
           /\ pc \in {"record", "status", "resume"} => born \in Sessions
  BY NoneAssumption DEF CommInv, TypeOK, MgrTypeOK, Serving

(***************************************************************************)
(* A table with an entry for every session cannot be full while the mount  *)
(* of one of them is still to be recorded.                                 *)
(***************************************************************************)
LEMMA RoomToRecord ==
    ASSUME CommInv, MountShape, pc = "record", MountMax >= Cardinality(Sessions)
    PROVE  \E m \in Mounts : fuse_mounts[m] = None
<1> SUFFICES ASSUME \A m \in Mounts : fuse_mounts[m] # None PROVE FALSE
  OBVIOUS
<1>1. born \in Sessions /\ fuse_mounts \in [Mounts -> Sessions \ {born}]
  BY MountTypes DEF MountShape
<1>2. /\ IsFiniteSet(Sessions) /\ Cardinality(Sessions) \in Nat
      /\ IsFiniteSet(Sessions \ {born})
      /\ Cardinality(Sessions \ {born}) = Cardinality(Sessions) - 1
  BY <1>1, SessionsAssumption, FS_CardinalityType, FS_RemoveElement
<1>3. IsFiniteSet(Mounts) /\ Cardinality(Mounts) = MountMax
  <2>1. MountMax \in Nat
    BY SessMgrAssumption
  <2>2. IsFiniteSet(1 .. MountMax) /\ Cardinality(1 .. MountMax) = IF 1 > MountMax THEN 0 ELSE MountMax - 1 + 1
    BY <2>1, FS_Interval, SMTT(30)
  <2> QED
    BY <2>1, <2>2, SMTT(30) DEF Mounts
<1>4. Cardinality(Sessions \ {born}) < Cardinality(Mounts)
  BY <1>2, <1>3, SessMgrAssumption, SMTT(30)
<1>5. \E x, y \in Mounts : x # y /\ fuse_mounts[x] = fuse_mounts[y]
  BY <1>1, <1>2, <1>3, <1>4, FS_PigeonHole, ZenonT(30)
<1> QED
  BY <1>5 DEF MountShape

(***************************************************************************)
(* A step that leaves the mounts, the users and the recording of a mount   *)
(* alone keeps the invariant, whatever the monitors do short of being      *)
(* waited for.                                                             *)
(***************************************************************************)
LEMMA QuietMounts ==
    ASSUME CommInv, MountInv, UNCHANGED <<fuse_mounts, mounted, sess_user>>,
           \A s \in Sessions :
             /\ monitor[s] # "unborn" => monitor'[s] # "unborn"
             /\ monitor'[s] = "reaped" => monitor[s] = "reaped",
           UNCHANGED <<pc, born>> \/ (pc # "record" /\ pc' # "record")
    PROVE  MountInv'
<1>1. MountShape'
  BY SMTT(60), MountTypes DEF MountInv, MountShape
<1>2. MountKept => MountKept'
  BY MountTypes DEF MountKept, Recorded
<1> QED
  BY <1>1, <1>2 DEF MountInv

(***************************************************************************)
(* fuse_mount_reap, where no mount is waiting to be recorded: the monitors *)
(* it is run for are the only ones that may have been waited for.          *)
(***************************************************************************)
LEMMA ReapMounts ==
    ASSUME CommInv, MountInv, ~Masked, NEW dead, fuse_mount_reap(dead),
           UNCHANGED sess_user,
           \A s \in Sessions :
             /\ monitor[s] # "unborn" => monitor'[s] # "unborn"
             /\ monitor'[s] = "reaped" => monitor[s] = "reaped" \/ s \in dead,
           UNCHANGED <<pc, born>> \/ (pc # "record" /\ pc' # "record")
    PROVE  MountInv'
<1>1. \A m \in Mounts : fuse_mounts'[m] # None => fuse_mounts'[m] = fuse_mounts[m]
  BY DEF fuse_mount_reap, ReapTable
<1>2. \A m \in Mounts : fuse_mounts[m] \notin dead => fuse_mounts'[m] = fuse_mounts[m]
  BY DEF fuse_mount_reap, ReapTable
<1>3. \A u \in Users :
        mounted'[u] # None =>
          /\ mounted'[u] = mounted[u]
          /\ ~(mounted[u] \in dead /\ Recorded(mounted[u]))
  BY DEF fuse_mount_reap, ReapMounted, Recorded
<1>4. MountShape'
  BY SMTT(60), <1>1, <1>3, MountTypes DEF MountInv, MountShape
<1>5. ASSUME MountKept, NEW u \in Users, mounted'[u] # None
      PROVE  Recorded(mounted[u])' /\ monitor'[mounted[u]] # "reaped"
  <2>1. Recorded(mounted[u]) /\ monitor[mounted[u]] # "reaped" /\ mounted[u] \in Sessions
    BY <1>3, <1>5, MountTypes DEF MountKept, Masked
  <2>2. mounted[u] \notin dead /\ mounted'[u] = mounted[u]
    BY <1>3, <1>5, <2>1
  <2>3. PICK m \in Mounts : fuse_mounts[m] = mounted[u]
    BY <2>1 DEF Recorded
  <2>4. fuse_mounts'[m] = mounted'[u]
    BY <1>2, <2>2, <2>3
  <2> QED
    BY <2>1, <2>2, <2>4 DEF Recorded
<1>6. MountKept => MountKept'
  BY <1>3, <1>5 DEF MountKept, Recorded
<1> QED
  BY <1>4, <1>6 DEF MountInv

(***************************************************************************)
(* The fork: the mount, if there is one, waits to be recorded.             *)
(***************************************************************************)
LEMMA ForkMounts ==
    ASSUME CommInv, MountInv, NEW s \in Sessions, SpawnFork(s)
    PROVE  MountInv'
<1>1. /\ pc = "poll" /\ pc' = "record" /\ born' = s /\ auth \in Users
      /\ monitor[s] = "unborn" /\ monitor' = [monitor EXCEPT ![s] = "opening"]
      /\ sess_user' = [sess_user EXCEPT ![s] = auth]
      /\ fuse_mount_setup(auth, s) /\ fuse_mounts' = fuse_mounts
  BY DEF SpawnFork, Received, MaySpawn, CommInv, TypeOK, MgrTypeOK
<1>2. /\ monitor'[s] = "opening" /\ sess_user'[s] = auth
      /\ \A t \in Sessions \ {s} :
           monitor'[t] = monitor[t] /\ sess_user'[t] = sess_user[t]
  BY <1>1, MountTypes
<1>3. \A u \in Users :
        mounted'[u] = mounted[u] \/ (u = auth /\ mounted'[u] = s)
  BY <1>1, MountTypes DEF fuse_mount_setup
<1>4. /\ \A u \in Users : mounted[u] # s
      /\ \A m \in Mounts : fuse_mounts[m] # s
  BY <1>1, MountTypes DEF MountInv, MountShape
<1>5. \A t \in Sessions : monitor[t] # "unborn" => monitor'[t] # "unborn"
  BY <1>1, <1>2
<1>6. MountShape'
  <2>1. ASSUME NEW u \in Users, mounted'[u] # None
        PROVE  monitor'[mounted'[u]] # "unborn" /\ sess_user'[mounted'[u]] = u
    BY SMTT(60), <1>2, <1>3, <1>4, <2>1, MountTypes DEF MountInv, MountShape
  <2>2. ASSUME NEW m \in Mounts, fuse_mounts'[m] # None
        PROVE  monitor'[fuse_mounts'[m]] # "unborn" /\ fuse_mounts'[m] # born'
    BY SMTT(60), <1>1, <1>4, <1>5, <2>2, MountTypes DEF MountInv, MountShape
  <2> QED
    BY <1>1, <1>2, <2>1, <2>2 DEF MountInv, MountShape
<1>7. ASSUME MountKept, NEW u \in Users, mounted'[u] # None
      PROVE  /\ Recorded(mounted[u])' \/ (pc' = "record" /\ born' = mounted'[u])
             /\ monitor'[mounted'[u]] # "reaped"
  <2>1. CASE mounted'[u] = s
    BY <1>1, <1>2, <2>1
  <2>2. CASE mounted'[u] = mounted[u] /\ mounted[u] # s
    BY SMTT(60), <1>1, <1>2, <1>7, <2>2, MountTypes DEF MountKept, Recorded
  <2> QED
    BY <1>3, <1>4, <2>1, <2>2
<1>8. MountKept => MountKept'
  BY <1>7 DEF MountKept, Recorded
<1> QED
  BY <1>6, <1>8 DEF MountInv

(***************************************************************************)
(* SpawnRecord: the mount enters the table.                                *)
(***************************************************************************)
LEMMA RecordMounts ==
    ASSUME CommInv, MountInv, SpawnRecord
    PROVE  MountInv'
<1>1. /\ pc = "record" /\ pc' = "status" /\ born \in Sessions
      /\ UNCHANGED <<monitor, sess_user, mounted, born>>
      /\ IF mounted[sess_user[born]] = born THEN fuse_mount_record(born)
         ELSE UNCHANGED fuse_mounts
  BY MountTypes DEF SpawnRecord, monitorVars, clientVars
<1>2. ASSUME NEW u \in Users, mounted[u] = born PROVE sess_user[born] = u
  BY <1>1, <1>2, MountTypes DEF MountInv, MountShape
<1>3. CASE UNCHANGED fuse_mounts
  <2>1. MountShape'
    BY <1>1, <1>3 DEF MountInv, MountShape
  <2>2. ASSUME MountKept, MountMax >= Cardinality(Sessions) PROVE MountKept'
    <3>1. \A u \in Users : mounted[u] # born
      <4> SUFFICES ASSUME NEW u \in Users, mounted[u] = born PROVE FALSE
        OBVIOUS
      <4>1. fuse_mount_record(born)
        BY <1>1, <1>2
      <4>2. {m \in Mounts : fuse_mounts[m] = None} # {}
        BY <1>1, <2>2, RoomToRecord DEF MountInv
      <4>3. PICK m \in Mounts : /\ fuse_mounts[m] = None
                                 /\ fuse_mounts' = [fuse_mounts EXCEPT ![m] = born]
        <5>1. {m \in Mounts : fuse_mounts[m] = None} \subseteq Nat
          BY SMTT(60) DEF Mounts
        <5> QED
          BY <4>1, <4>2, <5>1, FirstInSet DEF fuse_mount_record
      <4>4. fuse_mounts'[m] = born
        BY <4>3, MountTypes
      <4> QED
        BY <1>1, <1>3, <4>3, <4>4, MountTypes
    <3> QED
      BY <1>1, <1>3, <2>2, <3>1, MountTypes DEF MountKept, Recorded
  <2> QED
    BY <2>1, <2>2 DEF MountInv
<1>4. CASE \E m \in Mounts : /\ fuse_mounts[m] = None
                              /\ fuse_mounts' = [fuse_mounts EXCEPT ![m] = born]
  <2>1. PICK m \in Mounts : /\ fuse_mounts[m] = None
                             /\ fuse_mounts' = [fuse_mounts EXCEPT ![m] = born]
    BY <1>4
  <2>2. /\ fuse_mounts'[m] = born
        /\ \A n \in Mounts \ {m} : fuse_mounts'[n] = fuse_mounts[n]
    BY <2>1, MountTypes
  <2>3. MountShape'
    BY SMTT(60), <1>1, <2>2, MountTypes DEF MountInv, MountShape
  <2>4. ASSUME NEW s \in Sessions, Recorded(s) \/ s = born PROVE Recorded(s)'
    BY <2>1, <2>2, <2>4, MountTypes DEF Recorded
  <2>5. MountKept => MountKept'
    BY <1>1, <2>4, MountTypes DEF MountKept, Recorded
  <2> QED
    BY <2>3, <2>5 DEF MountInv
<1> QED
  <2>1. {m \in Mounts : fuse_mounts[m] = None} \subseteq Nat
    BY SMTT(60) DEF Mounts
  <2> QED
    BY <1>1, <1>3, <1>4, <2>1, FirstInSet DEF fuse_mount_record

(***************************************************************************)
(* Every step keeps the invariant of the mounts.                           *)
(***************************************************************************)
LEMMA MountStep ==
    ASSUME CommInv, MountInv, [Next]_vars
    PROVE  MountInv'
<1>1. CASE \/ accept \/ ClientLeaves
           \/ AuthThrottled \/ AuthBegin \/ AuthAccepts \/ AuthRefuses
           \/ SpawnRefused \/ SpawnFailed \/ SpawnStarted \/ ResumeReply
           \/ EndClient /\ ~Unanswered
  <2>1. UNCHANGED <<fuse_mounts, mounted, sess_user, monitor>>
    BY <1>1 DEF accept, ClientLeaves, AuthThrottled, AuthBegin, AuthAccepts, AuthRefuses,
       SpawnRefused, SpawnFailed, SpawnStarted, ResumeReply, EndClient, mountVars, monitorVars
  <2>2. pc # "record" /\ pc' # "record"
    BY <1>1 DEF accept, ClientLeaves, AuthThrottled, AuthBegin, AuthAccepts, AuthRefuses,
       SpawnRefused, SpawnFailed, SpawnStarted, ResumeReply, EndClient, Received
  <2> QED
    BY <2>1, <2>2, QuietMounts
<1>2. CASE handle_suspend \/ ResumeRefused \/ ResumeTake \/ (EndClient /\ Unanswered)
  <2>1. SweepMounts /\ UNCHANGED <<sess_user, monitor>>
    BY <1>2 DEF handle_suspend, ResumeRefused, ResumeTake, EndClient, auto_suspend, monitorVars
  <2>2. pc # "record" /\ pc' # "record"
    BY <1>2 DEF handle_suspend, ResumeRefused, ResumeTake, EndClient, Received
  <2> QED
    BY <2>1, <2>2, ReapMounts DEF SweepMounts, Masked
<1>3. CASE on_sigchld
  <2>1. /\ ~Masked /\ fuse_mount_reap(Zombies) /\ UNCHANGED <<sess_user, born>>
        /\ monitor' = [s \in Sessions |-> IF s \in Zombies THEN "reaped" ELSE monitor[s]]
        /\ UNCHANGED pc \/ (pc = "poll" /\ pc' = "end")
    BY <1>3 DEF on_sigchld, clientVars
  <2> QED
    BY <2>1, ReapMounts
<1>4. ASSUME NEW s \in Sessions, MonitorStep(s) PROVE MountInv'
  <2>1. /\ UNCHANGED <<fuse_mounts, mounted, sess_user, pc, born>>
        /\ \E z \in {"waiting", "zombie"} : monitor' = [monitor EXCEPT ![s] = z]
    BY <1>4 DEF MonitorStep, MonitorFails, MonitorStarts, MonitorExits, ChildExits,
       mountVars, clientVars
  <2> QED
    BY <2>1, QuietMounts, MountTypes
<1>5. CASE \/ UNCHANGED mgrVars \/ Clock
  <2>1. UNCHANGED <<fuse_mounts, mounted, sess_user, monitor, pc, born>>
    BY <1>5 DEF mgrVars, Clock, mountVars, monitorVars, clientVars
  <2> QED
    BY <2>1, QuietMounts
<1>6. MgrNext => MountInv'
  BY <1>1, <1>2, <1>3, <1>4, <1>5, ForkMounts, RecordMounts DEF MgrNext, MgrStep
<1> QED
  BY <1>5, <1>6 DEF Next, SessionExits, Finished, vars

(***************************************************************************)
(* Nothing is mounted at the start.                                        *)
(***************************************************************************)
LEMMA InitMounts == Init => MountInv
  BY DEF Init, MgrInit, MountInv, MountShape, MountKept

(***************************************************************************)
(* The inductive invariant of the mounts.                                  *)
(***************************************************************************)
THEOREM MountInvariant == Spec => []MountInv
<1>1. CommInv /\ MountInv /\ [Next]_vars => MountInv'
  BY MountStep
<1> QED
  BY <1>1, InitMounts, CommInvariant, PTL DEF Spec

(***************************************************************************)
(* fuse_mount_reap and the mask around the fork of spawn_session: once a   *)
(* monitor has been waited for its drive is unmounted, whenever the signal *)
(* came, if the mount table has room for every session.                    *)
(***************************************************************************)
THEOREM ReapedTheorem == Spec => []ReapedMeansUnmounted
<1>1. MountInv => ReapedMeansUnmounted
  BY DEF MountInv, MountKept, ReapedMeansUnmounted
<1> QED
  BY <1>1, MountInvariant, PTL

-----------------------------------------------------------------------------
(***************************************************************************)
(* What a step may not do: to a mount.                                     *)
(***************************************************************************)

(***************************************************************************)
(* Every step that removes a mount does so for a monitor that is dead.     *)
(***************************************************************************)
LEMMA MountRemoved ==
    ASSUME CommInv, [Next]_vars, NEW u \in Users, mounted[u] # None,
           mounted'[u] # mounted[u]
    PROVE  monitor[mounted[u]] \in {"zombie", "reaped"}
<1>1. ASSUME NEW dead, fuse_mount_reap(dead) PROVE mounted[u] \in dead
  BY <1>1 DEF fuse_mount_reap, ReapMounted
<1>2. CASE SweepMounts
  BY <1>1, <1>2 DEF SweepMounts
<1>3. CASE on_sigchld
  BY <1>1, <1>3 DEF on_sigchld, Zombies
<1>4. CASE UNCHANGED mounted
  BY <1>4
<1>5. ASSUME NEW s \in Sessions, SpawnFork(s) PROVE FALSE
  BY <1>5, MountTypes DEF SpawnFork, fuse_mount_setup
<1>6. CASE MgrStep
  <2>1. SweepMounts \/ UNCHANGED mounted
    BY <1>5, <1>6 DEF MgrStep, accept, ClientLeaves, EndClient, AuthThrottled, AuthBegin,
       AuthAccepts, AuthRefuses, SpawnRefused, SpawnRecord, SpawnFailed, SpawnStarted,
       handle_suspend, ResumeRefused, ResumeTake, ResumeReply, auto_suspend, mountVars
  <2> QED
    BY <1>2, <1>4, <2>1
<1>7. CASE \/ Clock \/ UNCHANGED mgrVars \/ \E s \in Sessions : MonitorStep(s)
  <2>1. UNCHANGED mounted
    BY <1>7 DEF Clock, mgrVars, MonitorStep, MonitorFails, MonitorStarts, MonitorExits, mountVars
  <2> QED
    BY <1>4, <2>1
<1> QED
  BY <1>3, <1>6, <1>7 DEF Next, MgrNext, SessionExits, Finished, vars

(***************************************************************************)
(* sweep_expired, handle_suspend and handle_resume never take the drive of *)
(* a living session: a mount is removed only when its monitor is dead.     *)
(***************************************************************************)
THEOREM DriveTheorem == Spec => DriveOutlivesSuspend
<1>1. CommInv /\ [Next]_vars =>
        [\A u \in Users :
           mounted[u] # None /\ mounted'[u] # mounted[u]
              => monitor[mounted[u]] \in {"zombie", "reaped"}]_vars
  BY MountRemoved
<1> QED
  BY <1>1, CommInvariant, PTL DEF Spec, DriveOutlivesSuspend

-----------------------------------------------------------------------------
(***************************************************************************)
(* What a step may not do: to a suspend slot.                              *)
(***************************************************************************)

(***************************************************************************)
(* Sweeping, and storing a descriptor after the sweep, leave a slot that   *)
(* is in use and not stale as it is.                                       *)
(***************************************************************************)
LEMMA SlotStays ==
    ASSUME CommInv, NEW i \in Slots, suspended[i].in_use, ~Stale(suspended[i])
    PROVE  /\ Swept[i] = suspended[i]
           /\ \A id \in LogonIds \cup {None}, s \in Sessions \cup {None}, a \in ArcRandom :
                Stored(id, s, a)[i] = suspended[i]
<1>1. suspended \in [Slots -> SlotStates] /\ now \in Nat
  BY DEF CommInv, TypeOK, MgrTypeOK
<1>2. Swept[i] = suspended[i]
  BY DEF Swept
<1>3. ASSUME NEW id \in LogonIds \cup {None}, NEW s \in Sessions \cup {None},
             NEW a \in ArcRandom
      PROVE  Stored(id, s, a)[i] = suspended[i]
  <2>1. Swept \in [Slots -> SlotStates]
    BY <1>1, SweptShape
  <2>2. \/ Stored(id, s, a) = Swept
        \/ \E j \in Slots :
             ~Swept[j].in_use /\ Stored(id, s, a) = [Swept EXCEPT ![j] = NewSlot(id, s, a)]
    BY <1>1, StoredShape
  <2> QED
    BY <1>2, <2>1, <2>2
<1> QED
  BY <1>2, <1>3

(***************************************************************************)
(* The steps that change a slot which is not stale.                        *)
(***************************************************************************)
LEMMA SlotTaken ==
    ASSUME CommInv, [Next]_vars, NEW i \in Slots, suspended[i].in_use,
           suspended'[i] # suspended[i], ~Stale(suspended[i])
    PROVE  /\ cur # None
           /\ conn[cur].req # None
           /\ conn[cur].req.op = "RESUME"
           /\ conn[cur].req.arc = suspended[i].arc_random
<1>1. ResumeTake
  <2>1. CASE UNCHANGED suspended
    BY <2>1
  <2>2. CASE ResumeRefused
    BY <2>2, SlotStays DEF ResumeRefused
  <2>3. CASE handle_suspend
    <3>1. /\ Received("SUSPEND")
          /\ suspended' = Stored(conn[cur].req.id, conn[cur].req.fd, conn[cur].req.arc)
      BY <2>3 DEF handle_suspend
    <3>2. /\ conn[cur].req.id \in LogonIds \cup {None}
          /\ conn[cur].req.fd \in Sessions \cup {None}
          /\ conn[cur].req.arc \in ArcRandom
      BY <3>1, ReceivedFacts DEF Requests
    <3> QED
      BY <3>1, <3>2, SlotStays
  <2>4. CASE EndClient /\ Unanswered
    <3>1. PICK id \in LogonIds : suspended' = Stored(id, retained_fd, None)
      BY <2>4 DEF EndClient, auto_suspend
    <3>2. retained_fd \in Sessions \cup {None} /\ None \in ArcRandom
      BY DEF CommInv, TypeOK, MgrTypeOK, ArcRandom
    <3> QED
      BY <3>1, <3>2, SlotStays
  <2>5. MgrStep => UNCHANGED suspended \/ ResumeTake \/ ResumeRefused \/ handle_suspend
                     \/ (EndClient /\ Unanswered)
    BY DEF MgrStep, accept, ClientLeaves, EndClient, AuthThrottled, AuthBegin,
       AuthAccepts, AuthRefuses, SpawnRefused, SpawnFork, SpawnRecord, SpawnFailed,
       SpawnStarted, ResumeReply, slotVars
  <2>6. CASE \/ Clock \/ on_sigchld \/ UNCHANGED mgrVars \/ \E s \in Sessions : MonitorStep(s)
    BY <2>1, <2>6 DEF Clock, on_sigchld, mgrVars, MonitorStep, MonitorFails, MonitorStarts,
       MonitorExits, slotVars
  <2> QED
    BY <2>1, <2>2, <2>3, <2>4, <2>5, <2>6 DEF Next, MgrNext, SessionExits, Finished, vars
<1>2. Received("RESUME")
  BY <1>1 DEF ResumeTake
<1>3. PICK j \in Slots :
        /\ suspended[j].arc_random = conn[cur].req.arc
        /\ suspended' = [Swept EXCEPT ![j] = NoSlot]
  BY <1>1, TakenSlot
<1>4. Swept \in [Slots -> SlotStates] /\ Swept[i] = suspended[i]
  BY SweptShape, SlotStays DEF CommInv, TypeOK, MgrTypeOK
<1>5. i = j
  BY <1>3, <1>4
<1> QED
  BY <1>2, <1>3, <1>5, ReceivedFacts

(***************************************************************************)
(* handle_resume and sweep_expired: a wrong cookie, a full table and the   *)
(* suspending of other sessions leave a session to its owner.              *)
(***************************************************************************)
THEOREM SlotTheorem == Spec => SlotKeptForOwner
<1>1. CommInv /\ [Next]_vars =>
        [\A i \in Slots :
           suspended[i].in_use /\ suspended'[i] # suspended[i] =>
              \/ Stale(suspended[i])
              \/ /\ cur # None
                 /\ conn[cur].req # None
                 /\ conn[cur].req.op = "RESUME"
                 /\ conn[cur].req.arc = suspended[i].arc_random]_vars
  BY SlotTaken
<1> QED
  BY <1>1, CommInvariant, PTL DEF Spec, SlotKeptForOwner
=============================================================================
