---------------------------- MODULE DriveProofs -----------------------------
(***************************************************************************)
(* Proofs about the remote drive: every request of the kernel is answered  *)
(* once, a node's handle is its own, and the tables of nodes and listings  *)
(* drain, for any number of requests, handles, nodes and slots.            *)
(*                                                                         *)
(* A handler is a composition of operators on the tables.  What the        *)
(* invariant says is therefore said of any tables, each operator is shown  *)
(* to keep it, and a handler's proof follows its composition.              *)
(***************************************************************************)
EXTENDS FuseDrive, WellFoundedInduction, FiniteSetTheorems, TLAPS

(***************************************************************************)
(* Most leaves are first-order: Zenon is tried first, then SMT.            *)
(***************************************************************************)
USE ZenonT(5), SMTT(60)

-----------------------------------------------------------------------------
(***************************************************************************)
(* The invariant, said of tables.                                          *)
(***************************************************************************)

Tables ==
    [node : [AllIds -> NodeRecords \cup {None}],
     flight : [FlightSlots -> Flights \cup {None}],
     close : SUBSET Fids]

(***************************************************************************)
(* What tells the requests in flight apart: only a CLOSE answers nobody,   *)
(* and each kind has the field its completion reads.                       *)
(***************************************************************************)
FlightShape(f) ==
    /\ f.op = "CLOSE" <=> f.unique = None
    /\ f.op = "CLOSE" => f.file_id # None
    /\ f.op = "LIST" => f.cache # 0
    /\ f.op = "RENAME" => f.target # None
    /\ f.lookup => f.op \in {"GETATTR", "QUERY"}

Sound(S) ==
    /\ S \in Tables
    /\ \A i \in FlightSlots : S.flight[i] # None => FlightShape(S.flight[i])

(***************************************************************************)
(* The requests A of the kernel are answered by one request in flight      *)
(* each, the others by none.                                               *)
(***************************************************************************)
Answers(F, i, u) == F[i] # None /\ F[i].unique = u

Answering(F, A) ==
    \A u \in Uniques :
        /\ \A i, j \in FlightSlots : Answers(F, i, u) /\ Answers(F, j, u) => i = j
        /\ u \in A <=> \E i \in FlightSlots : Answers(F, i, u)

(***************************************************************************)
(* A listing of D that is being built has one LIST in flight, and a LIST   *)
(* builds a listing.                                                       *)
(***************************************************************************)
Fills(F, i, d) == F[i] # None /\ F[i].op = "LIST" /\ F[i].cache = d

Listing(F, D) ==
    \A d \in DirSlots :
        /\ \A i, j \in FlightSlots : Fills(F, i, d) /\ Fills(F, j, d) => i = j
        /\ \A i \in FlightSlots :
             Fills(F, i, d) => D[d] # None /\ D[d].filling /\ D[d].node = F[i].node
        /\ D[d] # None /\ D[d].filling => \E i \in FlightSlots : Fills(F, i, d)

(***************************************************************************)
(* The handles H: a node's handle is open for that node and not on its way *)
(* to be closed, a handle that is on its way to be closed is still open,   *)
(* and it is closed once.                                                  *)
(***************************************************************************)
Closes(F, i, h) == F[i] # None /\ F[i].op = "CLOSE" /\ F[i].file_id = h

ClosingIn(S, h) == h \in S.close \/ \E i \in FlightSlots : Closes(S.flight, i, h)

Holds(S, n, h) == S.node[n] # None /\ S.node[n].file_id = h

Handling(S, H) ==
    /\ \A n \in AllIds, h \in Fids : Holds(S, n, h) => H[h] = n /\ ~ClosingIn(S, h)
    /\ \A h \in Fids : ClosingIn(S, h) => H[h] # None
    /\ \A i \in FlightSlots, h \in Fids : Closes(S.flight, i, h) => h \notin S.close
    /\ \A i, j \in FlightSlots, h \in Fids :
         Closes(S.flight, i, h) /\ Closes(S.flight, j, h) => i = j

-----------------------------------------------------------------------------
(***************************************************************************)
(* The operators on tables.                                                *)
(***************************************************************************)

(***************************************************************************)
(* The searches for a free slot end at the first one.                      *)
(***************************************************************************)
LEMMA FirstSlot ==
    ASSUME NEW T, T \subseteq Nat, T # {}
    PROVE  \E i \in T : \A j \in T : i <= j
<1>1. PICK x \in T : \A y \in T : ~(<<y, x>> \in OpToRel(<, Nat))
  BY ZenonT(60), NatLessThanWellFounded, WFMin
<1>2. \A y \in T : ~(y < x)
  BY ZenonT(60), <1>1 DEF OpToRel
<1> QED
  BY SMT, <1>2

(***************************************************************************)
(* The requests in flight become G by adding f in slot i.                  *)
(***************************************************************************)
Added(F, G, i, f) ==
    /\ F[i] = None /\ G[i] = f
    /\ \A j \in FlightSlots \ {i} : G[j] = F[j]

(***************************************************************************)
(* fd_inflight_alloc puts the request into a free slot.                    *)
(***************************************************************************)
LEMMA AllocShape ==
    ASSUME NEW S \in Tables, HasSlot(S), NEW f \in Flights,
           NEW T, T = fd_inflight_alloc(S, f)
    PROVE  /\ T \in Tables /\ T.node = S.node /\ T.close = S.close
           /\ \E i \in FlightSlots : Added(S.flight, T.flight, i, f)
<1> DEFINE free == {i \in FlightSlots : S.flight[i] = None}
           P(j) == /\ S.flight[j] = None
                   /\ \A k \in FlightSlots : S.flight[k] = None => j <= k
           first == CHOOSE j \in FlightSlots : P(j)
<1>1. free # {} /\ free \subseteq Nat
  BY SMT DEF HasSlot, FlightSlots
<1>2. \E j \in FlightSlots : P(j)
  BY ZenonT(30), <1>1, FirstSlot
<1>3. first \in FlightSlots /\ P(first)
  BY ZenonT(30), <1>2
<1>4. PICK i \in FlightSlots : S.flight[i] = None /\ i = first
  BY <1>3
<1>5. T = [S EXCEPT !.flight[i] = f]
  BY <1>4 DEF fd_inflight_alloc
<1>6. T = [node |-> S.node, flight |-> [S.flight EXCEPT ![i] = f], close |-> S.close]
  BY SMTT(60), <1>5 DEF Tables
<1>7. /\ S.node \in [AllIds -> NodeRecords \cup {None}] /\ S.close \in SUBSET Fids
      /\ S.flight \in [FlightSlots -> Flights \cup {None}]
  BY SMT DEF Tables
<1>8. [S.flight EXCEPT ![i] = f] \in [FlightSlots -> Flights \cup {None}]
  BY <1>7
<1>9. T \in Tables
  BY SMTT(60), <1>6, <1>7, <1>8 DEF Tables
<1>10. T.node = S.node /\ T.close = S.close /\ T.flight = [S.flight EXCEPT ![i] = f]
  BY SMT, <1>6
<1>11. T.flight[i] = f /\ \A j \in FlightSlots \ {i} : T.flight[j] = S.flight[j]
  BY SMT, <1>7, <1>10
<1> QED
  BY <1>4, <1>9, <1>10, <1>11 DEF Added

(***************************************************************************)
(* A request takes a free slot and keeps the tables sound.                 *)
(***************************************************************************)
LEMMA AllocSound ==
    ASSUME NEW S, Sound(S), HasSlot(S), NEW f \in Flights, FlightShape(f),
           NEW T, T = fd_inflight_alloc(S, f)
    PROVE  Sound(T) /\ T.node = S.node /\ T.close = S.close
<1>1. S \in Tables
  BY DEF Sound
<1> QED
  BY SMTT(60), <1>1, AllocShape DEF Sound, Added

(***************************************************************************)
(* It adds the kernel request it serves to those answered, if it serves    *)
(* one.                                                                    *)
(***************************************************************************)
LEMMA AddAnswers ==
    ASSUME NEW F, NEW G, NEW f \in Flights, NEW i \in FlightSlots, Added(F, G, i, f),
           NEW A, Answering(F, A)
    PROVE  /\ f.unique \notin Uniques => Answering(G, A)
           /\ f.unique \in Uniques \ A => Answering(G, A \cup {f.unique})
<1>1. f # None
  BY DriveNoneAssumption
<1>2. \A u \in Uniques : /\ ~Answers(F, i, u)
                         /\ Answers(G, i, u) <=> u = f.unique
                         /\ \A j \in FlightSlots \ {i} :
                              Answers(G, j, u) <=> Answers(F, j, u)
  BY <1>1 DEF Answers, Added
<1>3. ASSUME f.unique \notin Uniques PROVE Answering(G, A)
  BY SMTT(60), <1>2, <1>3 DEF Answering
<1>4. ASSUME f.unique \in Uniques \ A PROVE Answering(G, A \cup {f.unique})
  BY SMTT(60), <1>2, <1>4 DEF Answering
<1> QED
  BY <1>3, <1>4

(***************************************************************************)
(* A slot that is freed answers its kernel request no longer.              *)
(***************************************************************************)
LEMMA FreeAnswers ==
    ASSUME NEW F, NEW A, Answering(F, A), NEW i \in FlightSlots, F[i] # None,
           NEW G, G[i] = None, \A j \in FlightSlots \ {i} : G[j] = F[j]
    PROVE  /\ F[i].unique \notin Uniques => Answering(G, A)
           /\ F[i].unique \in Uniques =>
                F[i].unique \in A /\ Answering(G, A \ {F[i].unique})
<1>1. \A u \in Uniques : /\ ~Answers(G, i, u)
                         /\ Answers(F, i, u) <=> u = F[i].unique
                         /\ \A j \in FlightSlots \ {i} : Answers(G, j, u) <=> Answers(F, j, u)
  BY DEF Answers
<1>2. PICK v : v = F[i].unique
  OBVIOUS
<1>3. ASSUME v \notin Uniques PROVE Answering(G, A)
  <2>1. \A u \in Uniques, j \in FlightSlots : Answers(G, j, u) <=> Answers(F, j, u)
    BY <1>1, <1>2, <1>3
  <2> QED
    BY <2>1 DEF Answering
<1>4. ASSUME v \in Uniques PROVE v \in A /\ Answering(G, A \ {v})
  <2>1. v \in A /\ \A j \in FlightSlots \ {i} : ~Answers(F, j, v)
    BY <1>1, <1>2, <1>4 DEF Answering
  <2>2. ASSUME NEW u \in Uniques, u # v
        PROVE  \A j \in FlightSlots : Answers(G, j, u) <=> Answers(F, j, u)
    BY <1>1, <1>2, <2>2
  <2> QED
    BY <1>1, <1>2, <2>1, <2>2 DEF Answering
<1> QED
  BY <1>2, <1>3, <1>4

(***************************************************************************)
(* Listing, but for slot d of the cache, which no LIST fills.              *)
(***************************************************************************)
ListingBut(F, D, d) ==
    /\ \A i \in FlightSlots : ~Fills(F, i, d)
    /\ \A e \in DirSlots \ {d} :
        /\ \A i, j \in FlightSlots : Fills(F, i, e) /\ Fills(F, j, e) => i = j
        /\ \A i \in FlightSlots :
             Fills(F, i, e) => D[e] # None /\ D[e].filling /\ D[e].node = F[i].node
        /\ D[e] # None /\ D[e].filling => \E i \in FlightSlots : Fills(F, i, e)

(***************************************************************************)
(* A request other than LIST leaves the listings as they are.              *)
(***************************************************************************)
LEMMA AddLists ==
    ASSUME NEW F, NEW G, NEW f, NEW i \in FlightSlots, Added(F, G, i, f),
           f.op # "LIST", NEW D, Listing(F, D)
    PROVE  Listing(G, D)
<1>1. \A d \in DirSlots : /\ ~Fills(F, i, d) /\ ~Fills(G, i, d)
                          /\ \A j \in FlightSlots \ {i} :
                               Fills(G, j, d) <=> Fills(F, j, d)
  BY DEF Fills, Added
<1> QED
  BY SMTT(60), <1>1 DEF Listing, Added

(***************************************************************************)
(* A LIST fills a listing that no other fills.                             *)
(***************************************************************************)
LEMMA AddList ==
    ASSUME NEW F, NEW G, NEW f \in Flights, NEW i \in FlightSlots, Added(F, G, i, f),
           NEW D, NEW d \in DirSlots, ListingBut(F, D, d),
           f.op = "LIST", f.cache = d, D[d] # None, D[d].filling, D[d].node = f.node
    PROVE  Listing(G, D)
<1>1. f # None
  BY DriveNoneAssumption
<1>2. \A e \in DirSlots : /\ ~Fills(F, i, e)
                          /\ Fills(G, i, e) <=> e = d
                          /\ \A j \in FlightSlots \ {i} :
                               Fills(G, j, e) <=> Fills(F, j, e)
  BY <1>1 DEF Fills, Added
<1> QED
  BY SMTT(60), <1>2 DEF Listing, ListingBut, Added

(***************************************************************************)
(* A slot that is freed leaves the listing that it filled to nobody.       *)
(***************************************************************************)
LEMMA FreeLists ==
    ASSUME NEW F, NEW D, Listing(F, D), NEW i \in FlightSlots, F[i] # None,
           NEW G, G[i] = None, \A j \in FlightSlots \ {i} : G[j] = F[j]
    PROVE  /\ F[i].op # "LIST" => Listing(G, D)
           /\ \A d \in DirSlots : Fills(F, i, d) =>
                /\ D[d] # None /\ D[d].filling /\ D[d].node = F[i].node
                /\ ListingBut(G, D, d)
<1>1. \A d \in DirSlots : /\ ~Fills(G, i, d)
                          /\ \A j \in FlightSlots \ {i} : Fills(G, j, d) <=> Fills(F, j, d)
  BY DEF Fills
<1>2. ASSUME F[i].op # "LIST" PROVE Listing(G, D)
  <2>1. \A d \in DirSlots, j \in FlightSlots :
          /\ Fills(G, j, d) <=> Fills(F, j, d)
          /\ Fills(F, j, d) => G[j] = F[j]
    BY <1>1, <1>2 DEF Fills
  <2> QED
    BY SMTT(60), <2>1 DEF Listing
<1>3. ASSUME NEW d \in DirSlots, Fills(F, i, d)
      PROVE  /\ D[d] # None /\ D[d].filling /\ D[d].node = F[i].node
             /\ ListingBut(G, D, d)
  <2>1. \A j \in FlightSlots : ~Fills(G, j, d)
    BY SMTT(60), <1>1, <1>3 DEF Listing
  <2>2. \A e \in DirSlots \ {d}, j \in FlightSlots :
          /\ Fills(G, j, e) <=> Fills(F, j, e)
          /\ Fills(F, j, e) => G[j] = F[j]
    BY <1>1, <1>3 DEF Fills
  <2>3. D[d] # None /\ D[d].filling /\ D[d].node = F[i].node
    BY <1>3 DEF Listing
  <2> QED
    BY SMTT(60), <2>1, <2>2, <2>3 DEF Listing, ListingBut
<1> QED
  BY <1>2, <1>3

(***************************************************************************)
(* A listing that is not being built is filled by nobody.                  *)
(***************************************************************************)
LEMMA ListedBut ==
    ASSUME NEW F, NEW D, Listing(F, D), NEW d \in DirSlots, D[d] # None => ~D[d].filling,
           NEW E, \A e \in DirSlots \ {d} : E[e] = D[e]
    PROVE  ListingBut(F, E, d)
  BY DEF Listing, ListingBut

(***************************************************************************)
(* A listing that nobody fills may be finished, dropped or taken anew.     *)
(***************************************************************************)
LEMMA ButListed ==
    ASSUME NEW F, NEW D, NEW d \in DirSlots, ListingBut(F, D, d),
           NEW E, \A e \in DirSlots \ {d} : E[e] = D[e]
    PROVE  /\ ListingBut(F, E, d)
           /\ (E[d] # None => ~E[d].filling) => Listing(F, E)
  BY DEF Listing, ListingBut

(***************************************************************************)
(* What a step does to one node.                                           *)
(***************************************************************************)
LEMMA NodeShape ==
    ASSUME NEW S, Sound(S), NEW n \in AllIds, NEW r \in NodeRecords \cup {None},
           NEW T, T = SetNode(S, n, r)
    PROVE  /\ Sound(T) /\ T.flight = S.flight /\ T.close = S.close
           /\ T.node[n] = r /\ \A m \in AllIds \ {n} : T.node[m] = S.node[m]
<1>1. T = [node |-> [S.node EXCEPT ![n] = r], flight |-> S.flight, close |-> S.close]
  BY SMT DEF Sound, Tables, SetNode
<1>2. /\ S.node \in [AllIds -> NodeRecords \cup {None}] /\ S.close \in SUBSET Fids
      /\ S.flight \in [FlightSlots -> Flights \cup {None}]
  BY SMT DEF Sound, Tables
<1>3. /\ T.flight = S.flight /\ T.close = S.close /\ T.node = [S.node EXCEPT ![n] = r]
  BY SMT, <1>1
<1>4. [S.node EXCEPT ![n] = r] \in [AllIds -> NodeRecords \cup {None}]
  BY <1>2
<1>5. T \in Tables
  BY SMTT(60), <1>1, <1>2, <1>4 DEF Tables
<1>6. T.node[n] = r /\ \A m \in AllIds \ {n} : T.node[m] = S.node[m]
  BY SMT, <1>2, <1>3
<1> QED
  BY <1>3, <1>5, <1>6 DEF Sound

(***************************************************************************)
(* A node that goes, or that keeps or loses its handle, leaves the handles *)
(* as they should be.                                                      *)
(***************************************************************************)
LEMMA NodeHandles ==
    ASSUME NEW S, NEW H, Handling(S, H), NEW T, T.flight = S.flight, T.close = S.close,
           \A n \in AllIds, h \in Fids : Holds(T, n, h) => Holds(S, n, h)
    PROVE  Handling(T, H)
<1>1. \A h \in Fids : ClosingIn(T, h) <=> ClosingIn(S, h)
  BY DEF ClosingIn
<1> QED
  BY <1>1 DEF Handling

(***************************************************************************)
(* A request other than CLOSE leaves the handles alone.                    *)
(***************************************************************************)
LEMMA AddHandles ==
    ASSUME NEW S, NEW T, T.node = S.node, T.close = S.close,
           NEW f, NEW i \in FlightSlots, Added(S.flight, T.flight, i, f),
           f.op # "CLOSE", NEW H, Handling(S, H)
    PROVE  Handling(T, H)
<1>1. \A j \in FlightSlots, h \in Fids : Closes(T.flight, j, h) <=> Closes(S.flight, j, h)
  BY DEF Closes, Added
<1>2. \A h \in Fids : ClosingIn(T, h) <=> ClosingIn(S, h)
  BY <1>1 DEF ClosingIn
<1>3. \A n \in AllIds, h \in Fids : Holds(T, n, h) <=> Holds(S, n, h)
  BY DEF Holds
<1> QED
  BY <1>1, <1>2, <1>3 DEF Handling

(***************************************************************************)
(* A node's record without its handle.                                     *)
(***************************************************************************)
Stripped(r) == [r EXCEPT !.file_id = None, !.access = {}]

(***************************************************************************)
(* fd_send_close takes the handle of the node and sends its CLOSE, in a    *)
(* slot if one is free.                                                    *)
(***************************************************************************)
LEMMA CloseShape ==
    ASSUME NEW S, Sound(S), NEW n \in AllIds, S.node[n] # None,
           S.node[n].file_id # None, NEW T, T = fd_send_close(S, n)
    PROVE  /\ Sound(T) /\ S.node[n].file_id \in Fids
           /\ T.node[n] = Stripped(S.node[n])
           /\ \A m \in AllIds \ {n} : T.node[m] = S.node[m]
           /\ \/ /\ T.flight = S.flight
                 /\ T.close = S.close \cup {S.node[n].file_id}
              \/ /\ T.close = S.close
                 /\ \E i \in FlightSlots :
                      Added(S.flight, T.flight, i, OnHandle(S, "CLOSE", None, n))
<1> DEFINE h == S.node[n].file_id
           f == OnHandle(S, "CLOSE", None, n)
           Sent == IF HasSlot(S) THEN fd_inflight_alloc(S, f)
                   ELSE [S EXCEPT !.close = @ \cup {h}]
<1>1. /\ S.node \in [AllIds -> NodeRecords \cup {None}] /\ S.close \in SUBSET Fids
      /\ S.flight \in [FlightSlots -> Flights \cup {None}] /\ S \in Tables
  BY SMT DEF Sound, Tables
<1>2. S.node[n] \in NodeRecords /\ h \in Fids
  BY <1>1 DEF NodeRecords
<1>3. f \in Flights /\ FlightShape(f)
  BY <1>2 DEF OnHandle, Flight, Flights, FlightShape, OpenTags
<1>4. Stripped(S.node[n]) \in NodeRecords
  BY <1>2 DEF Stripped, NodeRecords
<1>5. PICK U : U = Sent
  OBVIOUS
<1>6. /\ Sound(U) /\ U.node = S.node
      /\ \/ U.flight = S.flight /\ U.close = S.close \cup {h}
         \/ /\ U.close = S.close
            /\ \E i \in FlightSlots : Added(S.flight, U.flight, i, f)
  <2>1. CASE HasSlot(S)
    <3>1. U = fd_inflight_alloc(S, f)
      BY <1>5, <2>1
    <3> QED
      BY <1>1, <1>3, <2>1, <3>1, AllocSound, AllocShape
  <2>2. CASE ~HasSlot(S)
    <3>1. U = [node |-> S.node, flight |-> S.flight, close |-> S.close \cup {h}]
      BY SMT, <1>1, <1>5, <2>2 DEF Tables
    <3>2. U.node = S.node /\ U.flight = S.flight /\ U.close = S.close \cup {h}
      BY SMT, <3>1
    <3>3. U \in Tables
      BY <1>1, <1>2, <3>1 DEF Tables
    <3> QED
      BY <3>2, <3>3 DEF Sound
  <2> QED
    BY <2>1, <2>2
<1>7. T = SetNode(U, n, Stripped(S.node[n]))
  BY <1>2, <1>5 DEF fd_send_close, Stripped
<1>8. /\ Sound(T) /\ T.flight = U.flight /\ T.close = U.close
      /\ T.node[n] = Stripped(S.node[n]) /\ \A m \in AllIds \ {n} : T.node[m] = U.node[m]
  BY SMTT(60), <1>4, <1>6, <1>7, NodeShape
<1> QED
  BY <1>2, <1>6, <1>8

(***************************************************************************)
(* What a request that takes a slot keeps.                                 *)
(***************************************************************************)
LEMMA AllocKeeps ==
    ASSUME NEW S, Sound(S), HasSlot(S), NEW f \in Flights, FlightShape(f),
           NEW T, T = fd_inflight_alloc(S, f)
    PROVE  /\ Sound(T) /\ T.node = S.node /\ T.close = S.close
           /\ \A A : /\ f.unique \notin Uniques /\ Answering(S.flight, A)
                          => Answering(T.flight, A)
                     /\ f.unique \in Uniques \ A /\ Answering(S.flight, A)
                          => Answering(T.flight, A \cup {f.unique})
           /\ \A D : f.op # "LIST" /\ Listing(S.flight, D) => Listing(T.flight, D)
           /\ \A H : f.op # "CLOSE" /\ Handling(S, H) => Handling(T, H)
<1>1. Sound(T) /\ T.node = S.node /\ T.close = S.close
  BY AllocSound
<1>2. PICK i \in FlightSlots : Added(S.flight, T.flight, i, f)
  BY AllocShape DEF Sound
<1>3. ASSUME NEW A, Answering(S.flight, A)
      PROVE  /\ f.unique \notin Uniques => Answering(T.flight, A)
             /\ f.unique \in Uniques \ A => Answering(T.flight, A \cup {f.unique})
  BY <1>2, <1>3, AddAnswers
<1>4. ASSUME NEW D, f.op # "LIST", Listing(S.flight, D) PROVE Listing(T.flight, D)
  BY <1>2, <1>4, AddLists
<1>5. ASSUME NEW H, f.op # "CLOSE", Handling(S, H) PROVE Handling(T, H)
  BY <1>1, <1>2, <1>5, AddHandles
<1> QED
  BY <1>1, <1>3, <1>4, <1>5

(***************************************************************************)
(* A node's CLOSE keeps the requests answered, the listings and the        *)
(* handles, and leaves the node without one.                               *)
(***************************************************************************)
LEMMA CloseKeeps ==
    ASSUME NEW S, Sound(S), NEW n \in AllIds, S.node[n] # None,
           NEW T, T = fd_send_close(S, n)
    PROVE  /\ Sound(T) /\ T.node[n] \in {S.node[n], Stripped(S.node[n])}
           /\ T.node[n] \in NodeRecords /\ T.node[n].file_id = None
           /\ \A m \in AllIds \ {n} : T.node[m] = S.node[m]
           /\ \A A : Answering(S.flight, A) => Answering(T.flight, A)
           /\ \A D : Listing(S.flight, D) => Listing(T.flight, D)
           /\ \A H : Handling(S, H) => Handling(T, H)
<1>1. S.node[n] \in NodeRecords
  BY SMT DEF Sound, Tables
<1>2. CASE S.node[n].file_id = None
  <2>1. T = S
    BY <1>2 DEF fd_send_close
  <2> QED
    BY <1>1, <1>2, <2>1
<1>3. CASE S.node[n].file_id # None
  <2> DEFINE h == S.node[n].file_id
             f == OnHandle(S, "CLOSE", None, n)
  <2>1. /\ Sound(T) /\ h \in Fids /\ T.node[n] = Stripped(S.node[n])
        /\ \A m \in AllIds \ {n} : T.node[m] = S.node[m]
        /\ \/ T.flight = S.flight /\ T.close = S.close \cup {h}
           \/ /\ T.close = S.close
              /\ \E i \in FlightSlots : Added(S.flight, T.flight, i, f)
    BY SMTT(60), <1>3, CloseShape
  <2>2. /\ Stripped(S.node[n]) \in NodeRecords /\ Stripped(S.node[n]).file_id = None
        /\ Stripped(S.node[n]) # None /\ None \notin Fids /\ None \notin Uniques
    BY <1>1, DriveNoneAssumption DEF Stripped, NodeRecords
  <2>3. /\ f \in Flights /\ f.op = "CLOSE" /\ f.unique = None /\ f.file_id = h
        /\ f # None
    <3>1. f \in Flights /\ f.op = "CLOSE" /\ f.unique = None /\ f.file_id = h
      BY <2>1 DEF OnHandle, Flight, Flights, OpenTags
    <3> QED
      BY <3>1, DriveNoneAssumption
  <2>4. ASSUME NEW A, Answering(S.flight, A) PROVE Answering(T.flight, A)
    BY <2>1, <2>2, <2>3, <2>4, AddAnswers
  <2>5. ASSUME NEW D, Listing(S.flight, D) PROVE Listing(T.flight, D)
    BY <2>1, <2>3, <2>5, AddLists
  <2>6. ASSUME NEW H, Handling(S, H) PROVE Handling(T, H)
    <3>1. \A k \in Fids : ~Holds(T, n, k)
      BY <2>1, <2>2 DEF Holds
    <3>2. \A m \in AllIds, k \in Fids : Holds(T, m, k) => Holds(S, m, k) /\ m # n
      BY <2>1, <3>1 DEF Holds
    <3>3. H[h] = n /\ ~ClosingIn(S, h) /\ H[h] # None
      BY <2>1, <2>6, DriveNoneAssumption DEF Handling, Holds, AllIds
    <3>4. \A k \in Fids : ClosingIn(T, k) => ClosingIn(S, k) \/ k = h
      BY <2>1, <2>3 DEF ClosingIn, Closes, Added
    <3>5. \A m \in AllIds, k \in Fids : Holds(T, m, k) => H[k] = m /\ ~ClosingIn(T, k)
      BY SMTT(60), <2>6, <3>2, <3>3, <3>4 DEF Handling
    <3>6. \A k \in Fids : ClosingIn(T, k) => H[k] # None
      BY <2>6, <3>3, <3>4 DEF Handling
    <3>7. \A i \in FlightSlots, k \in Fids : Closes(T.flight, i, k) => k \notin T.close
      BY SMTT(60), <2>1, <2>3, <2>6, <3>3 DEF Handling, ClosingIn, Closes, Added
    <3>8. \A i, j \in FlightSlots, k \in Fids :
            Closes(T.flight, i, k) /\ Closes(T.flight, j, k) => i = j
      BY SMTT(60), <2>1, <2>3, <2>6, <3>3 DEF Handling, ClosingIn, Closes, Added
    <3> QED
      BY <3>5, <3>6, <3>7, <3>8 DEF Handling
  <2> QED
    BY <2>1, <2>2, <2>4, <2>5, <2>6
<1> QED
  BY <1>2, <1>3

(***************************************************************************)
(* A slot is freed before its completion runs.                             *)
(***************************************************************************)
LEMMA FreedKeeps ==
    ASSUME Sound(DriveTables), NEW i \in FlightSlots, inflight[i] # None,
           NEW T, T = Freed(i)
    PROVE  /\ Sound(T) /\ T.node = nodes /\ T.close = closes /\ HasSlot(T)
           /\ \A A : Answering(inflight, A) =>
                /\ inflight[i].unique \notin Uniques => Answering(T.flight, A)
                /\ inflight[i].unique \in Uniques =>
                     /\ inflight[i].unique \in A
                     /\ Answering(T.flight, A \ {inflight[i].unique})
           /\ \A D : Listing(inflight, D) =>
                /\ inflight[i].op # "LIST" => Listing(T.flight, D)
                /\ \A d \in DirSlots : Fills(inflight, i, d) =>
                     /\ D[d] # None /\ D[d].filling /\ D[d].node = inflight[i].node
                     /\ ListingBut(T.flight, D, d)
           /\ \A H : Handling(DriveTables, H) => Handling(T, H)
<1>1. DriveTables = [node |-> nodes, flight |-> inflight, close |-> closes]
  BY DEF DriveTables
<1>2. /\ nodes \in [AllIds -> NodeRecords \cup {None}] /\ closes \in SUBSET Fids
      /\ inflight \in [FlightSlots -> Flights \cup {None}]
  BY SMT, <1>1 DEF Sound, Tables
<1>3. T = [node |-> nodes, flight |-> [inflight EXCEPT ![i] = None], close |-> closes]
  BY SMT, <1>1 DEF Freed
<1>4. T.node = nodes /\ T.close = closes /\ T.flight = [inflight EXCEPT ![i] = None]
  BY SMT, <1>3
<1>5. T.flight[i] = None /\ \A j \in FlightSlots \ {i} : T.flight[j] = inflight[j]
  BY SMT, <1>2, <1>4
<1>6. Sound(T) /\ HasSlot(T)
  <2>1. [inflight EXCEPT ![i] = None] \in [FlightSlots -> Flights \cup {None}]
    BY <1>2
  <2>2. T \in Tables
    BY SMTT(60), <1>2, <1>3, <2>1 DEF Tables
  <2> QED
    BY <1>1, <1>5, <2>2 DEF Sound, HasSlot
<1>7. ASSUME NEW A, Answering(inflight, A)
      PROVE  /\ inflight[i].unique \notin Uniques => Answering(T.flight, A)
             /\ inflight[i].unique \in Uniques =>
                  /\ inflight[i].unique \in A
                  /\ Answering(T.flight, A \ {inflight[i].unique})
  BY <1>5, <1>7, FreeAnswers
<1>8. ASSUME NEW D, Listing(inflight, D)
      PROVE  /\ inflight[i].op # "LIST" => Listing(T.flight, D)
             /\ \A d \in DirSlots : Fills(inflight, i, d) =>
                  /\ D[d] # None /\ D[d].filling /\ D[d].node = inflight[i].node
                  /\ ListingBut(T.flight, D, d)
  BY <1>5, <1>8, FreeLists
<1>9. ASSUME NEW H, Handling(DriveTables, H) PROVE Handling(T, H)
  <2>1. \A j \in FlightSlots, h \in Fids :
          Closes(T.flight, j, h) => Closes(DriveTables.flight, j, h)
    BY <1>1, <1>5 DEF Closes
  <2>2. T.node = DriveTables.node /\ T.close = DriveTables.close
    BY <1>1, <1>4
  <2>3. /\ \A h \in Fids : ClosingIn(T, h) => ClosingIn(DriveTables, h)
        /\ \A n \in AllIds, h \in Fids : Holds(T, n, h) <=> Holds(DriveTables, n, h)
    BY <2>1, <2>2 DEF ClosingIn, Holds
  <2> QED
    BY <1>9, <2>1, <2>2, <2>3 DEF Handling
<1> QED
  BY <1>4, <1>6, <1>7, <1>8, <1>9

(***************************************************************************)
(* The client opens handle h for node n: its handles H become I, and the   *)
(* node's record r gets the handle.                                        *)
(***************************************************************************)
Rights == SUBSET {"read", "write", "delete"}

OpensFor(H, I, h, n) ==
    /\ H[h] = None /\ I[h] = n
    /\ \A k \in Fids \ {h} : I[k] = H[k]

Given(r, h, access) == [r EXCEPT !.file_id = h, !.access = access]

(***************************************************************************)
(* The node gets the handle that the client has opened for it.             *)
(***************************************************************************)
LEMMA OpenKeeps ==
    ASSUME NEW S, Sound(S), NEW n \in AllIds, S.node[n] # None, NEW h \in Fids,
           NEW access \in Rights,
           NEW T, T = NowOpen(S, n, h, access)
    PROVE  /\ Sound(T) /\ T.flight = S.flight /\ T.close = S.close
           /\ T.node[n] = Given(S.node[n], h, access)
           /\ T.node[n] \in NodeRecords /\ T.node[n].file_id = h
           /\ \A m \in AllIds \ {n} : T.node[m] = S.node[m]
           /\ \A H, I : OpensFor(H, I, h, n) /\ Handling(S, H) => Handling(T, I)
<1> DEFINE r == Given(S.node[n], h, access)
<1>1. S.node[n] \in NodeRecords
  BY SMT DEF Sound, Tables
<1>2. r \in NodeRecords /\ r.file_id = h /\ r # None
  <2>1. r \in NodeRecords /\ r.file_id = h
    BY <1>1 DEF NodeRecords, Given, Rights
  <2> QED
    BY <2>1, DriveNoneAssumption
<1>3. /\ Sound(T) /\ T.flight = S.flight /\ T.close = S.close
      /\ T.node[n] = r /\ \A m \in AllIds \ {n} : T.node[m] = S.node[m]
  BY SMTT(60), <1>2, NodeShape DEF NowOpen, Given
<1>4. ASSUME NEW H, NEW I, OpensFor(H, I, h, n), Handling(S, H)
      PROVE  Handling(T, I)
  <2>1. /\ H[h] = None /\ I[h] = n /\ \A k \in Fids \ {h} : I[k] = H[k]
        /\ n # None /\ None \notin AllIds
    BY <1>4, DriveNoneAssumption DEF AllIds, OpensFor
  <2>2. \A k \in Fids : ClosingIn(T, k) <=> ClosingIn(S, k)
    BY <1>3 DEF ClosingIn
  <2>3. ~ClosingIn(S, h) /\ \A m \in AllIds : ~Holds(S, m, h)
    BY <1>4, <2>1 DEF Handling
  <2>4. \A m \in AllIds, k \in Fids :
          Holds(T, m, k) => (m = n /\ k = h) \/ (Holds(S, m, k) /\ k # h)
    BY <1>2, <1>3, <2>3 DEF Holds
  <2> QED
    BY SMTT(60), <1>3, <1>4, <2>1, <2>2, <2>3, <2>4 DEF Handling
<1> QED
  BY <1>2, <1>3, <1>4

-----------------------------------------------------------------------------
(***************************************************************************)
(* The invariant, and what a handler's tables must be for it to hold after *)
(* the handler.                                                            *)
(***************************************************************************)
OpenRequests == {u \in Uniques : asked[u] # None}

Good(S, A, D, H) ==
    /\ Sound(S) /\ Answering(S.flight, A) /\ Listing(S.flight, D)
    /\ losses = 0 => Handling(S, H)

DriveInv ==
    /\ DriveTypeOK /\ workload \in Workloads /\ stray = FALSE
    /\ Good(DriveTables, OpenRequests, dircache, handles)

(***************************************************************************)
(* A request other than LIST and CLOSE adds the kernel request it serves.  *)
(***************************************************************************)
LEMMA GoodAlloc ==
    ASSUME NEW S, NEW A, NEW D, NEW H, Good(S, A, D, H), HasSlot(S),
           NEW f \in Flights, FlightShape(f), f.op \notin {"LIST", "CLOSE"},
           f.unique \in Uniques \ A, NEW T, T = fd_inflight_alloc(S, f)
    PROVE  Good(T, A \cup {f.unique}, D, H) /\ T.node = S.node
  BY AllocKeeps DEF Good

(***************************************************************************)
(* Closing the handle of a node.                                           *)
(***************************************************************************)
LEMMA GoodClose ==
    ASSUME NEW S, NEW A, NEW D, NEW H, Good(S, A, D, H), NEW n \in AllIds,
           S.node[n] # None, NEW T, T = fd_send_close(S, n)
    PROVE  /\ Good(T, A, D, H)
           /\ T.node[n] \in NodeRecords /\ T.node[n].file_id = None
           /\ T.node[n] \in {S.node[n], Stripped(S.node[n])}
           /\ \A m \in AllIds \ {n} : T.node[m] = S.node[m]
  BY SMTT(60), CloseKeeps DEF Good

(***************************************************************************)
(* A node that is set to have the handle it has, none, or to go.           *)
(***************************************************************************)
LEMMA GoodNode ==
    ASSUME NEW S, NEW A, NEW D, NEW H, Good(S, A, D, H), NEW n \in AllIds,
           NEW r \in NodeRecords \cup {None},
           r # None /\ r.file_id # None => S.node[n] # None /\ S.node[n].file_id = r.file_id,
           NEW T, T = SetNode(S, n, r)
    PROVE  Good(T, A, D, H) /\ T.node[n] = r /\ T.flight = S.flight
<1>1. /\ Sound(T) /\ T.flight = S.flight /\ T.close = S.close
      /\ T.node[n] = r /\ \A m \in AllIds \ {n} : T.node[m] = S.node[m]
  BY SMTT(60), NodeShape DEF Good
<1>2. \A m \in AllIds, h \in Fids : Holds(T, m, h) => Holds(S, m, h)
  BY <1>1, DriveNoneAssumption DEF Holds
<1> QED
  BY <1>1, <1>2, NodeHandles DEF Good

(***************************************************************************)
(* A node that gets the handle the client has opened for it.               *)
(***************************************************************************)
LEMMA GoodOpen ==
    ASSUME NEW S, NEW A, NEW D, NEW H, Good(S, A, D, H),
           NEW n \in AllIds, S.node[n] # None, NEW h \in Fids, NEW access \in Rights,
           NEW T, T = NowOpen(S, n, h, access), NEW I, OpensFor(H, I, h, n)
    PROVE  /\ Good(T, A, D, I) /\ T.flight = S.flight
           /\ T.node[n] = Given(S.node[n], h, access)
           /\ T.node[n] \in NodeRecords /\ T.node[n].file_id = h
<1>1. Sound(S)
  BY DEF Good
<1>2. /\ Sound(T) /\ T.flight = S.flight
      /\ T.node[n] = Given(S.node[n], h, access)
      /\ T.node[n] \in NodeRecords /\ T.node[n].file_id = h
  BY SMTT(60), <1>1, OpenKeeps
<1>3. Handling(S, H) => Handling(T, I)
  BY <1>1, OpenKeeps
<1> QED
  BY <1>2, <1>3 DEF Good

(***************************************************************************)
(* The reply to a request other than LIST and CLOSE has come: its slot is  *)
(* free and its kernel request, which is open, waits for nobody.           *)
(***************************************************************************)
LEMMA GoodFreed ==
    ASSUME DriveInv, NEW i \in FlightSlots, inflight[i] # None,
           inflight[i].op \notin {"LIST", "CLOSE"}, NEW T, T = Freed(i)
    PROVE  /\ Good(T, OpenRequests \ {inflight[i].unique}, dircache, handles)
           /\ inflight[i].unique \in OpenRequests /\ inflight[i].node \in AllIds
           /\ T.node = nodes /\ HasSlot(T)
<1>1. /\ DriveTables.flight = inflight /\ inflight[i] \in Flights
      /\ FlightShape(inflight[i])
  BY DEF DriveInv, DriveTypeOK, Good, Sound, DriveTables
<1>2. inflight[i].unique \in Uniques /\ inflight[i].node \in AllIds
  BY <1>1 DEF Flights, FlightShape
<1> QED
  BY <1>1, <1>2, FreedKeeps DEF DriveInv, Good

(***************************************************************************)
(* The invariant after a step that leaves good tables.                     *)
(***************************************************************************)
LEMMA Concludes ==
    ASSUME DriveInv, UNCHANGED workload, NEW S, Become(S), Sound(S),
           Answering(S.flight, OpenRequests'), Listing(S.flight, dircache'),
           losses' = 0 => Handling(S, handles'), stray' = FALSE,
           asked' \in [Uniques -> KernelRequests(workload.ops) \cup {None}],
           kref' \in [AllIds -> Nat], kfds' \in [AllIds -> Nat],
           dircache' \in [DirSlots -> Listings \cup {None}],
           handles' \in [Fids -> AllIds \cup {None}],
           lost' \subseteq FlightSlots, losses' \in 0..workload.losses
    PROVE  DriveInv'
<1>1. S = [node |-> S.node, flight |-> S.flight, close |-> S.close]
  BY SMT DEF Sound, Tables
<1>2. DriveTables' = S
  BY <1>1 DEF DriveTables, Become
<1>3. /\ S.node \in [AllIds -> NodeRecords \cup {None}] /\ S.close \in SUBSET Fids
      /\ S.flight \in [FlightSlots -> Flights \cup {None}]
  BY SMT DEF Sound, Tables
<1>4. DriveTypeOK'
  BY <1>3 DEF DriveTypeOK, Become
<1>5. Good(DriveTables, OpenRequests, dircache, handles)'
  BY <1>2 DEF Good
<1> QED
  BY <1>4, <1>5 DEF DriveInv

(***************************************************************************)
(* After a handler that waits for the client.                              *)
(***************************************************************************)
LEMMA WaitsKeeps ==
    ASSUME DriveInv, UNCHANGED workload, UNCHANGED clientVars,
           NEW u \in Uniques, asked[u] = None, NEW r \in KernelRequests(workload.ops),
           NEW S, Waits(u, r, S),
           dircache' \in [DirSlots -> Listings \cup {None}],
           Good(S, OpenRequests \cup {u}, dircache', handles)
    PROVE  DriveInv'
<1>1. r # None
  BY DriveNoneAssumption DEF DriveInv
<1>2. asked' \in [Uniques -> KernelRequests(workload.ops) \cup {None}]
  BY DEF DriveInv, DriveTypeOK, Waits
<1>3. OpenRequests' = OpenRequests \cup {u}
  BY <1>1 DEF OpenRequests, DriveInv, DriveTypeOK, Waits
<1>4. stray' = FALSE /\ Become(S) /\ kref' = kref /\ kfds' = kfds
  BY DEF DriveInv, Waits
<1>5. handles' = handles /\ lost' = lost /\ losses' = losses
  BY DEF clientVars
<1> QED
  BY <1>2, <1>3, <1>4, <1>5, Concludes DEF Good, DriveInv, DriveTypeOK

(***************************************************************************)
(* After a handler that replies at once.                                   *)
(***************************************************************************)
LEMMA AtOnceKeeps ==
    ASSUME DriveInv, UNCHANGED workload, UNCHANGED clientVars,
           NEW S, NEW reply, NEW n \in AllIds, AtOnce(S, reply, n),
           dircache' \in [DirSlots -> Listings \cup {None}],
           Good(S, OpenRequests, dircache', handles)
    PROVE  DriveInv'
<1>1. kref' \in [AllIds -> Nat] /\ kfds' \in [AllIds -> Nat]
  BY SMT DEF AtOnce, KernelGets, DriveInv, DriveTypeOK
<1>2. OpenRequests' = OpenRequests
  BY DEF OpenRequests, AtOnce
<1>3. stray' = FALSE /\ Become(S) /\ asked' = asked
  BY DEF DriveInv, AtOnce
<1>4. handles' = handles /\ lost' = lost /\ losses' = losses
  BY DEF clientVars
<1> QED
  BY <1>1, <1>2, <1>3, <1>4, Concludes DEF Good, DriveInv, DriveTypeOK

(***************************************************************************)
(* After a completion that sends the next request of its chain.            *)
(***************************************************************************)
LEMMA ChainedKeeps ==
    ASSUME DriveInv, UNCHANGED workload, UNCHANGED <<lost, losses>>, NEW S, Chained(S),
           dircache' \in [DirSlots -> Listings \cup {None}],
           handles' \in [Fids -> AllIds \cup {None}],
           Good(S, OpenRequests, dircache', handles')
    PROVE  DriveInv'
<1>1. stray' = FALSE /\ Become(S) /\ asked' = asked /\ kref' = kref /\ kfds' = kfds
  BY DEF DriveInv, Chained, kernelVars
<1>2. OpenRequests' = OpenRequests
  BY <1>1 DEF OpenRequests
<1> QED
  BY <1>1, <1>2, Concludes DEF Good, DriveInv, DriveTypeOK

(***************************************************************************)
(* After a completion that replies to u.                                   *)
(***************************************************************************)
LEMMA RepliedKeeps ==
    ASSUME DriveInv, UNCHANGED workload, UNCHANGED <<lost, losses>>,
           NEW u \in OpenRequests, NEW S, NEW reply, NEW n \in AllIds,
           Replied(u, S, reply, n),
           dircache' \in [DirSlots -> Listings \cup {None}],
           handles' \in [Fids -> AllIds \cup {None}],
           Good(S, OpenRequests \ {u}, dircache', handles')
    PROVE  DriveInv'
<1>1. kref' \in [AllIds -> Nat] /\ kfds' \in [AllIds -> Nat]
  BY SMT DEF Replied, KernelGets, DriveInv, DriveTypeOK
<1>2. asked' \in [Uniques -> KernelRequests(workload.ops) \cup {None}]
  BY DEF DriveInv, DriveTypeOK, Replied
<1>3. OpenRequests' = OpenRequests \ {u}
  BY DEF OpenRequests, DriveInv, DriveTypeOK, Replied
<1>4. stray' = FALSE /\ Become(S)
  BY Zenon DEF DriveInv, Replied, OpenRequests
<1> QED
  BY <1>1, <1>2, <1>3, <1>4, Concludes DEF Good, DriveInv, DriveTypeOK

-----------------------------------------------------------------------------
(***************************************************************************)
(* The kernel's requests.                                                  *)
(***************************************************************************)

(***************************************************************************)
(* What the invariant says of the tables before a step.                    *)
(***************************************************************************)
LEMMA TablesNow ==
    ASSUME DriveInv
    PROVE  /\ DriveTables.node = nodes /\ DriveTables.flight = inflight
           /\ Good(DriveTables, OpenRequests, dircache, handles)
           /\ \A n \in AllIds : HaveNode(n) => nodes[n] \in NodeRecords
           /\ dircache \in [DirSlots -> Listings \cup {None}]
           /\ handles \in [Fids -> AllIds \cup {None}]
           /\ \A u \in Uniques : asked[u] = None => u \notin OpenRequests
           /\ None \notin NodeRecords /\ NodeIds \subseteq AllIds
<1>1. nodes \in [AllIds -> NodeRecords \cup {None}]
  BY DEF DriveInv, DriveTypeOK
<1>2. DriveTables.node = nodes /\ DriveTables.flight = inflight
  BY DEF DriveTables
<1>3. None \notin NodeRecords /\ NodeIds \subseteq AllIds
  BY DriveNoneAssumption DEF AllIds
<1> QED
  BY <1>1, <1>2, <1>3 DEF DriveInv, DriveTypeOK, HaveNode, OpenRequests

(***************************************************************************)
(* fd_send_query takes a slot for u.                                       *)
(***************************************************************************)
LEMMA QueryGood ==
    ASSUME NEW S, NEW A, NEW D, NEW H, Good(S, A, D, H), HasSlot(S),
           NEW n \in AllIds, S.node[n] \in NodeRecords, NEW u \in Uniques, u \notin A,
           NEW phase \in {"STD", "BASIC"}, NEW lookup \in BOOLEAN, NEW dir \in BOOLEAN,
           NEW T, T = fd_send_query(S, u, n, phase, lookup, dir)
    PROVE  Good(T, A \cup {u}, D, H)
<1> DEFINE f == [OnHandle(S, "QUERY", u, n) EXCEPT
                    !.phase = phase, !.lookup = lookup, !.is_dir = dir]
<1>1. S.node[n].file_id \in Fids \cup {None} /\ u # None
  BY DriveNoneAssumption DEF NodeRecords
<1>2. /\ f \in Flights /\ FlightShape(f) /\ f.unique = u
      /\ f.op \notin {"LIST", "CLOSE"}
  BY <1>1 DEF OnHandle, Flight, Flights, FlightShape, OpenTags
<1>3. T = fd_inflight_alloc(S, f)
  BY DEF fd_send_query
<1> HIDE DEF f
<1> QED
  BY <1>2, <1>3, GoodAlloc

(***************************************************************************)
(* fd_start_getattr opens the node or queries it.                          *)
(***************************************************************************)
LEMMA StartGood ==
    ASSUME NEW S, NEW A, NEW D, NEW H, Good(S, A, D, H), NEW n \in AllIds,
           GetattrStarts(S, n), S.node[n] \in NodeRecords, NEW u \in Uniques, u \notin A,
           NEW lookup \in BOOLEAN, NEW T, T = fd_start_getattr(S, u, n, lookup)
    PROVE  Good(T, A \cup {u}, D, H)
<1> DEFINE f == [Flight("GETATTR", u, n) EXCEPT
                    !.access = {"read"}, !.lookup = lookup, !.is_dir = S.node[n].is_dir]
<1>1. S.node[n].is_dir \in BOOLEAN /\ u # None
  BY DriveNoneAssumption DEF NodeRecords
<1>2. CASE S.node[n].file_id = None
  <2>1. /\ f \in Flights /\ FlightShape(f) /\ f.unique = u
        /\ f.op \notin {"LIST", "CLOSE"}
    BY <1>1 DEF Flight, Flights, FlightShape, OpenTags
  <2>2. T = fd_inflight_alloc(S, f) /\ HasSlot(S)
    BY <1>2 DEF fd_start_getattr, GetattrStarts, CanOpen
  <2> HIDE DEF f
  <2> QED
    BY <2>1, <2>2, GoodAlloc
<1>3. CASE S.node[n].file_id # None
  <2>1. T = fd_send_query(S, u, n, "STD", lookup, S.node[n].is_dir) /\ HasSlot(S)
    BY <1>3 DEF fd_start_getattr, GetattrStarts
  <2> QED
    BY <1>1, <2>1, QueryGood
<1> QED
  BY <1>2, <1>3

(***************************************************************************)
(* What the kernel asks for is a request of this history.                  *)
(***************************************************************************)
LEMMA RequestTyped ==
    ASSUME NEW u, NEW op, Idle(u, op), NEW on \in SUBSET AllIds,
           NEW dirs \in SUBSET AllIds, NEW x \in Names \cup {None}
    PROVE  KernelRequest(op, on, dirs, x) \in KernelRequests(workload.ops)
  BY DEF Idle, KernelRequest, KernelRequests

(***************************************************************************)
(* A handler that sends a request other than LIST and CLOSE.               *)
(***************************************************************************)
LEMMA SendKeeps ==
    ASSUME DriveInv, UNCHANGED workload, UNCHANGED <<dircache, clientVars>>,
           NEW S, Good(S, OpenRequests, dircache, handles), HasSlot(S),
           NEW u \in Uniques, NEW op, Idle(u, op), NEW on \in SUBSET AllIds,
           NEW dirs \in SUBSET AllIds, NEW x \in Names \cup {None},
           NEW f \in Flights, FlightShape(f), f.unique = u,
           f.op \notin {"LIST", "CLOSE"},
           Waits(u, KernelRequest(op, on, dirs, x), fd_inflight_alloc(S, f))
    PROVE  DriveInv'
<1>1. PICK T, r : /\ T = fd_inflight_alloc(S, f) /\ Waits(u, r, T)
                  /\ r = KernelRequest(op, on, dirs, x)
  OBVIOUS
<1>2. r \in KernelRequests(workload.ops)
  BY <1>1, RequestTyped
<1>3. asked[u] = None /\ u \in Uniques \ OpenRequests
  BY TablesNow DEF Idle
<1>4. Good(T, OpenRequests \cup {u}, dircache, handles)
  BY <1>1, <1>3, GoodAlloc
<1> QED
  BY <1>1, <1>2, <1>3, <1>4, TablesNow, WaitsKeeps

(***************************************************************************)
(* A handler that replies at once with the listings as they are.           *)
(***************************************************************************)
LEMMA ReplyKeeps ==
    ASSUME DriveInv, UNCHANGED workload, UNCHANGED <<dircache, clientVars>>,
           NEW S, Good(S, OpenRequests, dircache, handles),
           NEW reply, NEW n \in AllIds, AtOnce(S, reply, n)
    PROVE  DriveInv'
  BY TablesNow, AtOnceKeeps

(***************************************************************************)
(* GETATTR keeps the invariant: the attributes at hand, or a request.      *)
(***************************************************************************)
LEMMA GetattrStep ==
    ASSUME DriveInv, UNCHANGED workload, NEW u \in Uniques, NEW n \in AllIds,
           fd_op_getattr(u, n)
    PROVE  DriveInv'
<1>1. asked[u] = None /\ dircache' = dircache /\ UNCHANGED clientVars
  BY DEF fd_op_getattr, Idle
<1>2. CASE HaveNode(n) /\ n \notin Drives /\ GetattrStarts(DriveTables, n)
  <2>1. PICK S, r : /\ S = fd_start_getattr(DriveTables, u, n, FALSE)
                    /\ r = KernelRequest("GETATTR", {n}, {}, None) /\ Waits(u, r, S)
    BY <1>2 DEF fd_op_getattr
  <2>2. r \in KernelRequests(workload.ops)
    BY <2>1, RequestTyped DEF fd_op_getattr
  <2>3. Good(S, OpenRequests \cup {u}, dircache, handles)
    BY <1>1, <1>2, <2>1, TablesNow, StartGood
  <2> QED
    BY <1>1, <2>1, <2>2, <2>3, TablesNow, WaitsKeeps
<1>3. CASE ~(HaveNode(n) /\ n \notin Drives /\ GetattrStarts(DriveTables, n))
  <2>1. AtOnce(DriveTables, "attr", n)
    BY <1>3 DEF fd_op_getattr
  <2> QED
    BY <1>1, <2>1, TablesNow, AtOnceKeeps
<1> QED
  BY <1>2, <1>3

(***************************************************************************)
(* fd_child_make returns a node below the drives, found or fresh.          *)
(***************************************************************************)
LEMMA MadeChild ==
    ASSUME NEW p, NEW x, CanMake(p, x), NEW n \in fd_child_make(p, x)
    PROVE  /\ n \in NodeIds
           /\ \/ n \in fd_child_find(p, x)
              \/ Fresh(n) /\ fd_child_find(p, x) = {}
<1>1. CASE fd_child_find(p, x) # {}
  BY <1>1 DEF fd_child_make, fd_child_find
<1>2. CASE fd_child_find(p, x) = {}
  <2>1. \E m \in NodeIds : Fresh(m)
    BY <1>2 DEF fd_child_make, CanMake
  <2>2. n = CHOOSE m \in NodeIds : Fresh(m)
    BY <1>2 DEF fd_child_make
  <2>3. n \in NodeIds /\ Fresh(n)
    BY ZenonT(20), <2>1, <2>2
  <2> QED
    BY <1>2, <2>3
<1> QED
  BY <1>1, <1>2

(***************************************************************************)
(* A child that is made has no handle.                                     *)
(***************************************************************************)
LEMMA ChildGood ==
    ASSUME DriveInv, NEW p \in AllIds, HaveNode(p), NEW x \in Names,
           NEW n \in NodeIds, NEW dir \in BOOLEAN, NEW C, C = WithChild(n, p, x, dir)
    PROVE  /\ Good(C, OpenRequests, dircache, handles)
           /\ C.node[n] \in NodeRecords /\ C.flight = inflight
           /\ HaveNode(n) => C = DriveTables
           /\ ~HaveNode(n) => C.node[n] = NewNode(p, x, nodes[p].device, dir)
<1>1. CASE HaveNode(n)
  BY <1>1, TablesNow DEF WithChild
<1>2. CASE ~HaveNode(n)
  <2>1. PICK r : r = NewNode(p, x, nodes[p].device, dir)
    OBVIOUS
  <2>2. r \in NodeRecords /\ r.file_id = None
    BY <2>1, TablesNow DEF NewNode, NodeRecords
  <2>3. C = SetNode(DriveTables, n, r)
    BY <1>2, <2>1 DEF WithChild
  <2> QED
    BY SMTT(60), <1>2, <2>1, <2>2, <2>3, TablesNow, GoodNode
<1> QED
  BY <1>1, <1>2

(***************************************************************************)
(* Counting a lookup or a descriptor keeps the handle.                     *)
(***************************************************************************)
LEMMA CountGood ==
    ASSUME NEW S, NEW A, NEW D, NEW H, Good(S, A, D, H), NEW n \in AllIds,
           S.node[n] \in NodeRecords, NEW T, T \in {AddLookup(S, n), AddRef(S, n)}
    PROVE  Good(T, A, D, H) /\ T.node[n] \in NodeRecords
<1>1. PICK r : /\ T = SetNode(S, n, r)
               /\ \/ r = [S.node[n] EXCEPT !.nlookup = @ + 1]
                  \/ r = [S.node[n] EXCEPT !.refs = @ + 1]
  BY DEF AddLookup, AddRef
<1>2. r \in NodeRecords /\ r.file_id = S.node[n].file_id
  BY SMTT(60), <1>1 DEF NodeRecords
<1>3. S.node[n] # None
  BY DriveNoneAssumption
<1> QED
  BY SMTT(60), <1>1, <1>2, <1>3, GoodNode

(***************************************************************************)
(* LOOKUP keeps the invariant: the child is found or made, counted, and    *)
(* asked about if there is a slot.                                         *)
(***************************************************************************)
LEMMA LookupStep ==
    ASSUME DriveInv, UNCHANGED workload, NEW u \in Uniques, NEW p \in AllIds,
           NEW x \in Names, fd_op_lookup(u, p, x)
    PROVE  DriveInv'
<1>1. asked[u] = None /\ dircache' = dircache /\ UNCHANGED clientVars /\ CanMake(p, x)
  BY DEF fd_op_lookup, Idle
<1>2. CASE AtOnce(DriveTables, "error", p)
  BY <1>1, <1>2, TablesNow, AtOnceKeeps
<1>3. ASSUME HaveNode(p), NEW n \in fd_child_make(p, x), NEW C, NEW S, NEW r,
             C = WithChild(n, p, x, FALSE), S = AddLookup(C, n),
             r = KernelRequest("LOOKUP", {p} \cup KnownAs(p, x),
                               IF KnownAs(p, x) = {} THEN {p} ELSE {}, x),
             IF GetattrStarts(S, n)
             THEN Waits(u, r, fd_start_getattr(S, u, n, TRUE))
             ELSE AtOnce(IF S.node[n].file_id = None THEN C ELSE S, "entry", n)
      PROVE  DriveInv'
  <2>1. n \in NodeIds /\ n \in AllIds
    BY <1>1, <1>3, MadeChild, TablesNow
  <2>2. Good(C, OpenRequests, dircache, handles) /\ C.node[n] \in NodeRecords
    BY <1>3, <2>1, ChildGood
  <2>3. Good(S, OpenRequests, dircache, handles) /\ S.node[n] \in NodeRecords
    BY <1>3, <2>1, <2>2, CountGood
  <2>4. CASE GetattrStarts(S, n)
    <3>1. PICK T : T = fd_start_getattr(S, u, n, TRUE) /\ Waits(u, r, T)
      BY <1>3, <2>4
    <3>2. Good(T, OpenRequests \cup {u}, dircache, handles)
      BY <1>1, <2>1, <2>3, <2>4, <3>1, TablesNow, StartGood
    <3>3. KnownAs(p, x) \subseteq AllIds /\ Idle(u, "LOOKUP")
      BY TablesNow DEF KnownAs, fd_child_find, fd_op_lookup
    <3>4. r \in KernelRequests(workload.ops)
      BY <1>3, <3>3, RequestTyped
    <3> QED
      BY <1>1, <3>1, <3>2, <3>4, TablesNow, WaitsKeeps
  <2>5. CASE ~GetattrStarts(S, n)
    <3>1. PICK T \in {C, S} : AtOnce(T, "entry", n)
      BY <1>3, <2>5
    <3> QED
      BY <1>1, <2>1, <2>2, <2>3, <3>1, TablesNow, AtOnceKeeps
  <2> QED
    BY <2>4, <2>5
<1> QED
  BY <1>2, <1>3 DEF fd_op_lookup

(***************************************************************************)
(* OPENDIR keeps the invariant: the handle at hand gets a descriptor, or   *)
(* one is asked for.                                                       *)
(***************************************************************************)
LEMMA OpendirStep ==
    ASSUME DriveInv, UNCHANGED workload, NEW u \in Uniques, NEW n \in AllIds,
           fd_op_opendir(u, n)
    PROVE  DriveInv'
<1>1. UNCHANGED <<dircache, clientVars>> /\ Idle(u, "OPENDIR")
  BY DEF fd_op_opendir
<1>2. CASE AtOnce(DriveTables, "error", n)
  BY <1>1, <1>2, TablesNow, ReplyKeeps
<1>3. CASE HaveNode(n) /\ AtOnce(AddRef(DriveTables, n), "open", n)
  <2>1. Good(AddRef(DriveTables, n), OpenRequests, dircache, handles)
    BY <1>3, TablesNow, CountGood
  <2> QED
    BY <1>1, <1>3, <2>1, ReplyKeeps
<1>4. CASE /\ CanOpen(DriveTables, n)
           /\ Waits(u, KernelRequest("OPENDIR", {n}, {}, None),
                    fd_inflight_alloc(DriveTables, Flight("OPENDIR", u, n)))
  <2>1. PICK f : f = Flight("OPENDIR", u, n)
    OBVIOUS
  <2>2. /\ f \in Flights /\ FlightShape(f) /\ f.unique = u
        /\ f.op \notin {"LIST", "CLOSE"}
    BY <2>1, DriveNoneAssumption DEF Flight, Flights, FlightShape, OpenTags
  <2> QED
    BY <1>1, <1>4, <2>1, <2>2, TablesNow, SendKeeps DEF CanOpen
<1> QED
  BY <1>2, <1>3, <1>4 DEF fd_op_opendir

(***************************************************************************)
(* fd_dircache_claim takes no listing that is being built.                 *)
(***************************************************************************)
LEMMA ClaimedSlot ==
    ASSUME NEW d \in fd_dircache_claim
    PROVE  d \in DirSlots /\ (dircache[d] # None => ~dircache[d].filling)
<1> DEFINE free == {e \in DirSlots : dircache[e] = None}
           P(e) == \A g \in free : e <= g
<1>1. CASE free = {}
  BY <1>1 DEF fd_dircache_claim
<1>2. CASE free # {}
  <2>1. free \subseteq Nat
    BY SMT DEF DirSlots
  <2>2. \E e \in free : P(e)
    BY ZenonT(20), <1>2, <2>1, FirstSlot
  <2>3. d = CHOOSE e \in free : P(e)
    BY <1>2 DEF fd_dircache_claim
  <2>4. d \in free
    BY ZenonT(20), <2>2, <2>3
  <2> QED
    BY <2>4
<1> QED
  BY <1>1, <1>2

(***************************************************************************)
(* READDIR keeps the invariant: the listing that its LIST fills is no      *)
(* other's.                                                                *)
(***************************************************************************)
LEMMA ReaddirStep ==
    ASSUME DriveInv, UNCHANGED workload, NEW u \in Uniques, NEW n \in AllIds, NEW off,
           fd_op_readdir(u, n, off)
    PROVE  DriveInv'
<1>1. asked[u] = None /\ UNCHANGED clientVars /\ Idle(u, "READDIR")
  BY DEF fd_op_readdir, Idle
<1>2. CASE UNCHANGED dircache /\ AtOnce(DriveTables, "dirents", n)
  BY <1>1, <1>2, TablesNow, AtOnceKeeps
<1>3. ASSUME NEW d \in fd_dircache_claim, AtOnce(DriveTables, "error", n),
             dircache' = [dircache EXCEPT ![d] = None]
      PROVE  DriveInv'
  <2>1. d \in DirSlots /\ (dircache[d] # None => ~dircache[d].filling)
    BY ClaimedSlot
  <2>2. /\ dircache' \in [DirSlots -> Listings \cup {None}] /\ dircache'[d] = None
        /\ \A e \in DirSlots \ {d} : dircache'[e] = dircache[e]
    BY <1>3, <2>1, TablesNow
  <2>3. Listing(inflight, dircache) /\ Sound(DriveTables)
    BY TablesNow DEF Good
  <2>4. ListingBut(inflight, dircache', d)
    BY <2>1, <2>2, <2>3, ListedBut
  <2>5. Listing(inflight, dircache')
    BY <2>1, <2>2, <2>4, ButListed
  <2>6. Good(DriveTables, OpenRequests, dircache', handles)
    BY <2>5, TablesNow DEF Good
  <2> QED
    BY <1>1, <1>3, <2>2, <2>6, AtOnceKeeps
<1>4. ASSUME NEW d \in fd_dircache_claim, HaveNode(n), HasSlot(DriveTables),
             Waits(u, KernelRequest("READDIR", {n}, {n}, None),
                   fd_inflight_alloc(DriveTables,
                      [OnHandle(DriveTables, "LIST", u, n) EXCEPT !.cache = d])),
             dircache' = [dircache EXCEPT ![d] = [node |-> n, filling |-> TRUE, count |-> 0]]
      PROVE  DriveInv'
  <2>1. d \in DirSlots /\ d # 0 /\ (dircache[d] # None => ~dircache[d].filling)
    <3>1. d \in DirSlots /\ (dircache[d] # None => ~dircache[d].filling)
      BY ClaimedSlot
    <3> QED
      BY SMT, <3>1 DEF DirSlots
  <2>2. [node |-> n, filling |-> TRUE, count |-> 0] \in Listings
    BY SMT, FuseDriveAssumption DEF Listings
  <2>3. /\ dircache' \in [DirSlots -> Listings \cup {None}]
        /\ dircache'[d] \in Listings /\ dircache'[d].filling /\ dircache'[d].node = n
        /\ \A e \in DirSlots \ {d} : dircache'[e] = dircache[e]
    BY <1>4, <2>1, <2>2, TablesNow
  <2>4. Listing(inflight, dircache) /\ Sound(DriveTables)
    BY TablesNow DEF Good
  <2>5. ListingBut(inflight, dircache', d)
    BY <2>1, <2>3, <2>4, ListedBut
  <2>6. PICK S, r, f : /\ S = fd_inflight_alloc(DriveTables, f)
                       /\ f = [OnHandle(DriveTables, "LIST", u, n) EXCEPT !.cache = d]
                       /\ r = KernelRequest("READDIR", {n}, {n}, None) /\ Waits(u, r, S)
    BY <1>4
  <2>7. r \in KernelRequests(workload.ops)
    BY <1>1, <2>6, RequestTyped
  <2>8. nodes[n].file_id \in Fids \cup {None} /\ u # None
    BY <1>4, TablesNow, DriveNoneAssumption DEF NodeRecords
  <2>9. /\ f \in Flights /\ FlightShape(f) /\ f.unique = u /\ f.op = "LIST"
        /\ f.cache = d /\ f.node = n
    BY <2>1, <2>6, <2>8, TablesNow DEF OnHandle, Flight, Flights, FlightShape, OpenTags
  <2>10. PICK i \in FlightSlots : Added(inflight, S.flight, i, f)
    BY SMTT(60), <1>4, <2>4, <2>6, <2>9, TablesNow, AllocShape DEF Sound
  <2>11. dircache'[d] # None
    BY <2>3, DriveNoneAssumption
  <2>12. Listing(S.flight, dircache')
    BY SMTT(60), <2>1, <2>3, <2>5, <2>9, <2>10, <2>11, AddList
  <2>13. u \in Uniques \ OpenRequests
    BY <1>1, TablesNow
  <2>14. Good(S, OpenRequests \cup {u}, dircache', handles)
    <3>1. Sound(S) /\ S.node = DriveTables.node /\ S.close = DriveTables.close
      BY <1>4, <2>4, <2>6, <2>9, AllocSound
    <3>2. Handling(DriveTables, handles) => Handling(S, handles)
      BY SMTT(60), <2>9, <2>10, <3>1, TablesNow, AddHandles
    <3>3. Answering(S.flight, OpenRequests \cup {u})
      BY SMTT(60), <2>9, <2>10, <2>13, TablesNow, AddAnswers DEF Good
    <3> QED
      BY <2>12, <3>1, <3>2, <3>3, TablesNow DEF Good
  <2> QED
    BY <1>1, <2>3, <2>6, <2>7, <2>14, WaitsKeeps
<1> QED
  BY <1>2, <1>3, <1>4 DEF fd_op_readdir

(***************************************************************************)
(* READ and WRITE keep the invariant.                                      *)
(***************************************************************************)
LEMMA TransferStep ==
    ASSUME DriveInv, UNCHANGED workload, NEW u \in Uniques, NEW n \in AllIds,
           NEW op \in {"READ", "WRITE"}, fd_op_transfer(u, n, op)
    PROVE  DriveInv'
<1>1. UNCHANGED <<dircache, clientVars>> /\ Idle(u, op)
  BY DEF fd_op_transfer
<1>2. CASE AtOnce(DriveTables, "error", n)
  BY <1>1, <1>2, TablesNow, ReplyKeeps
<1>3. CASE /\ HaveNode(n) /\ HasSlot(DriveTables)
           /\ Waits(u, KernelRequest(op, {n}, {}, None),
                    fd_inflight_alloc(DriveTables, OnHandle(DriveTables, op, u, n)))
  <2>1. PICK f : f = OnHandle(DriveTables, op, u, n)
    OBVIOUS
  <2>2. nodes[n].file_id \in Fids \cup {None} /\ u # None
    BY <1>3, TablesNow, DriveNoneAssumption DEF NodeRecords
  <2>3. /\ f \in Flights /\ FlightShape(f) /\ f.unique = u
        /\ f.op \notin {"LIST", "CLOSE"}
    BY <2>1, <2>2, TablesNow DEF OnHandle, Flight, Flights, FlightShape, OpenTags
  <2> QED
    BY <1>1, <1>3, <2>1, <2>3, TablesNow, SendKeeps
<1> QED
  BY <1>2, <1>3 DEF fd_op_transfer, IsFile

(***************************************************************************)
(* A handler that closes the handle of n and opens n again.                *)
(***************************************************************************)
LEMMA ReopenKeeps ==
    ASSUME DriveInv, UNCHANGED workload, UNCHANGED <<dircache, clientVars>>,
           NEW n \in AllIds, HaveNode(n), NEW S, S = fd_send_close(DriveTables, n),
           NEW u \in Uniques, NEW op, Idle(u, op), NEW on \in SUBSET AllIds,
           NEW dirs \in SUBSET AllIds, NEW x \in Names \cup {None},
           NEW f \in Flights, FlightShape(f), f.unique = u,
           f.op \notin {"LIST", "CLOSE"}, NEW p \in AllIds,
           \/ /\ CanOpen(S, n)
              /\ Waits(u, KernelRequest(op, on, dirs, x), fd_inflight_alloc(S, f))
           \/ AtOnce(S, "error", p)
    PROVE  DriveInv'
<1>1. Good(S, OpenRequests, dircache, handles)
  BY SMTT(60), TablesNow, GoodClose DEF HaveNode
<1>2. CASE /\ CanOpen(S, n)
           /\ Waits(u, KernelRequest(op, on, dirs, x), fd_inflight_alloc(S, f))
  BY <1>1, <1>2, SendKeeps DEF CanOpen
<1>3. CASE AtOnce(S, "error", p)
  BY <1>1, <1>3, ReplyKeeps
<1> QED
  BY <1>2, <1>3

(***************************************************************************)
(* OPEN keeps the invariant: the handle at hand is shared, or closed and   *)
(* opened anew.                                                            *)
(***************************************************************************)
LEMMA OpenStep ==
    ASSUME DriveInv, UNCHANGED workload, NEW u \in Uniques, NEW n \in AllIds,
           NEW want \in Accesses, fd_op_open(u, n, want)
    PROVE  DriveInv'
<1>1. UNCHANGED <<dircache, clientVars>> /\ Idle(u, "OPEN")
  BY DEF fd_op_open
<1>2. CASE AtOnce(DriveTables, "error", n)
  BY <1>1, <1>2, TablesNow, ReplyKeeps
<1>3. CASE HaveNode(n) /\ AtOnce(AddRef(DriveTables, n), "open", n)
  <2>1. Good(AddRef(DriveTables, n), OpenRequests, dircache, handles)
    BY <1>3, TablesNow, CountGood
  <2> QED
    BY <1>1, <1>3, <2>1, ReplyKeeps
<1>4. ASSUME HaveNode(n), NEW S, S = fd_send_close(DriveTables, n), NEW f,
             f = [Flight("OPENFILE", u, n) EXCEPT !.access = want \cup nodes[n].access],
             \/ /\ CanOpen(S, n)
                /\ Waits(u, KernelRequest("OPEN", {n}, {}, None),
                         fd_inflight_alloc(S, f))
             \/ AtOnce(S, "error", n)
      PROVE  DriveInv'
  <2>1. want \cup nodes[n].access \in Rights /\ u # None
    BY <1>4, TablesNow, FuseDriveAssumption, DriveNoneAssumption DEF NodeRecords, Rights
  <2>2. /\ f \in Flights /\ FlightShape(f) /\ f.unique = u
        /\ f.op \notin {"LIST", "CLOSE"}
    BY <1>4, <2>1 DEF Flight, Flights, FlightShape, OpenTags, Rights
  <2> QED
    BY <1>1, <1>4, <2>2, ReopenKeeps
<1> QED
  BY <1>2, <1>3, <1>4 DEF fd_op_open, IsFile

(***************************************************************************)
(* SETATTR keeps the invariant: it sends the first of its requests.        *)
(***************************************************************************)
LEMMA SetattrStep ==
    ASSUME DriveInv, UNCHANGED workload, NEW u \in Uniques, NEW n \in AllIds,
           NEW what \in {"size", "time", "both", "neither"}, fd_op_setattr(u, n, what)
    PROVE  DriveInv'
<1>1. UNCHANGED <<dircache, clientVars>> /\ Idle(u, "SETATTR")
  BY DEF fd_op_setattr
<1>2. CASE AtOnce(DriveTables, "attr", n)
  BY <1>1, <1>2, TablesNow, ReplyKeeps
<1>3. CASE /\ HaveNode(n) /\ HaveOpen(n) /\ HasSlot(DriveTables) /\ what = "neither"
           /\ Waits(u, KernelRequest("SETATTR", {n}, {}, None),
                    fd_start_getattr(DriveTables, u, n, FALSE))
  <2>1. PICK S, r : /\ S = fd_start_getattr(DriveTables, u, n, FALSE)
                    /\ r = KernelRequest("SETATTR", {n}, {}, None) /\ Waits(u, r, S)
    BY <1>3
  <2>2. r \in KernelRequests(workload.ops) /\ asked[u] = None
    BY <1>1, <2>1, RequestTyped DEF Idle
  <2>3. GetattrStarts(DriveTables, n)
    BY <1>3, TablesNow DEF GetattrStarts, HaveOpen
  <2>4. Good(S, OpenRequests \cup {u}, dircache, handles)
    BY <1>3, <2>1, <2>2, <2>3, TablesNow, StartGood
  <2> QED
    BY <1>1, <2>1, <2>2, <2>4, TablesNow, WaitsKeeps
<1>4. ASSUME HaveNode(n), HasSlot(DriveTables), NEW f,
             f = [OnHandle(DriveTables, "SETATTR", u, n) EXCEPT
                    !.phase = IF what = "both" THEN "EOF_THEN_TIME" ELSE "NONE",
                    !.is_dir = what # "size" /\ nodes[n].is_dir],
             Waits(u, KernelRequest("SETATTR", {n}, {}, None),
                   fd_inflight_alloc(DriveTables, f))
      PROVE  DriveInv'
  <2>1. /\ nodes[n].file_id \in Fids \cup {None} /\ u # None
        /\ (what # "size" /\ nodes[n].is_dir) \in BOOLEAN
    BY <1>4, TablesNow, DriveNoneAssumption DEF NodeRecords
  <2>2. /\ f \in Flights /\ FlightShape(f) /\ f.unique = u
        /\ f.op \notin {"LIST", "CLOSE"}
    BY <1>4, <2>1, TablesNow DEF OnHandle, Flight, Flights, FlightShape, OpenTags
  <2> QED
    BY <1>1, <1>4, <2>2, TablesNow, SendKeeps
<1> QED
  BY <1>2, <1>3, <1>4 DEF fd_op_setattr

(***************************************************************************)
(* CREATE, MKNOD and MKDIR keep the invariant: the node is made and asked  *)
(* for, or dropped.                                                        *)
(***************************************************************************)
LEMMA CreateStep ==
    ASSUME DriveInv, UNCHANGED workload, NEW u \in Uniques, NEW p \in AllIds,
           NEW x \in Names, NEW op \in {"CREATE", "MKNOD", "MKDIR"},
           NEW access \in Rights, fd_op_create(u, p, x, op, access)
    PROVE  DriveInv'
<1>1. UNCHANGED <<dircache, clientVars>> /\ Idle(u, op) /\ CanMake(p, x)
  BY DEF fd_op_create
<1>2. CASE AtOnce(DriveTables, "error", p)
  BY <1>1, <1>2, TablesNow, ReplyKeeps
<1>3. ASSUME HaveNode(p), NEW n \in fd_child_make(p, x), NEW S,
             S = WithChild(n, p, x, op = "MKDIR"), NEW f,
             f = [Flight(op, u, n) EXCEPT !.access = access],
             IF CanOpen(S, n)
             THEN Waits(u, KernelRequest(op, {p}, {p}, x), fd_inflight_alloc(S, f))
             ELSE AtOnce(IF S.node[n].file_id = None THEN SetNode(S, n, None) ELSE S,
                         "error", p)
      PROVE  DriveInv'
  <2>1. n \in NodeIds /\ n \in AllIds
    BY <1>1, <1>3, MadeChild DEF AllIds
  <2>2. Good(S, OpenRequests, dircache, handles)
    BY <1>3, <2>1, ChildGood
  <2>3. u # None
    BY DriveNoneAssumption
  <2>4. /\ f \in Flights /\ FlightShape(f) /\ f.unique = u
        /\ f.op \notin {"LIST", "CLOSE"}
    BY <1>3, <2>1, <2>3 DEF Flight, Flights, FlightShape, OpenTags, Rights
  <2>5. CASE CanOpen(S, n)
    BY <1>1, <1>3, <2>2, <2>4, <2>5, SendKeeps DEF CanOpen
  <2>6. CASE AtOnce(S, "error", p)
    BY <1>1, <2>2, <2>6, ReplyKeeps
  <2>7. CASE AtOnce(SetNode(S, n, None), "error", p)
    <3>1. Good(SetNode(S, n, None), OpenRequests, dircache, handles)
      BY <2>1, <2>2, GoodNode
    <3> QED
      BY <1>1, <2>7, <3>1, ReplyKeeps
  <2> QED
    BY <1>3, <2>5, <2>6, <2>7
<1> QED
  BY <1>2, <1>3 DEF fd_op_create

(***************************************************************************)
(* A name that the kernel knows is found.                                  *)
(***************************************************************************)
LEMMA FoundChild ==
    ASSUME NEW p, NEW x, KnownAs(p, x) # {}, NEW n \in fd_child_make(p, x)
    PROVE  n \in NodeIds /\ n \in AllIds /\ HaveNode(n)
  BY DEF fd_child_make, KnownAs, fd_child_find, AllIds

(***************************************************************************)
(* UNLINK and RMDIR keep the invariant: the handle at hand is closed       *)
(* before the OPEN for DELETE.                                             *)
(***************************************************************************)
LEMMA UnlinkStep ==
    ASSUME DriveInv, UNCHANGED workload, NEW u \in Uniques, NEW p \in AllIds,
           NEW x \in Names, fd_op_unlink(u, p, x)
    PROVE  DriveInv'
<1>1. UNCHANGED <<dircache, clientVars>> /\ Idle(u, "UNLINK") /\ KnownAs(p, x) # {}
  BY DEF fd_op_unlink
<1>2. CASE AtOnce(DriveTables, "error", p)
  BY <1>1, <1>2, TablesNow, ReplyKeeps
<1>3. ASSUME NEW n \in fd_child_make(p, x), NEW S, S = fd_send_close(DriveTables, n),
             NEW f, f = [Flight("UNLINK", u, n) EXCEPT !.phase = "OPEN"],
             \/ /\ CanOpen(S, n)
                /\ Waits(u, KernelRequest("UNLINK", {p} \cup KnownAs(p, x), {p}, x),
                         fd_inflight_alloc(S, f))
             \/ AtOnce(S, "error", p)
      PROVE  DriveInv'
  <2>1. /\ n \in AllIds /\ HaveNode(n) /\ u # None
        /\ {p} \cup KnownAs(p, x) \in SUBSET AllIds
    BY <1>1, FoundChild, DriveNoneAssumption DEF KnownAs, fd_child_find, AllIds
  <2>2. /\ f \in Flights /\ FlightShape(f) /\ f.unique = u
        /\ f.op \notin {"LIST", "CLOSE"}
    BY <1>3, <2>1 DEF Flight, Flights, FlightShape, OpenTags
  <2> QED
    BY <1>1, <1>3, <2>1, <2>2, ReopenKeeps
<1> QED
  BY <1>2, <1>3 DEF fd_op_unlink

(***************************************************************************)
(* RENAME keeps the invariant: its request carries the new place.          *)
(***************************************************************************)
LEMMA RenameStep ==
    ASSUME DriveInv, UNCHANGED workload, NEW u \in Uniques, NEW p \in AllIds,
           NEW x \in Names, NEW q \in AllIds, NEW y \in Names, fd_op_rename(u, p, x, q, y)
    PROVE  DriveInv'
<1>1. UNCHANGED <<dircache, clientVars>> /\ Idle(u, "RENAME") /\ KnownAs(p, x) # {}
  BY DEF fd_op_rename
<1>2. CASE AtOnce(DriveTables, "error", p)
  BY <1>1, <1>2, TablesNow, ReplyKeeps
<1>3. ASSUME NEW n \in fd_child_make(p, x), NEW S, S = fd_send_close(DriveTables, n),
             NEW f, f = [Flight("RENAME", u, n) EXCEPT !.phase = "OPEN",
                                                       !.target = <<q, y>>],
             \/ /\ CanOpen(S, n)
                /\ Waits(u, KernelRequest("RENAME",
                              {p, q} \cup KnownAs(p, x) \cup KnownAs(q, y), {p, q}, x),
                         fd_inflight_alloc(S, f))
             \/ AtOnce(S, "error", p)
      PROVE  DriveInv'
  <2>1. /\ n \in AllIds /\ HaveNode(n) /\ u # None
        /\ {p, q} \cup KnownAs(p, x) \cup KnownAs(q, y) \in SUBSET AllIds
        /\ {p, q} \in SUBSET AllIds
    BY <1>1, FoundChild, DriveNoneAssumption DEF KnownAs, fd_child_find, AllIds
  <2>2. <<q, y>> \in AllIds \X Names /\ <<q, y>> # None
    BY SMTT(60), DriveNoneAssumption
  <2>3. /\ f \in Flights /\ FlightShape(f) /\ f.unique = u
        /\ f.op \notin {"LIST", "CLOSE"}
    BY <1>3, <2>1, <2>2 DEF Flight, Flights, FlightShape, OpenTags
  <2>4. PICK on \in SUBSET AllIds, dirs \in SUBSET AllIds :
           /\ on = {p, q} \cup KnownAs(p, x) \cup KnownAs(q, y) /\ dirs = {p, q}
    BY <2>1
  <2>5. \/ /\ CanOpen(S, n)
           /\ Waits(u, KernelRequest("RENAME", on, dirs, x), fd_inflight_alloc(S, f))
        \/ AtOnce(S, "error", p)
    BY <1>3, <2>4
  <2> QED
    BY <1>1, <1>3, <2>1, <2>3, <2>5, ReopenKeeps
<1> QED
  BY <1>2, <1>3 DEF fd_op_rename

(***************************************************************************)
(* Listings that are not being built may be dropped.                       *)
(***************************************************************************)
LEMMA DropListings ==
    ASSUME NEW F, NEW D, Listing(F, D), NEW E,
           \A d \in DirSlots : \/ E[d] = D[d]
                               \/ E[d] = None /\ ~(D[d] # None /\ D[d].filling)
    PROVE  Listing(F, E)
  BY DEF Listing

(***************************************************************************)
(* After RELEASE or FORGET, which the kernel does not wait for.            *)
(***************************************************************************)
LEMMA UnaskedKeeps ==
    ASSUME DriveInv, UNCHANGED workload, UNCHANGED <<asked, stray, clientVars>>,
           NEW S, Become(S), kref' \in [AllIds -> Nat], kfds' \in [AllIds -> Nat],
           dircache' \in [DirSlots -> Listings \cup {None}],
           Good(S, OpenRequests, dircache', handles)
    PROVE  DriveInv'
<1>1. OpenRequests' = OpenRequests /\ handles' = handles /\ losses' = losses
  BY DEF OpenRequests, clientVars
<1>2. /\ asked' \in [Uniques -> KernelRequests(workload.ops) \cup {None}]
      /\ handles' \in [Fids -> AllIds \cup {None}] /\ stray' = FALSE
      /\ lost' \subseteq FlightSlots /\ losses' \in 0..workload.losses
  BY DEF DriveInv, DriveTypeOK, clientVars
<1> QED
  BY <1>1, <1>2, Concludes DEF Good

(***************************************************************************)
(* RELEASE keeps the invariant: no listing that is being built is dropped. *)
(***************************************************************************)
LEMMA ReleaseStep ==
    ASSUME DriveInv, UNCHANGED workload, NEW n \in AllIds, fd_op_release(n)
    PROVE  DriveInv'
<1> DEFINE left == IF nodes[n].refs > 0 THEN nodes[n].refs - 1 ELSE 0
           S == SetNode(DriveTables, n, [nodes[n] EXCEPT !.refs = left])
           drop == HaveNode(n) /\ left = 0
<1>1. /\ FdIdle(n) /\ kfds' = [kfds EXCEPT ![n] = @ - 1]
      /\ Become(IF ~HaveNode(n) THEN DriveTables
                ELSE IF drop THEN fd_send_close(S, n) ELSE S)
      /\ dircache' = [d \in DirSlots |->
            IF /\ drop /\ dircache[d] # None
               /\ ~dircache[d].filling /\ dircache[d].node = n
            THEN None ELSE dircache[d]]
      /\ UNCHANGED <<asked, kref, stray, clientVars>>
  BY DEF fd_op_release
<1>2. kfds \in [AllIds -> Nat] /\ kref' \in [AllIds -> Nat]
  BY <1>1 DEF DriveInv, DriveTypeOK
<1>3. kfds' \in [AllIds -> Nat]
  <2> DEFINE B == {u \in Uniques : /\ asked[u] # None
                                   /\ asked[u].op \in {"READ", "WRITE", "READDIR"}
                                   /\ n \in asked[u].on}
  <2>1. B \subseteq Uniques
    OBVIOUS
  <2>2. Cardinality(B) \in Nat
    BY <2>1, FuseDriveAssumption, FS_Subset, FS_CardinalityType
  <2>3. Cardinality(B) < kfds[n]
    BY <1>1 DEF FdIdle
  <2> HIDE DEF B
  <2> QED
    BY SMT, <1>1, <1>2, <2>2, <2>3
<1>4. dircache' \in [DirSlots -> Listings \cup {None}]
  BY <1>1, TablesNow
<1>5. ASSUME NEW T, Good(T, OpenRequests, dircache, handles), Become(T)
      PROVE  DriveInv'
  <2>1. Listing(T.flight, dircache')
    BY SMTT(60), <1>1, <1>5, DropListings DEF Good
  <2> QED
    BY <1>1, <1>2, <1>3, <1>4, <1>5, <2>1, UnaskedKeeps DEF Good
<1>6. CASE ~HaveNode(n)
  BY <1>1, <1>5, <1>6, TablesNow
<1>7. CASE HaveNode(n)
  <2>1. PICK r : r = [nodes[n] EXCEPT !.refs = left]
    OBVIOUS
  <2>2. r \in NodeRecords /\ r.file_id = nodes[n].file_id
    BY SMTT(60), <1>7, <2>1, TablesNow DEF NodeRecords
  <2>3. PICK R : R = SetNode(DriveTables, n, r) /\ R = S
    BY <2>1
  <2>4. Good(R, OpenRequests, dircache, handles) /\ R.node[n] # None
    <3>1. /\ r # None /\ DriveTables.node[n] # None
          /\ r.file_id = DriveTables.node[n].file_id
      BY <1>7, <2>2, TablesNow DEF HaveNode
    <3> HIDE DEF S, left, drop
    <3>2. /\ Good(SetNode(DriveTables, n, r), OpenRequests, dircache, handles)
          /\ SetNode(DriveTables, n, r).node[n] = r
      BY SMTT(60), <2>2, <3>1, TablesNow, GoodNode
    <3> QED
      BY <2>3, <3>1, <3>2
  <2> HIDE DEF S
  <2>5. Good(fd_send_close(R, n), OpenRequests, dircache, handles)
    BY <2>4, GoodClose
  <2> QED
    BY <1>1, <1>5, <1>7, <2>3, <2>4, <2>5
<1> QED
  BY <1>6, <1>7

(***************************************************************************)
(* FORGET keeps the invariant: a node that goes has its handle closed.     *)
(***************************************************************************)
LEMMA ForgetStep ==
    ASSUME DriveInv, UNCHANGED workload, NEW n \in AllIds, fd_op_forget(n)
    PROVE  DriveInv'
<1>1. /\ kref' = [kref EXCEPT ![n] = 0]
      /\ UNCHANGED <<asked, kfds, stray, dircache, clientVars>>
  BY DEF fd_op_forget
<1>2. /\ kfds' \in [AllIds -> Nat] /\ kref' \in [AllIds -> Nat]
      /\ kref[n] \in Nat
      /\ dircache' \in [DirSlots -> Listings \cup {None}]
  BY <1>1 DEF DriveInv, DriveTypeOK
<1>3. ASSUME NEW T, Good(T, OpenRequests, dircache, handles), Become(T)
      PROVE  DriveInv'
  BY <1>1, <1>2, <1>3, UnaskedKeeps
<1>4. CASE ~HaveNode(n)
  BY <1>3, <1>4, TablesNow DEF fd_op_forget
<1>5. CASE HaveNode(n) /\ kref[n] >= nodes[n].nlookup
  <2>1. PICK S : S = fd_send_close(DriveTables, n)
    OBVIOUS
  <2>2. Good(S, OpenRequests, dircache, handles)
    BY SMTT(60), <1>5, <2>1, TablesNow, GoodClose DEF HaveNode
  <2>3. Good(SetNode(S, n, None), OpenRequests, dircache, handles)
    BY <2>2, GoodNode
  <2> QED
    BY <1>3, <1>5, <2>1, <2>3 DEF fd_op_forget
<1>6. CASE HaveNode(n) /\ ~(kref[n] >= nodes[n].nlookup)
  <2>1. PICK r : r = [nodes[n] EXCEPT !.nlookup = @ - kref[n]]
    OBVIOUS
  <2>2. r \in NodeRecords /\ r.file_id = nodes[n].file_id
    BY SMTT(60), <1>2, <1>6, <2>1, TablesNow DEF NodeRecords
  <2>3. Good(SetNode(DriveTables, n, r), OpenRequests, dircache, handles)
    BY SMTT(60), <1>6, <2>2, TablesNow, GoodNode DEF HaveNode
  <2> QED
    BY <1>3, <1>6, <2>1, <2>3 DEF fd_op_forget
<1> QED
  BY <1>4, <1>5, <1>6

-----------------------------------------------------------------------------
(***************************************************************************)
(* The client's replies.                                                   *)
(***************************************************************************)

(***************************************************************************)
(* What the invariant says of the request that is replied to.              *)
(***************************************************************************)
LEMMA FlightNow ==
    ASSUME DriveInv, NEW i \in FlightSlots, inflight[i] # None
    PROVE  /\ inflight[i] \in Flights /\ FlightShape(inflight[i])
           /\ inflight[i].node \in AllIds
  BY TablesNow DEF Good, Sound, DriveInv, DriveTypeOK, Flights

(***************************************************************************)
(* The handle of an OPEN whose node has gone meanwhile is nobody's.        *)
(***************************************************************************)
LEMMA GoodGrow ==
    ASSUME NEW S, NEW A, NEW D, NEW H, Good(S, A, D, H),
           NEW h \in Fids, NEW n \in AllIds, NEW I, OpensFor(H, I, h, n)
    PROVE  Good(S, A, D, I)
<1>1. None \notin AllIds
  BY DriveNoneAssumption DEF AllIds
<1>2. ASSUME Handling(S, H) PROVE Handling(S, I)
  BY <1>1, <1>2 DEF Handling, OpensFor
<1> QED
  BY <1>2 DEF Good

(***************************************************************************)
(* The handle that the client opens.                                       *)
(***************************************************************************)
LEMMA NewHandleOpens ==
    ASSUME DriveInv, NEW h \in Fids, NEW n \in AllIds, NewHandle(h, n)
    PROVE  /\ OpensFor(handles, handles', h, n)
           /\ handles' \in [Fids -> AllIds \cup {None}]
  BY TablesNow DEF NewHandle, OpensFor

(***************************************************************************)
(* What a failed OPEN leaves has no handle that it had not.                *)
(***************************************************************************)
LEMMA OpenFailedGood ==
    ASSUME DriveInv, NEW i \in FlightSlots, inflight[i] # None,
           inflight[i].op \in OpenTags
    PROVE  Good(OpenFailed(i), OpenRequests \ {inflight[i].unique}, dircache, handles)
<1> DEFINE n == inflight[i].node
           left == IF nodes[n].nlookup > 0 THEN nodes[n].nlookup - 1 ELSE 0
<1>1. inflight[i].op \notin {"LIST", "CLOSE"} /\ n \in AllIds
  BY FlightNow DEF OpenTags
<1>2. PICK A, T : A = OpenRequests \ {inflight[i].unique} /\ T = Freed(i)
  OBVIOUS
<1>3. Good(T, A, dircache, handles) /\ T.node = nodes
  BY <1>1, <1>2, GoodFreed
<1>4. CASE OpenFailed(i) = T
  BY <1>2, <1>3, <1>4
<1>5. CASE OpenFailed(i) = SetNode(T, n, None)
  BY SMTT(60), <1>1, <1>2, <1>3, <1>5, GoodNode
<1>6. ASSUME HaveNode(n), NEW r, r = [nodes[n] EXCEPT !.nlookup = left],
             OpenFailed(i) = SetNode(T, n, r)
      PROVE  Good(OpenFailed(i), A, dircache, handles)
  <2>1. /\ r \in NodeRecords /\ r.file_id = nodes[n].file_id
        /\ T.node[n] = nodes[n] /\ nodes[n] # None
    BY SMTT(60), <1>1, <1>3, <1>6, TablesNow DEF NodeRecords, HaveNode
  <2> HIDE DEF n
  <2>2. Good(SetNode(T, n, r), A, dircache, handles)
    BY <1>1, <1>3, <2>1, GoodNode
  <2> QED
    BY <1>6, <2>2
<1> QED
  BY <1>2, <1>4, <1>5, <1>6 DEF OpenFailed

(***************************************************************************)
(* A successful OPEN gives the node its handle; the chain goes on with a   *)
(* query, or ends with a reply.                                            *)
(***************************************************************************)
LEMMA OpenedStep ==
    ASSUME DriveInv, UNCHANGED workload, UNCHANGED <<dircache, lost, losses>>,
           NEW i \in FlightSlots, inflight[i] # None, inflight[i].op \in OpenTags,
           HaveNode(inflight[i].node), NEW h \in Fids, NewHandle(h, inflight[i].node),
           Opened(i, h)
    PROVE  DriveInv'
<1>1. PICK f, n, u, A, access :
         /\ f = inflight[i] /\ n = f.node /\ u = f.unique /\ A = OpenRequests \ {u}
         /\ access = IF f.access = {} THEN {"read"} ELSE f.access
  OBVIOUS
<1>2. /\ f \in Flights /\ f.op \notin {"LIST", "CLOSE"} /\ n \in AllIds
      /\ access \in Rights /\ f.lookup \in BOOLEAN /\ f.is_dir \in BOOLEAN
  BY <1>1, FlightNow DEF OpenTags, Flights, Rights
<1>3. PICK R : /\ R = Freed(i) /\ Good(R, A, dircache, handles) /\ u \in OpenRequests
               /\ R.node = nodes /\ HasSlot(R)
  BY <1>1, <1>2, GoodFreed
<1>4. /\ OpensFor(handles, handles', h, n)
      /\ handles' \in [Fids -> AllIds \cup {None}]
      /\ dircache' \in [DirSlots -> Listings \cup {None}] /\ dircache' = dircache
  BY <1>1, <1>2, TablesNow, NewHandleOpens
<1>5. PICK S : S = NowOpen(R, n, h, access)
  OBVIOUS
<1>6. /\ Good(S, A, dircache, handles') /\ S.node[n] \in NodeRecords
      /\ S.flight = R.flight
  <2>1. R.node[n] # None
    BY <1>1, <1>3 DEF HaveNode
  <2> QED
    BY SMTT(60), <1>2, <1>3, <1>4, <1>5, <2>1, GoodOpen
<1>7. HasSlot(S) /\ u \in Uniques /\ u \notin A /\ A \cup {u} = OpenRequests
  BY <1>1, <1>3, <1>6 DEF HasSlot, OpenRequests
<1>8. CASE Chained(fd_send_query(S, u, n, "STD", f.lookup, f.is_dir))
  <2>1. Good(fd_send_query(S, u, n, "STD", f.lookup, f.is_dir),
             OpenRequests, dircache, handles')
    BY <1>2, <1>6, <1>7, QueryGood
  <2> QED
    BY <1>4, <1>8, <2>1, ChainedKeeps
<1>9. ASSUME NEW T, Good(T, A, dircache, handles'), NEW reply, Replied(u, T, reply, n)
      PROVE  DriveInv'
  BY <1>1, <1>2, <1>3, <1>4, <1>9, RepliedKeeps
<1>10. CASE Replied(u, AddRef(S, n), "open", n)
  BY <1>2, <1>6, <1>9, <1>10, CountGood
<1>11. PICK L : L = AddLookup(S, n)
  OBVIOUS
<1>12. Good(L, A, dircache, handles') /\ L.node[n] \in NodeRecords
  BY <1>2, <1>6, <1>11, CountGood
<1>13. CASE Replied(u, AddRef(L, n), "create", n)
  BY <1>2, <1>9, <1>12, <1>13, CountGood
<1>14. ASSUME NEW r, r = [L.node[n] EXCEPT !.is_dir = @ \/ f.op = "MKDIR"],
              Replied(u, fd_send_close(SetNode(L, n, r), n), "entry", n)
       PROVE  DriveInv'
  <2>1. r \in NodeRecords /\ r.file_id = L.node[n].file_id /\ r # None /\ L.node[n] # None
    <3>1. PICK b \in BOOLEAN : b = (L.node[n].is_dir \/ f.op = "MKDIR")
      BY Zenon, <1>12 DEF NodeRecords
    <3>2. r = [L.node[n] EXCEPT !.is_dir = b]
      BY <1>14, <3>1
    <3>3. r \in NodeRecords /\ r.file_id = L.node[n].file_id
      BY SMTT(60), <1>12, <3>2 DEF NodeRecords
    <3> QED
      BY <1>12, <3>3, DriveNoneAssumption
  <2>2. PICK M : /\ M = SetNode(L, n, r) /\ Good(M, A, dircache, handles')
                 /\ M.node[n] # None
    BY SMTT(60), <1>2, <1>12, <2>1, GoodNode
  <2>3. Good(fd_send_close(M, n), A, dircache, handles')
    BY <1>2, <2>2, GoodClose
  <2> QED
    BY <1>9, <1>14, <2>2, <2>3
<1> QED
  BY <1>1, <1>3, <1>5, <1>8, <1>10, <1>11, <1>13, <1>14 DEF Opened

(***************************************************************************)
(* A completion whose OPEN succeeded for a node that has gone.             *)
(***************************************************************************)
LEMMA OrphanStep ==
    ASSUME DriveInv, UNCHANGED workload, UNCHANGED <<dircache, lost, losses>>,
           NEW i \in FlightSlots, inflight[i] # None,
           inflight[i].op \notin {"LIST", "CLOSE"},
           NEW h \in Fids, NewHandle(h, inflight[i].node),
           Replied(inflight[i].unique, Freed(i), "error", inflight[i].node)
    PROVE  DriveInv'
<1>1. PICK A, n, R : /\ A = OpenRequests \ {inflight[i].unique} /\ n = inflight[i].node
                     /\ R = Freed(i)
  OBVIOUS
<1>2. /\ Good(R, A, dircache, handles) /\ n \in AllIds
      /\ inflight[i].unique \in OpenRequests
  BY <1>1, GoodFreed
<1>3. /\ OpensFor(handles, handles', h, n)
      /\ handles' \in [Fids -> AllIds \cup {None}]
  BY <1>1, <1>2, NewHandleOpens
<1>4. Good(R, A, dircache, handles')
  BY <1>2, <1>3, GoodGrow
<1> QED
  BY <1>1, <1>2, <1>3, <1>4, TablesNow, RepliedKeeps

(***************************************************************************)
(* A completion that ends its chain with tables in which its request is    *)
(* answered by nobody.                                                     *)
(***************************************************************************)
LEMMA EndsKeeps ==
    ASSUME DriveInv, UNCHANGED workload, UNCHANGED <<dircache, handles, lost, losses>>,
           NEW i \in FlightSlots, inflight[i] # None,
           inflight[i].op \notin {"LIST", "CLOSE"}, NEW S,
           Good(S, OpenRequests \ {inflight[i].unique}, dircache, handles), NEW reply,
           Replied(inflight[i].unique, S, reply, inflight[i].node)
    PROVE  DriveInv'
<1>1. inflight[i].node \in AllIds /\ inflight[i].unique \in OpenRequests
  BY GoodFreed
<1> QED
  BY <1>1, TablesNow, RepliedKeeps

(***************************************************************************)
(* The reply to an OPEN keeps the invariant.                               *)
(***************************************************************************)
LEMMA CompleteOpenStep ==
    ASSUME DriveInv, UNCHANGED workload, NEW i \in FlightSlots, fd_complete_open(i)
    PROVE  DriveInv'
<1>1. /\ inflight[i] # None /\ inflight[i].op \in OpenTags
      /\ inflight[i].op \notin {"LIST", "CLOSE"} /\ UNCHANGED <<dircache, lost, losses>>
  BY DEF fd_complete_open, RepliedTo, OpenTags
<1>2. CASE /\ Replied(inflight[i].unique, OpenFailed(i), "error", inflight[i].node)
           /\ UNCHANGED handles
  BY <1>1, <1>2, OpenFailedGood, EndsKeeps
<1>3. ASSUME NEW h \in Fids, NewHandle(h, inflight[i].node),
             IF HaveNode(inflight[i].node) THEN Opened(i, h)
             ELSE Replied(inflight[i].unique, Freed(i), "error", inflight[i].node)
      PROVE  DriveInv'
  BY <1>1, <1>3, OpenedStep, OrphanStep
<1> QED
  BY <1>2, <1>3 DEF fd_complete_open

(***************************************************************************)
(* The reply to a query keeps the invariant: the second query, or the      *)
(* reply.                                                                  *)
(***************************************************************************)
LEMMA CompleteQueryStep ==
    ASSUME DriveInv, UNCHANGED workload, NEW i \in FlightSlots, NEW ok \in BOOLEAN,
           fd_complete_query(i, ok)
    PROVE  DriveInv'
<1>1. PICK f, n, u, dir, reply, R :
         /\ f = inflight[i] /\ n = f.node /\ u = f.unique /\ R = Freed(i)
         /\ dir = IF ok THEN nodes[n].name \in DirNames \/ n \in Drives ELSE f.is_dir
         /\ reply = IF f.lookup THEN "entry" ELSE "attr"
  OBVIOUS
<1>2. /\ f # None /\ f.op \notin {"LIST", "CLOSE"}
      /\ UNCHANGED <<dircache, handles, lost, losses>>
  BY <1>1 DEF fd_complete_query, RepliedTo, clientVars
<1>3. f \in Flights /\ n \in AllIds
  BY <1>1, <1>2, FlightNow
<1>4. dir \in BOOLEAN /\ f.lookup \in BOOLEAN
  BY <1>1, <1>3 DEF Flights
<1>5. /\ Good(R, OpenRequests \ {u}, dircache, handles) /\ R.node = nodes
      /\ HasSlot(R) /\ u \in OpenRequests /\ u \in Uniques
  BY <1>1, <1>2, GoodFreed DEF OpenRequests
<1>6. ASSUME NEW x, Replied(u, R, x, n) PROVE DriveInv'
  BY <1>1, <1>2, <1>5, <1>6, EndsKeeps
<1>7. CASE HaveNode(n) /\ Chained(fd_send_query(R, u, n, "BASIC", f.lookup, dir))
  <2>1. PICK A : A = OpenRequests \ {u} /\ A \cup {u} = OpenRequests /\ u \notin A
    BY SMTT(60), <1>5
  <2>2. R.node[n] \in NodeRecords
    BY <1>3, <1>5, <1>7, TablesNow
  <2>3. Good(fd_send_query(R, u, n, "BASIC", f.lookup, dir), A \cup {u},
             dircache, handles)
    BY <1>3, <1>4, <1>5, <2>1, <2>2, QueryGood
  <2> QED
    BY <1>2, <1>7, <2>1, <2>3, TablesNow, ChainedKeeps
<1>8. ASSUME HaveNode(n), NEW r, r = [nodes[n] EXCEPT !.is_dir = dir],
             Replied(u, SetNode(R, n, r), reply, n)
      PROVE  DriveInv'
  <2>1. /\ r \in NodeRecords /\ r.file_id = nodes[n].file_id
        /\ R.node[n] = nodes[n] /\ nodes[n] # None
    BY SMTT(60), <1>3, <1>4, <1>5, <1>8, TablesNow DEF NodeRecords, HaveNode
  <2>2. Good(SetNode(R, n, r), OpenRequests \ {u}, dircache, handles)
    BY <1>3, <1>5, <2>1, GoodNode
  <2> QED
    BY <1>1, <1>2, <1>8, <2>2, EndsKeeps
<1> QED
  BY <1>1, <1>6, <1>7, <1>8 DEF fd_complete_query

(***************************************************************************)
(* The reply to a SETATTR keeps the invariant: the next request of the     *)
(* chain, or the reply.                                                    *)
(***************************************************************************)
LEMMA CompleteSetInfoStep ==
    ASSUME DriveInv, UNCHANGED workload, NEW i \in FlightSlots, NEW ok \in BOOLEAN,
           fd_complete_set_info(i, ok)
    PROVE  DriveInv'
<1>1. PICK f, n, u, R : f = inflight[i] /\ n = f.node /\ u = f.unique /\ R = Freed(i)
  OBVIOUS
<1>2. /\ f # None /\ f.op \notin {"LIST", "CLOSE"}
      /\ UNCHANGED <<dircache, handles, lost, losses>>
  BY <1>1 DEF fd_complete_set_info, RepliedTo, clientVars
<1>3. f \in Flights /\ n \in AllIds /\ f.is_dir \in BOOLEAN
  BY <1>1, <1>2, FlightNow DEF Flights
<1>4. /\ Good(R, OpenRequests \ {u}, dircache, handles) /\ R.node = nodes
      /\ HasSlot(R) /\ u \in OpenRequests /\ u \in Uniques
  BY <1>1, <1>2, GoodFreed DEF OpenRequests
<1>5. CASE Replied(u, R, "attr", n)
  BY <1>1, <1>2, <1>4, <1>5, EndsKeeps
<1>6. PICK A : A = OpenRequests \ {u} /\ A \cup {u} = OpenRequests /\ u \notin A
  BY SMTT(60), <1>4
<1>7. CASE HaveNode(n) /\ Chained(fd_send_query(R, u, n, "STD", FALSE, f.is_dir))
  <2>1. R.node[n] \in NodeRecords
    BY <1>3, <1>4, <1>7, TablesNow
  <2>2. Good(fd_send_query(R, u, n, "STD", FALSE, f.is_dir), A \cup {u},
             dircache, handles)
    BY <1>3, <1>4, <1>6, <2>1, QueryGood
  <2> QED
    BY <1>2, <1>6, <1>7, <2>2, TablesNow, ChainedKeeps
<1>8. ASSUME HaveNode(n), NEW g,
             g = [OnHandle(DriveTables, "SETATTR", u, n) EXCEPT !.is_dir = f.is_dir],
             Chained(fd_inflight_alloc(R, g))
      PROVE  DriveInv'
  <2>1. DriveTables.node[n].file_id \in Fids \cup {None} /\ u # None
    BY <1>3, <1>4, <1>8, TablesNow, DriveNoneAssumption DEF NodeRecords
  <2>2. PICK dir \in BOOLEAN : dir = f.is_dir
    BY <1>3
  <2>3. u \in Uniques /\ n \in AllIds
    BY <1>3, <1>4
  <2>4. /\ g \in Flights /\ FlightShape(g) /\ g.unique = u
        /\ g.op \notin {"LIST", "CLOSE"}
    BY <1>8, <2>1, <2>2, <2>3 DEF OnHandle, Flight, Flights, FlightShape, OpenTags
  <2>5. Good(fd_inflight_alloc(R, g), A \cup {u}, dircache, handles)
    BY <1>4, <1>6, <2>4, GoodAlloc
  <2> QED
    BY <1>2, <1>6, <1>8, <2>5, TablesNow, ChainedKeeps
<1> QED
  BY <1>1, <1>5, <1>7, <1>8 DEF fd_complete_set_info

(***************************************************************************)
(* The reply to a READ or a WRITE keeps the invariant.                     *)
(***************************************************************************)
LEMMA CompleteTransferStep ==
    ASSUME DriveInv, UNCHANGED workload, NEW i \in FlightSlots, NEW ok \in BOOLEAN,
           fd_complete_transfer(i, ok)
    PROVE  DriveInv'
<1>1. /\ inflight[i] # None /\ inflight[i].op \notin {"LIST", "CLOSE"}
      /\ UNCHANGED <<dircache, handles, lost, losses>>
      /\ Replied(inflight[i].unique, Freed(i), "data", inflight[i].node)
  BY DEF fd_complete_transfer, RepliedTo, clientVars
<1> QED
  BY <1>1, GoodFreed, EndsKeeps

(***************************************************************************)
(* The OPEN of a delete or of a rename.                                    *)
(***************************************************************************)
LEMMA HandleOpenedStep ==
    ASSUME DriveInv, UNCHANGED workload, UNCHANGED <<dircache, lost, losses>>,
           NEW i \in FlightSlots, inflight[i] # None,
           inflight[i].op \in {"UNLINK", "RENAME"}, NEW access \in Rights,
           DeleteOrRenameOpened(i, access)
    PROVE  DriveInv'
<1>1. PICK f, n, u, R : f = inflight[i] /\ n = f.node /\ u = f.unique /\ R = Freed(i)
  OBVIOUS
<1>2. f \in Flights /\ FlightShape(f) /\ n \in AllIds /\ f.op \notin {"LIST", "CLOSE"}
  BY <1>1, FlightNow
<1>3. /\ Good(R, OpenRequests \ {u}, dircache, handles) /\ R.node = nodes
      /\ HasSlot(R) /\ u \in OpenRequests /\ u \in Uniques
  BY <1>1, <1>2, GoodFreed DEF OpenRequests
<1>4. CASE Replied(u, R, "error", n) /\ UNCHANGED handles
  BY <1>1, <1>2, <1>3, <1>4, EndsKeeps
<1>5. ASSUME NEW h \in Fids, NewHandle(h, n), ~HaveNode(n), Replied(u, R, "error", n)
      PROVE  DriveInv'
  BY <1>1, <1>2, <1>5, OrphanStep
<1>6. ASSUME NEW h \in Fids, NewHandle(h, n), HaveNode(n), Chained(HandleOpened(i, h, access))
      PROVE  DriveInv'
  <2>1. OpensFor(handles, handles', h, n) /\ handles' \in [Fids -> AllIds \cup {None}]
    BY <1>2, <1>6, NewHandleOpens
  <2>2. PICK A : A = OpenRequests \ {u} /\ A \cup {u} = OpenRequests /\ u \notin A
    BY SMTT(60), <1>3
  <2>3. PICK S : S = NowOpen(R, n, h, access)
    OBVIOUS
  <2>4. R.node[n] # None
    BY <1>3, <1>6 DEF HaveNode
  <2>5. /\ Good(S, A, dircache, handles') /\ S.node[n] \in NodeRecords
        /\ S.node[n].file_id = h /\ S.flight = R.flight
    BY SMTT(60), <1>2, <1>3, <2>1, <2>2, <2>3, <2>4, GoodOpen
  <2>6. HasSlot(S)
    BY <1>3, <2>5 DEF HasSlot
  <2>7. PICK g : /\ g = [OnHandle(S, f.op, u, n) EXCEPT !.phase = "SET", !.target = f.target]
                 /\ HandleOpened(i, h, access) = fd_inflight_alloc(S, g)
    BY <1>1, <2>3 DEF HandleOpened
  <2>8. PICK op \in {"UNLINK", "RENAME"}, target \in (AllIds \X Names) \cup {None} :
           /\ op = f.op /\ target = f.target /\ (op = "RENAME" => target # None)
    BY <1>1, <1>2 DEF Flights, FlightShape
  <2>9. u # None
    BY <1>3, DriveNoneAssumption
  <2>10. /\ g \in Flights /\ FlightShape(g) /\ g.unique = u
         /\ g.op \notin {"LIST", "CLOSE"}
    <3>1. g = [op |-> op, unique |-> u, node |-> n, phase |-> "SET", file_id |-> h,
               access |-> {}, lookup |-> FALSE, is_dir |-> FALSE, cache |-> 0,
               target |-> target]
      BY <2>5, <2>7, <2>8 DEF OnHandle, Flight
    <3>2. n \in AllIds /\ u \in Uniques
      BY <1>2, <1>3
    <3> QED
      BY <2>8, <2>9, <3>1, <3>2 DEF Flights, FlightShape, OpenTags
  <2>11. Good(fd_inflight_alloc(S, g), A \cup {u}, dircache, handles')
    BY <1>3, <2>2, <2>5, <2>6, <2>10, GoodAlloc
  <2> QED
    BY <1>6, <2>1, <2>2, <2>7, <2>11, TablesNow, ChainedKeeps
<1> QED
  BY <1>1, <1>4, <1>5, <1>6 DEF DeleteOrRenameOpened

(***************************************************************************)
(* The replies to an UNLINK keep the invariant: the handle is closed       *)
(* before the node goes.                                                   *)
(***************************************************************************)
LEMMA CompleteUnlinkStep ==
    ASSUME DriveInv, UNCHANGED workload, NEW i \in FlightSlots, NEW ok \in BOOLEAN,
           fd_complete_unlink(i, ok)
    PROVE  DriveInv'
<1>1. PICK f, n, u, R : f = inflight[i] /\ n = f.node /\ u = f.unique /\ R = Freed(i)
  OBVIOUS
<1>2. /\ f # None /\ f.op = "UNLINK" /\ UNCHANGED <<dircache, lost, losses>>
  BY <1>1 DEF fd_complete_unlink, RepliedTo
<1>3. CASE DeleteOrRenameOpened(i, {"delete"})
  BY <1>1, <1>2, <1>3, HandleOpenedStep DEF Rights
<1>4. /\ Good(R, OpenRequests \ {u}, dircache, handles) /\ R.node = nodes /\ n \in AllIds
  BY <1>1, <1>2, GoodFreed
<1>5. ASSUME UNCHANGED handles, NEW T, Replied(u, T, "done", n),
             Good(T, OpenRequests \ {u}, dircache, handles)
      PROVE  DriveInv'
  BY <1>1, <1>2, <1>5, EndsKeeps
<1>6. CASE UNCHANGED handles /\ Replied(u, R, "done", n)
  BY <1>4, <1>5, <1>6
<1>7. ASSUME HaveNode(n), UNCHANGED handles, NEW S, S = fd_send_close(R, n),
             Replied(u, SetNode(S, n, None), "done", n) \/ Replied(u, S, "done", n)
      PROVE  DriveInv'
  <2>1. Good(S, OpenRequests \ {u}, dircache, handles)
    BY <1>4, <1>7, GoodClose DEF HaveNode
  <2>2. Good(SetNode(S, n, None), OpenRequests \ {u}, dircache, handles)
    BY <1>4, <2>1, GoodNode
  <2> QED
    BY <1>5, <1>7, <2>1, <2>2
<1> QED
  BY <1>1, <1>3, <1>6, <1>7 DEF fd_complete_unlink

(***************************************************************************)
(* The replies to a RENAME keep the invariant.                             *)
(***************************************************************************)
LEMMA CompleteRenameStep ==
    ASSUME DriveInv, UNCHANGED workload, NEW i \in FlightSlots, NEW ok \in BOOLEAN,
           fd_complete_rename(i, ok)
    PROVE  DriveInv'
<1>1. PICK f, n, u, R : f = inflight[i] /\ n = f.node /\ u = f.unique /\ R = Freed(i)
  OBVIOUS
<1>2. /\ f # None /\ f.op = "RENAME" /\ UNCHANGED <<dircache, lost, losses>>
  BY <1>1 DEF fd_complete_rename, RepliedTo
<1>3. CASE DeleteOrRenameOpened(i, {"delete", "write"})
  BY <1>1, <1>2, <1>3, HandleOpenedStep DEF Rights
<1>4. /\ Good(R, OpenRequests \ {u}, dircache, handles) /\ R.node = nodes /\ n \in AllIds
  BY <1>1, <1>2, GoodFreed
<1>5. ASSUME UNCHANGED handles, NEW T, Replied(u, T, "done", n),
             Good(T, OpenRequests \ {u}, dircache, handles)
      PROVE  DriveInv'
  BY <1>1, <1>2, <1>5, EndsKeeps
<1>6. CASE UNCHANGED handles /\ Replied(u, R, "done", n)
  BY <1>4, <1>5, <1>6
<1>7. ASSUME HaveNode(n), UNCHANGED handles, NEW S, S = fd_send_close(R, n), NEW r,
             r = [S.node[n] EXCEPT !.parent = f.target[1], !.name = f.target[2]],
             Replied(u, SetNode(S, n, r), "done", n) \/ Replied(u, S, "done", n)
      PROVE  DriveInv'
  <2>1. /\ Good(S, OpenRequests \ {u}, dircache, handles)
        /\ S.node[n] \in NodeRecords /\ S.node[n].file_id = None
    BY SMTT(60), <1>4, <1>7, GoodClose DEF HaveNode
  <2>2. PICK q \in AllIds, y \in Names : q = f.target[1] /\ y = f.target[2]
    BY <1>1, <1>2, FlightNow DEF Flights, FlightShape
  <2>3. r \in NodeRecords /\ r.file_id = None
    BY <1>7, <2>1, <2>2 DEF NodeRecords
  <2>4. Good(SetNode(S, n, r), OpenRequests \ {u}, dircache, handles)
    BY <1>4, <2>1, <2>3, GoodNode
  <2> QED
    BY <1>5, <1>7, <2>1, <2>4
<1> QED
  BY <1>1, <1>3, <1>6, <1>7 DEF fd_complete_rename

(***************************************************************************)
(* The reply to a LIST keeps the invariant: the listing goes on with a     *)
(* LIST in flight, or is finished or dropped.                              *)
(***************************************************************************)
LEMMA CompleteListStep ==
    ASSUME DriveInv, UNCHANGED workload, NEW i \in FlightSlots,
           NEW status \in {"more", "end", "error"}, fd_complete_list(i, status)
    PROVE  DriveInv'
<1>1. PICK f, n, u, d, R : /\ f = inflight[i] /\ n = f.node /\ u = f.unique
                           /\ d = f.cache /\ R = Freed(i)
  OBVIOUS
<1>2. f # None /\ f.op = "LIST" /\ UNCHANGED clientVars
  BY <1>1 DEF fd_complete_list, RepliedTo
<1>3. /\ f \in Flights /\ FlightShape(f) /\ n \in AllIds /\ d \in DirSlots
      /\ u \in Uniques /\ Fills(inflight, i, d)
  BY <1>1, <1>2, FlightNow DEF Flights, FlightShape, Fills
<1>4. /\ Sound(DriveTables) /\ Answering(inflight, OpenRequests)
      /\ Listing(inflight, dircache) /\ (losses = 0 => Handling(DriveTables, handles))
  BY TablesNow DEF Good
<1>5. PICK A : A = OpenRequests \ {u}
  OBVIOUS
<1>6. /\ Sound(R) /\ R.node = nodes /\ HasSlot(R) /\ u \in OpenRequests
      /\ Answering(R.flight, A) /\ (losses = 0 => Handling(R, handles))
  BY <1>1, <1>2, <1>3, <1>4, <1>5, FreedKeeps
<1>7. /\ dircache[d] # None /\ dircache[d].filling /\ dircache[d].node = n
      /\ ListingBut(R.flight, dircache, d)
  BY SMTT(60), <1>1, <1>2, <1>3, <1>4, FreedKeeps
<1>8. /\ dircache \in [DirSlots -> Listings \cup {None}] /\ dircache[d] \in Listings
      /\ handles' \in [Fids -> AllIds \cup {None}] /\ handles' = handles
      /\ UNCHANGED <<lost, losses>>
  BY <1>2, <1>3, <1>7, TablesNow DEF clientVars
<1>9. ASSUME NEW reply, Replied(u, R, reply, n), NEW l \in Listings \cup {None},
             dircache' = [dircache EXCEPT ![d] = l], l # None => ~l.filling
      PROVE  DriveInv'
  <2>1. /\ dircache' \in [DirSlots -> Listings \cup {None}] /\ dircache'[d] = l
        /\ \A e \in DirSlots \ {d} : dircache'[e] = dircache[e]
    BY <1>3, <1>8, <1>9
  <2>2. PICK E : E = dircache' /\ (E[d] # None => ~E[d].filling)
    BY <1>9, <2>1
  <2>3. \A e \in DirSlots \ {d} : E[e] = dircache[e]
    BY <2>1, <2>2
  <2>4. Listing(R.flight, dircache')
    BY <1>3, <1>7, <2>2, <2>3, ButListed
  <2>5. Good(R, A, dircache', handles')
    BY <1>6, <1>8, <2>4 DEF Good
  <2> QED
    BY <1>3, <1>5, <1>6, <1>8, <1>9, <2>1, <2>5, RepliedKeeps
<1>10. CASE /\ Replied(u, R, "error", n) /\ dircache' = [dircache EXCEPT ![d] = None]
  BY <1>9, <1>10
<1>11. ASSUME Replied(u, R, "dirents", n), NEW more,
              more = (status = "more" /\ dircache[d].count < ListMax), NEW l,
              l = ListEnds(dircache[d], status, more), dircache' = [dircache EXCEPT ![d] = l]
       PROVE  DriveInv'
  <2>1. CASE l = None
    BY <1>9, <1>11, <2>1
  <2>2. CASE l = [dircache[d] EXCEPT !.filling = FALSE,
                                     !.count = IF more THEN @ + 1 ELSE @]
    <3>1. /\ dircache[d].count \in 0..ListMax /\ dircache[d].node \in AllIds
          /\ dircache[d] = [node |-> dircache[d].node, filling |-> dircache[d].filling,
                            count |-> dircache[d].count]
      BY <1>8 DEF Listings
    <3>2. PICK b, c : /\ b = dircache[d].count /\ b \in 0..ListMax /\ ListMax \in Nat
                      /\ more => b < ListMax
                      /\ c = IF more THEN b + 1 ELSE b
      BY <1>11, <3>1, FuseDriveAssumption
    <3>3. c \in 0..ListMax
      BY SMT, <3>2
    <3>4. l = [node |-> dircache[d].node, filling |-> FALSE, count |-> c]
      BY <2>2, <3>1, <3>2
    <3>5. l \in Listings /\ ~l.filling
      BY <3>1, <3>3, <3>4 DEF Listings
    <3> QED
      BY <1>9, <1>11, <3>5
  <2> QED
    BY <1>11, <2>1, <2>2 DEF ListEnds
<1>12. ASSUME HaveNode(n), dircache[d].count < ListMax,
              dircache' = [dircache EXCEPT ![d].count = @ + 1], NEW g,
              g = [OnHandle(DriveTables, "LIST", u, n) EXCEPT !.cache = d],
              Chained(fd_inflight_alloc(R, g))
       PROVE  DriveInv'
  <2>1. PICK l : l = [dircache[d] EXCEPT !.count = @ + 1]
    OBVIOUS
  <2>2. l \in Listings /\ l # None /\ l.filling /\ l.node = n
    <3>1. l \in Listings /\ l.filling /\ l.node = n
      BY SMTT(60), <1>7, <1>8, <1>12, <2>1, FuseDriveAssumption DEF Listings
    <3> QED
      BY <3>1, DriveNoneAssumption
  <2>3. dircache' = [dircache EXCEPT ![d] = l]
    BY <1>3, <1>8, <1>12, <2>1
  <2>4. /\ dircache' \in [DirSlots -> Listings \cup {None}] /\ dircache'[d] = l
        /\ \A e \in DirSlots \ {d} : dircache'[e] = dircache[e]
    BY <1>3, <1>8, <2>2, <2>3
  <2>5. ListingBut(R.flight, dircache', d)
    BY <1>3, <1>7, <2>4, ButListed
  <2>6. DriveTables.node[n].file_id \in Fids \cup {None} /\ u # None /\ d # 0
    BY <1>1, <1>2, <1>3, <1>12, TablesNow, DriveNoneAssumption DEF NodeRecords, FlightShape
  <2>7. /\ g \in Flights /\ FlightShape(g) /\ g.unique = u
        /\ g.op = "LIST" /\ g.cache = d /\ g.node = n
    <3>1. n \in AllIds /\ u \in Uniques /\ d \in DirSlots
      BY <1>3
    <3> QED
      BY <1>12, <2>6, <3>1 DEF OnHandle, Flight, Flights, FlightShape, OpenTags
  <2>8. PICK S : S = fd_inflight_alloc(R, g)
    OBVIOUS
  <2>9. Sound(S) /\ S.node = R.node /\ S.close = R.close
    BY <1>6, <2>7, <2>8, AllocSound
  <2>10. R \in Tables
    BY <1>6 DEF Sound
  <2>11. PICK j \in FlightSlots : Added(R.flight, S.flight, j, g)
    BY <1>6, <2>7, <2>8, <2>10, AllocShape
  <2>12. Answering(S.flight, OpenRequests)
    <3>1. u \in Uniques \ A /\ A \cup {u} = OpenRequests
      BY <1>3, <1>5, <1>6
    <3>2. Answering(S.flight, A \cup {u})
      BY <1>6, <2>7, <2>11, <3>1, AddAnswers
    <3> QED
      BY <3>1, <3>2
  <2>13. Listing(S.flight, dircache')
    BY SMTT(60), <1>3, <2>2, <2>4, <2>5, <2>7, <2>11, AddList
  <2>14. losses = 0 => Handling(S, handles')
    BY <1>6, <1>8, <2>7, <2>9, <2>11, AddHandles
  <2>15. Good(S, OpenRequests, dircache', handles')
    BY <2>9, <2>12, <2>13, <2>14 DEF Good
  <2> QED
    BY <1>8, <1>12, <2>4, <2>8, <2>15, ChainedKeeps
<1>13. PICK more : more = (status = "more" /\ dircache[d].count < ListMax)
  OBVIOUS
<1>14. \/ Replied(u, R, "error", n) /\ dircache' = [dircache EXCEPT ![d] = None]
       \/ /\ HaveNode(n) /\ more
          /\ dircache' = [dircache EXCEPT ![d].count = @ + 1]
          /\ Chained(fd_inflight_alloc(R,
                [OnHandle(DriveTables, "LIST", u, n) EXCEPT !.cache = d]))
       \/ /\ Replied(u, R, "dirents", n)
          /\ dircache' = [dircache EXCEPT ![d] = ListEnds(@, status, more)]
  BY <1>1, <1>13 DEF fd_complete_list
<1>15. CASE /\ HaveNode(n) /\ more
            /\ dircache' = [dircache EXCEPT ![d].count = @ + 1]
            /\ Chained(fd_inflight_alloc(R,
                  [OnHandle(DriveTables, "LIST", u, n) EXCEPT !.cache = d]))
  BY <1>12, <1>13, <1>15
<1>16. CASE /\ Replied(u, R, "dirents", n)
            /\ dircache' = [dircache EXCEPT ![d] = ListEnds(@, status, more)]
  <2>1. PICK l : l = ListEnds(dircache[d], status, more)
    OBVIOUS
  <2>2. dircache' = [dircache EXCEPT ![d] = l]
    BY <1>16, <2>1
  <2> QED
    BY <1>11, <1>13, <1>16, <2>1, <2>2
<1> QED
  BY <1>10, <1>14, <1>15, <1>16

(***************************************************************************)
(* The reply to a CLOSE keeps the invariant: nobody holds the handle that  *)
(* is gone.                                                                *)
(***************************************************************************)
LEMMA ClosedReplyStep ==
    ASSUME DriveInv, UNCHANGED workload, NEW i \in FlightSlots, ClosedReply(i)
    PROVE  DriveInv'
<1>1. PICK h, R : h = inflight[i].file_id /\ R = Freed(i)
  OBVIOUS
<1>2. /\ inflight[i] # None /\ inflight[i].op = "CLOSE" /\ Chained(R)
      /\ handles' = [handles EXCEPT ![h] = None] /\ UNCHANGED <<dircache, lost, losses>>
  BY <1>1 DEF ClosedReply, RepliedTo
<1>3. h \in Fids /\ inflight[i].unique \notin Uniques
  BY <1>1, <1>2, FlightNow, DriveNoneAssumption DEF Flights, FlightShape
<1>4. /\ Sound(DriveTables) /\ Answering(inflight, OpenRequests)
      /\ Listing(inflight, dircache) /\ (losses = 0 => Handling(DriveTables, handles))
  BY TablesNow DEF Good
<1>5. /\ Sound(R) /\ R.node = nodes /\ R.close = closes
      /\ Answering(R.flight, OpenRequests) /\ Listing(R.flight, dircache)
      /\ (losses = 0 => Handling(R, handles))
  BY <1>1, <1>2, <1>3, <1>4, FreedKeeps
<1>6. /\ handles' \in [Fids -> AllIds \cup {None}]
      /\ \A k \in Fids \ {h} : handles'[k] = handles[k]
  BY <1>2, <1>3, TablesNow
<1>7. ASSUME Handling(DriveTables, handles), Handling(R, handles)
      PROVE  Handling(R, handles')
  <2>1. /\ DriveTables.flight = inflight /\ DriveTables.node = nodes
        /\ DriveTables.close = closes
    BY DEF DriveTables
  <2>2. Closes(inflight, i, h)
    BY <1>1, <1>2 DEF Closes
  <2>3. h \notin closes /\ \A j \in FlightSlots : Closes(inflight, j, h) => j = i
    BY <1>3, <1>7, <2>1, <2>2 DEF Handling
  <2>4. /\ R.flight[i] = None
        /\ \A j \in FlightSlots \ {i} : R.flight[j] = inflight[j]
    BY SMT, <1>1, <1>4 DEF Freed, DriveTables, Sound, Tables
  <2>5. ~ClosingIn(R, h)
    BY <1>5, <2>3, <2>4 DEF ClosingIn, Closes
  <2>6. \A n \in AllIds : ~Holds(R, n, h)
    BY SMTT(60), <1>3, <1>5, <1>7, <2>1, <2>2 DEF Handling, Holds, ClosingIn
  <2> QED
    BY <1>3, <1>6, <1>7, <2>5, <2>6 DEF Handling
<1>8. Good(R, OpenRequests, dircache', handles')
  BY <1>2, <1>4, <1>5, <1>7 DEF Good
<1> QED
  BY <1>2, <1>6, <1>8, TablesNow, ChainedKeeps

(***************************************************************************)
(* After a step in which only the tables and the client change.            *)
(***************************************************************************)
LEMMA ClientKeeps ==
    ASSUME DriveInv, UNCHANGED workload, UNCHANGED <<dircache, kernelVars>>,
           NEW S, Become(S), Sound(S),
           S.flight = inflight, losses' = 0 => Handling(S, handles'),
           handles' \in [Fids -> AllIds \cup {None}],
           lost' \subseteq FlightSlots, losses' \in 0..workload.losses
    PROVE  DriveInv'
<1>1. /\ OpenRequests' = OpenRequests /\ dircache' = dircache
      /\ UNCHANGED <<asked, kref, kfds, stray>>
  BY DEF OpenRequests, kernelVars
<1>2. /\ asked' \in [Uniques -> KernelRequests(workload.ops) \cup {None}]
      /\ kref' \in [AllIds -> Nat] /\ kfds' \in [AllIds -> Nat] /\ stray' = FALSE
  BY <1>1 DEF DriveInv, DriveTypeOK
<1>3. /\ Answering(S.flight, OpenRequests') /\ Listing(S.flight, dircache')
      /\ dircache' \in [DirSlots -> Listings \cup {None}]
  BY <1>1, TablesNow DEF Good
<1> QED
  BY <1>2, <1>3, Concludes

(***************************************************************************)
(* A CLOSE that has no slot keeps the invariant when it is carried out.    *)
(***************************************************************************)
LEMMA ClosedUnseenStep ==
    ASSUME DriveInv, UNCHANGED workload, NEW h \in Fids, ClosedUnseen(h)
    PROVE  DriveInv'
<1>1. /\ h \in closes /\ closes' = closes \ {h}
      /\ handles' = [handles EXCEPT ![h] = None]
      /\ UNCHANGED <<dircache, kernelVars>> /\ UNCHANGED <<nodes, inflight, lost, losses>>
  BY DEF ClosedUnseen
<1>2. PICK S : S = [node |-> nodes, flight |-> inflight, close |-> closes \ {h}]
  OBVIOUS
<1>3. S.node = nodes /\ S.flight = inflight /\ S.close = closes \ {h}
  BY <1>2
<1>4. /\ Sound(DriveTables) /\ (losses = 0 => Handling(DriveTables, handles))
      /\ DriveTables.flight = inflight /\ DriveTables.node = nodes
      /\ DriveTables.close = closes
  BY TablesNow DEF Good, DriveTables
<1>5. Sound(S) /\ Become(S)
  BY <1>1, <1>2, <1>3, <1>4 DEF Sound, Tables, Become
<1>6. /\ handles' \in [Fids -> AllIds \cup {None}]
      /\ \A k \in Fids \ {h} : handles'[k] = handles[k]
  BY <1>1, TablesNow
<1>7. ASSUME Handling(DriveTables, handles) PROVE Handling(S, handles')
  <2>1. \A j \in FlightSlots : ~Closes(inflight, j, h)
    BY <1>1, <1>4, <1>7 DEF Handling
  <2>2. ~ClosingIn(S, h) /\ ClosingIn(DriveTables, h)
    BY <1>1, <1>3, <1>4, <2>1 DEF ClosingIn
  <2>3. \A k \in Fids \ {h} : ClosingIn(S, k) <=> ClosingIn(DriveTables, k)
    BY <1>3, <1>4 DEF ClosingIn
  <2>4. \A n \in AllIds, k \in Fids : Holds(S, n, k) => Holds(DriveTables, n, k) /\ k # h
    BY <1>3, <1>4, <1>7, <2>2 DEF Handling, Holds
  <2> QED
    BY <1>3, <1>4, <1>6, <1>7, <2>1, <2>2, <2>3, <2>4 DEF Handling
<1>8. lost' \subseteq FlightSlots /\ losses' \in 0..workload.losses /\ losses' = losses
  BY <1>1 DEF DriveInv, DriveTypeOK
<1> QED
  BY <1>1, <1>3, <1>4, <1>5, <1>6, <1>7, <1>8, ClientKeeps

(***************************************************************************)
(* A drive that is announced keeps the invariant: its node has no handle.  *)
(***************************************************************************)
LEMMA AddDeviceStep ==
    ASSUME DriveInv, UNCHANGED workload, NEW d \in workload.drives,
           fuse_drive_add_device(d)
    PROVE  DriveInv'
<1>1. /\ nodes' = [nodes EXCEPT ![d] = NewNode(None, None, d, TRUE)]
      /\ UNCHANGED <<dircache, kernelVars>> /\ UNCHANGED <<inflight, closes>>
      /\ UNCHANGED <<handles, lost, losses>>
  BY DEF fuse_drive_add_device, clientVars
<1>2. d \in Drives /\ d \in AllIds
  BY FuseDriveAssumption DEF DriveInv, AllIds
<1>3. PICK r, S : r = NewNode(None, None, d, TRUE) /\ S = SetNode(DriveTables, d, r)
  OBVIOUS
<1>4. r \in NodeRecords /\ r.file_id = None
  BY <1>2, <1>3 DEF NewNode, NodeRecords
<1>5. Good(S, OpenRequests, dircache, handles) /\ S.flight = inflight
  <2>1. /\ Good(SetNode(DriveTables, d, r), OpenRequests, dircache, handles)
        /\ SetNode(DriveTables, d, r).flight = DriveTables.flight
    BY SMTT(60), <1>2, <1>4, TablesNow, GoodNode
  <2> QED
    BY <1>3, <2>1, TablesNow
<1>6. Become(S)
  BY <1>1, <1>3 DEF Become, SetNode, DriveTables
<1>7. /\ handles' \in [Fids -> AllIds \cup {None}] /\ handles' = handles
      /\ lost' \subseteq FlightSlots /\ losses' \in 0..workload.losses /\ losses' = losses
  BY <1>1 DEF DriveInv, DriveTypeOK
<1> QED
  BY <1>1, <1>5, <1>6, <1>7, ClientKeeps DEF Good

(***************************************************************************)
(* The loss of the worker keeps the invariant, which says nothing of       *)
(* handles from then on.                                                   *)
(***************************************************************************)
LEMMA WorkerLostStep ==
    ASSUME DriveInv, UNCHANGED workload, DriveWorkerLost
    PROVE  DriveInv'
<1>1. /\ losses < workload.losses /\ losses' = losses + 1 /\ closes' = {}
      /\ lost' = {i \in FlightSlots : inflight[i] # None}
      /\ handles' = [h \in Fids |-> None]
      /\ UNCHANGED <<dircache, kernelVars>> /\ UNCHANGED <<nodes, inflight>>
  BY DEF DriveWorkerLost
<1>2. PICK S : S = [node |-> nodes, flight |-> inflight, close |-> {}]
  OBVIOUS
<1>3. S.node = nodes /\ S.flight = inflight /\ S.close = {}
  BY <1>2
<1>4. /\ Sound(DriveTables) /\ DriveTables.flight = inflight
      /\ DriveTables.node = nodes
  BY TablesNow DEF Good
<1>5. Sound(S) /\ Become(S)
  BY <1>1, <1>2, <1>3, <1>4 DEF Sound, Tables, Become
<1>6. handles' \in [Fids -> AllIds \cup {None}] /\ lost' \subseteq FlightSlots
  BY <1>1
<1>7. losses \in 0..workload.losses /\ workload.losses \in Nat
  BY FuseDriveAssumption DEF DriveInv, DriveTypeOK
<1>8. losses' \in 0..workload.losses /\ losses' # 0
  BY SMT, <1>1, <1>7
<1> QED
  BY <1>1, <1>3, <1>5, <1>6, <1>8, ClientKeeps

-----------------------------------------------------------------------------
(***************************************************************************)
(* The invariant holds throughout.                                         *)
(***************************************************************************)

(***************************************************************************)
(* At the start nothing is known, asked or open.                           *)
(***************************************************************************)
LEMMA InitDrive ==
    ASSUME DriveInit
    PROVE  DriveInv
<1>1. workload.losses \in Nat /\ workload \in Workloads
  BY FuseDriveAssumption DEF DriveInit
<1>2. DriveTypeOK
  <2>1. losses \in 0..workload.losses
    BY SMT, <1>1 DEF DriveInit
  <2>2. kref \in [AllIds -> Nat] /\ kfds \in [AllIds -> Nat]
    BY SMT DEF DriveInit
  <2> QED
    BY <2>1, <2>2 DEF DriveInit, DriveTypeOK
<1>3. DriveTables.node = nodes /\ DriveTables.flight = inflight /\ DriveTables.close = {}
  BY DEF DriveInit, DriveTables
<1>4. Sound(DriveTables)
  BY <1>2, <1>3 DEF DriveInit, Sound, Tables, DriveTables, DriveTypeOK
<1>5. Answering(DriveTables.flight, OpenRequests)
  BY <1>3 DEF DriveInit, Answering, Answers, OpenRequests
<1>6. Listing(DriveTables.flight, dircache)
  BY <1>3 DEF DriveInit, Listing, Fills
<1>7. Handling(DriveTables, handles)
  BY <1>3 DEF DriveInit, Handling, Holds, ClosingIn, Closes
<1>8. stray = FALSE
  BY DEF DriveInit
<1> QED
  BY <1>1, <1>2, <1>4, <1>5, <1>6, <1>7, <1>8 DEF DriveInv, Good

(***************************************************************************)
(* A request of the kernel.                                                *)
(***************************************************************************)
LEMMA AskStep ==
    ASSUME DriveInv, UNCHANGED workload, NEW u \in Uniques, KernelAsks(u)
    PROVE  DriveInv'
<1>1. workload.names \subseteq Names
  BY FuseDriveAssumption DEF DriveInv
<1>2. /\ {"read", "write"} \in Rights /\ {"read"} \in Rights
      /\ \A want \in Accesses : want \cup {"write"} \in Rights
  BY FuseDriveAssumption DEF Rights
<1>3. PICK n \in AllIds :
        \/ fd_op_getattr(u, n)
        \/ fd_op_opendir(u, n)
        \/ \E off \in {0, 1} : fd_op_readdir(u, n, off)
        \/ \E want \in Accesses : fd_op_open(u, n, want)
        \/ \E op \in {"READ", "WRITE"} : fd_op_transfer(u, n, op)
        \/ \E what \in {"size", "time", "both", "neither"} : fd_op_setattr(u, n, what)
        \/ \E x \in workload.names :
              \/ fd_op_lookup(u, n, x)
              \/ \E want \in Accesses :
                   fd_op_create(u, n, x, "CREATE", want \cup {"write"})
              \/ fd_op_create(u, n, x, "MKNOD", {"read", "write"})
              \/ fd_op_create(u, n, x, "MKDIR", {"read"})
              \/ fd_op_unlink(u, n, x)
              \/ \E q \in AllIds, y \in workload.names : fd_op_rename(u, n, x, q, y)
  BY DEF KernelAsks
<1>4. CASE \E x \in workload.names :
              \/ fd_op_lookup(u, n, x)
              \/ \E want \in Accesses :
                   fd_op_create(u, n, x, "CREATE", want \cup {"write"})
              \/ fd_op_create(u, n, x, "MKNOD", {"read", "write"})
              \/ fd_op_create(u, n, x, "MKDIR", {"read"})
              \/ fd_op_unlink(u, n, x)
              \/ \E q \in AllIds, y \in workload.names : fd_op_rename(u, n, x, q, y)
  BY <1>1, <1>2, <1>4, LookupStep, CreateStep, UnlinkStep, RenameStep
<1> QED
  BY <1>3, <1>4, GetattrStep, OpendirStep, ReaddirStep, OpenStep, TransferStep,
     SetattrStep

(***************************************************************************)
(* Every step.                                                             *)
(***************************************************************************)
LEMMA DriveStep ==
    ASSUME DriveInv, [DriveNext]_<<drive_vars, workload>>
    PROVE  DriveInv'
<1>1. CASE UNCHANGED <<drive_vars, workload>>
  <2>1. /\ UNCHANGED <<nodes, inflight, closes, dircache>>
        /\ UNCHANGED <<asked, kref, kfds, stray>>
        /\ UNCHANGED <<handles, lost, losses>> /\ UNCHANGED workload
    BY <1>1 DEF drive_vars, coreVars, kernelVars, clientVars
  <2>2. Chained(DriveTables)
    BY <2>1 DEF Chained, Become, DriveTables, kernelVars
  <2> QED
    BY <2>1, <2>2, TablesNow, ChainedKeeps
<1>2. ASSUME NEW i \in FlightSlots, fuse_drive_handle_fs_rsp(i), UNCHANGED workload
      PROVE  DriveInv'
  BY <1>2, CompleteOpenStep, ClosedReplyStep, CompleteQueryStep, CompleteSetInfoStep,
     CompleteTransferStep, CompleteUnlinkStep, CompleteRenameStep, CompleteListStep
     DEF fuse_drive_handle_fs_rsp
<1>3. CASE DriveNext
  BY <1>2, <1>3, AskStep, ReleaseStep, ForgetStep, ClosedUnseenStep, AddDeviceStep,
     WorkerLostStep DEF DriveNext
<1> QED
  BY <1>1, <1>3

(***************************************************************************)
(* The invariant that the three results below rest on.                     *)
(***************************************************************************)
THEOREM DriveInvariant == DriveSpec => []DriveInv
<1>1. DriveInit => DriveInv
  BY InitDrive
<1>2. DriveInv /\ [DriveNext]_<<drive_vars, workload>> => DriveInv'
  BY DriveStep
<1> QED
  BY <1>1, <1>2, PTL DEF DriveSpec

(***************************************************************************)
(* fuse_drive.c answers every request of the kernel once, whatever the     *)
(* order of the client's replies and however many chains are under way.    *)
(***************************************************************************)
THEOREM ReplyTheorem == DriveSpec => []OneReply
<1>1. ASSUME DriveInv PROVE OneReply
  <2>1. Answering(inflight, OpenRequests) /\ ~stray
    BY <1>1, TablesNow DEF Good, DriveInv
  <2>2. \A i \in FlightSlots, u \in Uniques : Serves(i, u) <=> Answers(inflight, i, u)
    BY DEF Serves, Answers
  <2> QED
    BY <2>1, <2>2 DEF OneReply, Answering, OpenRequests
<1> QED
  BY <1>1, DriveInvariant, PTL

(***************************************************************************)
(* The handle that a node holds was opened for it, is open, and is not on  *)
(* its way to be closed: until a worker is lost, a request sent on it      *)
(* reaches the file it is meant for.                                       *)
(***************************************************************************)
THEOREM HandleTheorem == DriveSpec => []HandleIsOwn
<1>1. ASSUME DriveInv PROVE HandleIsOwn
  <2>1. /\ losses = 0 => Handling(DriveTables, handles)
        /\ DriveTables.node = nodes /\ DriveTables.flight = inflight
        /\ DriveTables.close = closes
    BY <1>1, TablesNow DEF Good, DriveTables
  <2>2. ASSUME losses = 0, NEW n \in AllIds, HaveNode(n), HaveOpen(n)
        PROVE  handles[nodes[n].file_id] = n /\ ~Closing(nodes[n].file_id)
    <3>1. PICK h \in Fids : h = nodes[n].file_id
      BY <1>1, <2>2, TablesNow DEF NodeRecords, HaveOpen
    <3>2. Holds(DriveTables, n, h)
      BY <2>1, <2>2, <3>1 DEF Holds, HaveNode
    <3>3. handles[h] = n /\ ~ClosingIn(DriveTables, h)
      BY <2>1, <2>2, <3>2 DEF Handling
    <3> QED
      BY <2>1, <3>1, <3>3 DEF Closing, ClosingIn, Closes
  <2> QED
    BY <2>2 DEF HandleIsOwn
<1> QED
  BY <1>1, DriveInvariant, PTL

(***************************************************************************)
(* A listing that is being built has the one LIST that fills it in flight, *)
(* so fd_dircache_claim never runs out of slots for good.                  *)
(***************************************************************************)
THEOREM ListingTheorem == DriveSpec => []ListingsProgress
<1>1. ASSUME DriveInv PROVE ListingsProgress
  <2>1. Listing(inflight, dircache)
    BY <1>1, TablesNow DEF Good
  <2>2. \A i \in FlightSlots, d \in DirSlots : Lists(i, d) <=> Fills(inflight, i, d)
    BY DEF Lists, Fills
  <2> QED
    BY <2>1, <2>2 DEF ListingsProgress, Listing
<1> QED
  BY <1>1, DriveInvariant, PTL
=============================================================================
