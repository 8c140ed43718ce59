------------------------- MODULE RdpServerTheorems --------------------------
(***************************************************************************)
(* The theorems about workers and session manager that rest on more than   *)
(* one of their invariants: a session is in one hand, is opened by its own *)
(* cookie and its own account only, and has one owner at a time.           *)
(***************************************************************************)
EXTENDS RdpServerProofs, HandoverProofs, AccessProofs

(***************************************************************************)
(* Most leaves are first-order: Zenon is tried first, then SMT.            *)
(***************************************************************************)
USE ZenonT(5), SMTT(90)

(***************************************************************************)
(* Every session is in one hand at a time: of the workers that proxy it,   *)
(* the messages that carry its descriptor, the suspend slots, the handler  *)
(* at work and the duplicate kept for an unanswered SPAWN at most one has  *)
(* it, whoever crashes and whatever is lost.                               *)
(***************************************************************************)
THEOREM OneHolder == Spec => []Exclusive
<1>1. CommInv /\ Exclusive /\ [Next]_vars => Exclusive'
  BY ExclusiveStep
<1> QED
  BY <1>1, InitExclusive, CommInvariant, PTL DEF Spec

(***************************************************************************)
(* No second client reaches a session that is proxied: the holder of the   *)
(* descriptor is the proxy, so it is neither another worker nor a message, *)
(* a slot or the handler.                                                  *)
(***************************************************************************)
THEOREM ProxyIsSole == Spec => []SoleProxy
<1>1. CommInv /\ Exclusive => SoleProxy
  BY HolderIsSole
<1> QED
  BY <1>1, CommInvariant, OneHolder, PTL

(***************************************************************************)
(* No session is suspended twice, so the first RESUME that takes it leaves *)
(* nothing for a second one.                                               *)
(***************************************************************************)
THEOREM OneSlot == Spec => []SuspendedOnce
<1>1. CommInv /\ Exclusive => SuspendedOnce
  BY HolderSlot
<1> QED
  BY <1>1, CommInvariant, OneHolder, PTL

(***************************************************************************)
(* Whatever carries a cookie carries it with the session it was issued     *)
(* for: the SUSPEND and RESUME requests, the slots, the handler of RESUME  *)
(* and its reply.                                                          *)
(***************************************************************************)
THEOREM CookieInvariant == Spec => []CookieInv
<1>1. CommInv /\ CookieInv /\ [Next]_vars => CookieInv'
  BY CookieStep
<1> QED
  BY <1>1, InitCookie, CommInvariant, PTL DEF Spec

(***************************************************************************)
(* A client that reconnects proxies the session its cookie was issued for, *)
(* however sessions were suspended, resumed and expired in between and     *)
(* even when logon ids collide.                                            *)
(***************************************************************************)
THEOREM CookieTheorem == Spec => []CookieOpensItsSession
<1>1. CookieInv => CookieOpensItsSession
  BY DEF CookieInv, OpensAt, CookieOpensItsSession
<1> QED
  BY <1>1, CookieInvariant, PTL

(***************************************************************************)
(* A login leads to a session of the account that logged in, and never to  *)
(* one of an account that handle_spawn refuses, however the manager's      *)
(* clients come, go and are dropped.                                       *)
(***************************************************************************)
THEOREM LoginTheorem == Spec => []LoginGetsOwnSession
<1>1. CommInv /\ Exclusive /\ CookieInv /\ AccountInv /\ [Next]_vars => AccountInv'
  BY AccountStep
<1>2. AccountInv => LoginGetsOwnSession
  BY DEF AccountInv, OwnAt, LoginGetsOwnSession
<1> QED
  BY <1>1, <1>2, InitAccount, CommInvariant, OneHolder, CookieInvariant, PTL DEF Spec

(***************************************************************************)
(* At the start no session has been forked.                                *)
(***************************************************************************)
LEMMA InitOwner == Init => Owner!Init
<1> SUFFICES ASSUME Init PROVE Owner!Init
  OBVIOUS
<1>1. OwnersSeen
  BY InitComm, InitExclusive, HoldersTell
<1>2. \A s \in Sessions : monitor[s] = "unborn"
  BY DEF Init, MgrInit
<1>3. \A s \in Sessions : OwnerOf(s) = Owner!Unborn
  BY <1>1, <1>2 DEF OwnersSeen, OwnerSeen
<1> QED
  BY <1>3 DEF Owner!Init

(***************************************************************************)
(* The protocol between the workers and the manager implements             *)
(* SessionOwner, for any number of workers, sessions, connections and      *)
(* slots: with its messages in flight, its refused and lost answers, its   *)
(* crashes and its sweeps, a session has one owner at a time and passes to *)
(* another worker only by the cookie it is parked under.                   *)
(***************************************************************************)
THEOREM OwnerTheorem == Spec => OneOwnerAtATime
<1>1. CommInv /\ CommInv' /\ CookieInv /\ Exclusive /\ Exclusive' /\ [Next]_vars
      => [Owner!Next]_([s \in Sessions |-> OwnerOf(s)])
  BY OwnerStep
<1> QED
  BY <1>1, InitOwner, CommInvariant, OneHolder, CookieInvariant, PTL
     DEF Spec, OneOwnerAtATime, Owner!Spec
=============================================================================
