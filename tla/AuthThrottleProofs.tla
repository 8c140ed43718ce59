------------------------- MODULE AuthThrottleProofs -------------------------
(***************************************************************************)
(* Facts about the operations on the throttle table, for every table size, *)
(* threshold and window.                                                   *)
(***************************************************************************)
EXTENDS AuthThrottle, WellFoundedInduction, TLAPS

(***************************************************************************)
(* Most leaves are arithmetic: SMT is tried first, then Zenon.             *)
(***************************************************************************)
USE SMTT(30), ZenonT(20)

-----------------------------------------------------------------------------
(***************************************************************************)
(* The linear searches of auth_throttle_find and auth_throttle_fail.       *)
(***************************************************************************)

(***************************************************************************)
(* A set of natural numbers that is not empty has a least element.         *)
(***************************************************************************)
LEMMA LeastNatural ==
    ASSUME NEW S, S \subseteq Nat, S # {}
    PROVE  \E x \in S : \A y \in S : x <= y
<1>1. PICK x \in S : \A y \in S : ~(<<y, x>> \in OpToRel(<, Nat))
  BY ZenonT(60), WFMin, NatLessThanWellFounded
<1>2. \A y \in S : ~(y < x)
  BY ZenonT(60), <1>1 DEF OpToRel
<1> QED
  BY <1>2

(***************************************************************************)
(* The first of a set of indices, where a linear search ends, is in it.    *)
(***************************************************************************)
LEMMA FirstInSet ==
    ASSUME NEW S, S \subseteq Nat, S # {}
    PROVE  First(S) \in S
<1>1. \E i \in S : \A j \in S : i <= j
  BY ZenonT(60), LeastNatural
<1> QED
  BY ZenonT(60), <1>1 DEF First

(***************************************************************************)
(* The same for the entries of the table.                                  *)
(***************************************************************************)
LEMMA FirstIsLeast ==
    ASSUME NEW S, S \subseteq Entries, S # {}
    PROVE  First(S) \in S
<1>1. S \subseteq Nat
  BY DEF Entries
<1> QED
  BY ZenonT(60), <1>1, FirstInSet

(***************************************************************************)
(* auth_throttle_find looks at the entries of the table only.              *)
(***************************************************************************)
LEMMA FoundInTable ==
    ASSUME NEW t, NEW ip
    PROVE  Found(t, ip) \subseteq Entries
  BY DEF Found

(***************************************************************************)
(* A failing address always finds an entry to take.                        *)
(***************************************************************************)
LEMMA VictimInTable ==
    ASSUME NEW t \in Tables
    PROVE  Victim(t) \in Entries
<1>1. CASE Found(t, NoIP) # {}
  BY <1>1, FoundInTable, FirstIsLeast DEF Victim
<1>2. CASE Found(t, NoIP) = {}
  <2> DEFINE W == {t[i].window_start : i \in Entries}
             Oldest == {i \in Entries : \A j \in Entries :
                          t[i].window_start <= t[j].window_start}
  <2>1. W \subseteq Nat
    BY DEF Tables
  <2>2. 1 \in Entries
    BY ThrottleAssumption DEF Entries
  <2>3. W # {}
    BY <2>2
  <2>4. PICK x \in W : \A y \in W : x <= y
    BY ZenonT(60), <2>1, <2>3, LeastNatural
  <2>5. PICK i \in Entries : x = t[i].window_start
    BY <2>4
  <2>6. i \in Oldest
    BY <2>4, <2>5
  <2>7. First(Oldest) \in Oldest
    BY <2>6, FirstIsLeast
  <2> QED
    BY <1>2, <2>7 DEF Victim
<1> QED
  BY <1>1, <1>2

(***************************************************************************)
(* What auth_throttle_fail does to the table: it rewrites one entry, which *)
(* then bears the address, in one of three ways.                           *)
(***************************************************************************)
NewEntry(t, v, e, ip, at) ==
    Found(t, ip) = {} /\ e.fails = 1 /\ e.window_start = at

NewWindow(t, v, e, ip, at) ==
    /\ v \in Found(t, ip)
    /\ at - t[v].window_start >= FailWindow
    /\ e.fails = 1 /\ e.window_start = at

OneMore(t, v, e, ip, at) ==
    /\ v = First(Found(t, ip)) /\ v \in Found(t, ip)
    /\ at - t[v].window_start < FailWindow
    /\ e.fails = t[v].fails + 1 /\ e.window_start = t[v].window_start

EntryStates == [ip : IPs \cup {NoIP}, fails : Nat, window_start : Nat]

(***************************************************************************)
(* auth_throttle_fail rewrites one entry, in one of the three ways above.  *)
(***************************************************************************)
LEMMA FailRewritesOneEntry ==
    ASSUME NEW t \in Tables, NEW ip \in IPs, NEW at \in Nat
    PROVE  \E v \in Entries, e \in EntryStates :
             /\ auth_throttle_fail(t, ip, at) = [t EXCEPT ![v] = e]
             /\ e.ip = ip
             /\ \/ NewEntry(t, v, e, ip, at)
                \/ NewWindow(t, v, e, ip, at)
                \/ OneMore(t, v, e, ip, at)
<1>1. CASE Found(t, ip) = {}
  <2> DEFINE e == [ip |-> ip, fails |-> 1, window_start |-> at]
  <2>1. e \in EntryStates /\ e.ip = ip
    BY DEF EntryStates
  <2>2. auth_throttle_fail(t, ip, at) = [t EXCEPT ![Victim(t)] = e]
    BY <1>1 DEF auth_throttle_fail
  <2>3. NewEntry(t, Victim(t), e, ip, at)
    BY <1>1 DEF NewEntry
  <2> QED
    BY ZenonT(60), <2>1, <2>2, <2>3, VictimInTable
<1>2. CASE Found(t, ip) # {}
  <2> DEFINE i == First(Found(t, ip))
  <2>1. i \in Found(t, ip)
    BY <1>2, FoundInTable, FirstIsLeast
  <2>2. i \in Entries /\ t[i].ip = ip
    BY <2>1 DEF Found
  <2>3. t[i] \in EntryStates
    BY <2>2 DEF Tables, EntryStates
  <2> HIDE DEF i
  <2>4. CASE at - t[i].window_start >= FailWindow
    <3> DEFINE e == [ip |-> ip, fails |-> 1, window_start |-> at]
    <3>1. auth_throttle_fail(t, ip, at) =
            [t EXCEPT ![i].fails = 1, ![i].window_start = at]
      BY <1>2, <2>4 DEF auth_throttle_fail, i
    <3>2. auth_throttle_fail(t, ip, at) = [t EXCEPT ![i] = e]
      BY ZenonT(60), <3>1, <2>2, <2>3 DEF Tables, EntryStates
    <3>3. e \in EntryStates /\ e.ip = ip
      BY DEF EntryStates
    <3>4. NewWindow(t, i, e, ip, at)
      BY <2>1, <2>4 DEF NewWindow
    <3> QED
      BY ZenonT(60), <2>2, <3>2, <3>3, <3>4
  <2>5. CASE ~(at - t[i].window_start >= FailWindow)
    <3> DEFINE e == [ip |-> ip, fails |-> t[i].fails + 1,
                     window_start |-> t[i].window_start]
    <3>1. auth_throttle_fail(t, ip, at) = [t EXCEPT ![i].fails = @ + 1]
      BY <1>2, <2>5 DEF auth_throttle_fail, i
    <3>2. auth_throttle_fail(t, ip, at) = [t EXCEPT ![i] = e]
      BY ZenonT(60), <3>1, <2>2, <2>3 DEF Tables, EntryStates
    <3>3. e \in EntryStates /\ e.ip = ip
      BY <2>3 DEF EntryStates
    <3>4. at - t[i].window_start < FailWindow
      BY <2>3, <2>5, ThrottleAssumption DEF EntryStates
    <3>5. OneMore(t, i, e, ip, at)
      BY <2>1, <3>4 DEF OneMore, i
    <3> QED
      BY ZenonT(60), <2>2, <3>2, <3>3, <3>5
  <2> QED
    BY <2>4, <2>5
<1> QED
  BY <1>1, <1>2

(***************************************************************************)
(* What auth_throttle_clear does: it frees the one entry of the address.   *)
(***************************************************************************)
LEMMA ClearFreesEntry ==
    ASSUME NEW t \in Tables, NEW ip \in IPs
    PROVE  /\ auth_throttle_clear(t, ip) \in Tables
           /\ \A j \in Entries :
                LET u == auth_throttle_clear(t, ip) IN
                /\ u[j].fails = t[j].fails
                /\ u[j].window_start = t[j].window_start
                /\ \/ u[j].ip = t[j].ip /\ (Found(t, ip) # {} => j # First(Found(t, ip)))
                   \/ u[j].ip = NoIP /\ t[j].ip = ip /\ j = First(Found(t, ip))
<1>1. CASE Found(t, ip) = {}
  BY <1>1 DEF auth_throttle_clear
<1>2. CASE Found(t, ip) # {}
  <2> DEFINE i == First(Found(t, ip))
  <2>1. i \in Entries /\ t[i].ip = ip
    BY <1>2, FoundInTable, FirstIsLeast DEF Found
  <2>2. auth_throttle_clear(t, ip) = [t EXCEPT ![i].ip = NoIP]
    BY <1>2 DEF auth_throttle_clear
  <2> HIDE DEF i
  <2>3. \A j \in Entries : t[j] \in EntryStates
    BY DEF Tables, EntryStates
  <2>4. auth_throttle_clear(t, ip) \in Tables
    BY <2>1, <2>2, <2>3 DEF Tables, EntryStates
  <2> QED
    BY <2>1, <2>2, <2>3, <2>4 DEF Tables, EntryStates, i
<1> QED
  BY <1>1, <1>2
=============================================================================
