------------------------ MODULE LoginThrottleProofs ------------------------
(***************************************************************************)
(* Proofs about the login throttle, for every table size, threshold and    *)
(* window.                                                                 *)
(***************************************************************************)
EXTENDS LoginThrottle, AuthThrottleProofs, SequenceTheorems, TLAPS

(***************************************************************************)
(* Most leaves are arithmetic: SMT is tried first, then Zenon.             *)
(***************************************************************************)
USE SMTT(30), ZenonT(20)

(***************************************************************************)
(* The history after one more failure: the newest first, none reordered.   *)
(***************************************************************************)
LEMMA NewestFailure ==
    ASSUME NEW h \in Seq(Nat), NEW a \in Nat
    PROVE  LET n == Newest(<<a>> \o h) IN
           /\ n \in Seq(Nat)
           /\ Len(n) = IF Len(h) + 1 <= Budget THEN Len(h) + 1 ELSE Budget
           /\ n[1] = a
           /\ \A j \in 1 .. Len(n) : j >= 2 => n[j] = h[j - 1]
<1>0. Budget \in Nat /\ Budget >= 2
  BY ThrottleAssumption DEF Budget
<1>1. <<a>> \in Seq(Nat) /\ Len(<<a>>) = 1 /\ <<a>>[1] = a
  OBVIOUS
<1>2. PICK k \in Nat : k = Len(h)
  BY LenProperties
<1>3. PICK c \in Seq(Nat) : c = <<a>> \o h
  BY ZenonT(60), <1>1, ConcatProperties
<1>4. Len(c) = k + 1
  BY <1>1, <1>2, <1>3, ConcatProperties
<1>5. \A j \in 1 .. k + 1 : c[j] = IF j <= 1 THEN <<a>>[j] ELSE h[j - 1]
  BY <1>1, <1>2, <1>3, ConcatProperties
<1>6. c[1] = a /\ \A j \in 1 .. k + 1 : j >= 2 => c[j] = h[j - 1]
  BY <1>1, <1>2, <1>5
<1>7. CASE k + 1 <= Budget
  <2>1. Newest(c) = c
    BY <1>4, <1>7 DEF Newest
  <2> QED
    BY ZenonT(60), <1>2, <1>3, <1>4, <1>6, <1>7, <2>1
<1>8. CASE ~(k + 1 <= Budget)
  <2>1. Newest(c) = SubSeq(c, 1, Budget)
    BY ZenonT(60), <1>4, <1>8 DEF Newest
  <2>2. \A j \in 1 .. Budget : j \in 1 .. Len(c)
    BY <1>0, <1>2, <1>4, <1>8
  <2>3. \A j \in 1 .. Budget : c[j] \in Nat
    BY <2>2, ElementOfSeq
  <2>4. /\ Newest(c) \in Seq(Nat)
        /\ Len(Newest(c)) = Budget
        /\ \A j \in 1 .. Budget : Newest(c)[j] = c[j]
    BY <1>0, <2>1, <2>3, SubSeqProperties
  <2>5. Newest(c)[1] = a
    BY <1>0, <1>6, <2>4
  <2>6. \A j \in 1 .. Budget : j >= 2 => Newest(c)[j] = h[j - 1]
    BY <1>4, <1>6, <2>2, <2>4
  <2> QED
    BY ZenonT(60), <1>2, <1>3, <1>8, <2>4, <2>5, <2>6
<1> QED
  BY ZenonT(60), <1>7, <1>8

-----------------------------------------------------------------------------
(***************************************************************************)
(* The inductive invariant.                                                *)
(***************************************************************************)

(***************************************************************************)
(* The login at the backend was not over the threshold when it began, and  *)
(* nothing has touched the table since: the manager serves one at a time.  *)
(***************************************************************************)
BackendAskedFairly ==
    login # NoLogin =>
        /\ login.ip \in IPs
        /\ login.at <= now
        /\ ~RateLimited(auth_throttle, login.ip, login.at)

(***************************************************************************)
(* The time a failure booked next will bear; everything booked is older.   *)
(***************************************************************************)
BookingTime == IF login = NoLogin THEN now ELSE login.at

NothingFromTheFuture ==
    /\ \A i \in Entries : auth_throttle[i].window_start <= BookingTime
    /\ \A ip \in IPs : \A j \in 1 .. Len(failed[ip]) :
         failed[ip][j] <= BookingTime

(***************************************************************************)
(* What an entry e remembers of the history h of its address: its count    *)
(* covers the failures since the window began, the failures before them    *)
(* are not younger than the window, and those AUTH_FAIL_MAX further back   *)
(* are a whole window older.                                               *)
(***************************************************************************)
Remembers(e, h) ==
    /\ e.fails <= Len(h)
    /\ \A j \in 1 .. Len(h) :
         /\ j <= e.fails => h[j] >= e.window_start
         /\ j >= e.fails => h[j] <= e.window_start
         /\ j >= e.fails + FailMax => e.window_start - h[j] >= FailWindow

HistoryRemembered ==
    \A ip \in IPs :
        /\ Found(auth_throttle, ip) = {} => failed[ip] = <<>>
        /\ \A i \in Found(auth_throttle, ip) :
             Remembers(auth_throttle[i], failed[ip])

LoginInv ==
    /\ LoginTypeOK
    /\ OneEntryPerAddress
    /\ FailsBounded
    /\ BackendAskedFairly
    /\ NothingFromTheFuture
    /\ HistoryRemembered

(***************************************************************************)
(* The empty table satisfies the invariant.                                *)
(***************************************************************************)
LEMMA InitInv == LoginInit => LoginInv
<1> SUFFICES ASSUME LoginInit PROVE LoginInv
  OBVIOUS
<1> USE ThrottleAssumption DEF LoginInit, ThrottleInit, EmptyEntry, NoLogin
<1>1. LoginTypeOK
  BY DEF LoginTypeOK, Tables
<1>2. OneEntryPerAddress /\ FailsBounded
  BY DEF OneEntryPerAddress, FailsBounded
<1>3. BackendAskedFairly /\ NothingFromTheFuture
  BY DEF BackendAskedFairly, NothingFromTheFuture, BookingTime
<1>4. HistoryRemembered
  BY ZenonT(60) DEF HistoryRemembered, Found
<1> QED
  BY <1>1, <1>2, <1>3, <1>4 DEF LoginInv

(***************************************************************************)
(* The throttle test of handle_auth preserves it.                          *)
(***************************************************************************)
LEMMA BeginInv ==
    ASSUME LoginInv, NEW ip \in IPs, Begin(ip)
    PROVE  LoginInv'
<1> USE DEF Begin
<1>1. login'.ip = ip /\ login'.at = now /\ now \in Nat
  BY DEF LoginInv, LoginTypeOK
<1>2. LoginTypeOK'
  BY <1>1 DEF LoginInv, LoginTypeOK
<1>3. OneEntryPerAddress' /\ FailsBounded'
  BY DEF LoginInv, OneEntryPerAddress, FailsBounded
<1>4. BackendAskedFairly'
  BY <1>1 DEF BackendAskedFairly, RateLimited, Found
<1>5. NothingFromTheFuture'
  <2>1. BookingTime' = now /\ BookingTime = now
    BY <1>1 DEF BookingTime
  <2> QED
    BY <2>1 DEF LoginInv, NothingFromTheFuture
<1>6. HistoryRemembered'
  BY DEF LoginInv, HistoryRemembered, Remembers, Found
<1> QED
  BY <1>2, <1>3, <1>4, <1>5, <1>6 DEF LoginInv

(***************************************************************************)
(* So does the passing of time, also while the backend is at work.         *)
(***************************************************************************)
LEMMA TickInv ==
    ASSUME LoginInv, Tick
    PROVE  LoginInv'
<1> USE DEF Tick
<1>1. now \in Nat /\ now' \in Nat /\ now < now'
  BY DEF LoginInv, LoginTypeOK
<1>2. LoginTypeOK'
  BY <1>1 DEF LoginInv, LoginTypeOK
<1>3. OneEntryPerAddress' /\ FailsBounded'
  BY DEF LoginInv, OneEntryPerAddress, FailsBounded
<1>4. BackendAskedFairly'
  BY <1>1 DEF LoginInv, LoginTypeOK, BackendAskedFairly, RateLimited, Found
<1>5. NothingFromTheFuture'
  <2>1. BookingTime \in Nat /\ BookingTime' \in Nat /\ BookingTime <= BookingTime'
    BY <1>1 DEF LoginInv, LoginTypeOK, BookingTime
  <2>2. \A i \in Entries : auth_throttle[i].window_start \in Nat
    BY DEF LoginInv, LoginTypeOK, Tables
  <2>3. \A q \in IPs : failed[q] \in Seq(Nat)
    BY DEF LoginInv, LoginTypeOK
  <2>4. \A q \in IPs : \A j \in 1 .. Len(failed[q]) : failed[q][j] \in Nat
    BY <2>3, ElementOfSeq
  <2> QED
    BY <2>1, <2>2, <2>4 DEF LoginInv, NothingFromTheFuture
<1>6. HistoryRemembered'
  BY DEF LoginInv, HistoryRemembered, Remembers, Found
<1> QED
  BY <1>2, <1>3, <1>4, <1>5, <1>6 DEF LoginInv

(***************************************************************************)
(* So does a step of another part of the system.                           *)
(***************************************************************************)
LEMMA StutterInv ==
    ASSUME LoginInv, UNCHANGED loginVars
    PROVE  LoginInv'
  BY DEF LoginInv, loginVars, LoginTypeOK, OneEntryPerAddress, FailsBounded,
         BackendAskedFairly, RateLimited, NothingFromTheFuture, BookingTime,
         HistoryRemembered, Remembers, Found

(***************************************************************************)
(* Facts about a login that is at the backend.                             *)
(***************************************************************************)
LEMMA LoginFacts ==
    ASSUME LoginInv, login # NoLogin
    PROVE  /\ auth_throttle \in Tables
           /\ login.ip \in IPs
           /\ login.at \in Nat
           /\ now \in Nat
           /\ login.at <= now
           /\ BookingTime = login.at
           /\ \A i \in Entries : auth_throttle[i] \in EntryStates
           /\ \A q \in IPs : failed[q] \in Seq(Nat) /\ Len(failed[q]) \in Nat
           /\ \A q \in IPs : \A j \in 1 .. Len(failed[q]) : failed[q][j] \in Nat
<1>1. \A q \in IPs : failed[q] \in Seq(Nat)
  BY DEF LoginInv, LoginTypeOK
<1>2. \A q \in IPs : Len(failed[q]) \in Nat
  BY ZenonT(60), <1>1, LenProperties
<1>3. \A q \in IPs : \A j \in 1 .. Len(failed[q]) : failed[q][j] \in Nat
  BY <1>1, ElementOfSeq
<1>4. \A i \in Entries : auth_throttle[i] \in EntryStates
  BY DEF LoginInv, LoginTypeOK, Tables, EntryStates
<1>5. login.ip \in IPs /\ login.at <= now
  BY DEF LoginInv, BackendAskedFairly
<1> QED
  BY <1>1, <1>2, <1>3, <1>4, <1>5 DEF LoginInv, LoginTypeOK, BookingTime

(***************************************************************************)
(* A successful login, which frees the entry of its address, preserves it. *)
(***************************************************************************)
LEMMA AcceptedInv ==
    ASSUME LoginInv, Accepted
    PROVE  LoginInv'
<1>1. login # NoLogin
  BY DEF Accepted
<1> DEFINE ip == login.ip
           t == auth_throttle
           u == auth_throttle_clear(t, ip)
<1>2. /\ t \in Tables /\ ip \in IPs /\ now \in Nat /\ login.at \in Nat
      /\ login.at <= now /\ BookingTime = login.at
      /\ \A i \in Entries : t[i] \in EntryStates
      /\ \A q \in IPs : failed[q] \in Seq(Nat) /\ Len(failed[q]) \in Nat
      /\ \A q \in IPs : \A j \in 1 .. Len(failed[q]) : failed[q][j] \in Nat
  BY <1>1, LoginFacts
<1>3. /\ auth_throttle' = u
      /\ failed' = [failed EXCEPT ![ip] = <<>>]
      /\ login' = NoLogin
      /\ now' = now
  BY DEF Accepted
<1>4. /\ u \in Tables
      /\ \A j \in Entries :
           /\ u[j].fails = t[j].fails
           /\ u[j].window_start = t[j].window_start
           /\ \/ u[j].ip = t[j].ip /\ (Found(t, ip) # {} => j # First(Found(t, ip)))
              \/ u[j].ip = NoIP /\ t[j].ip = ip /\ j = First(Found(t, ip))
  BY <1>2, ClearFreesEntry
<1>5. ip # NoIP
  BY <1>2, ThrottleAssumption
<1> HIDE DEF u
<1>6. \A j \in Entries : u[j].ip # ip
  <2> SUFFICES ASSUME NEW j \in Entries, u[j].ip = ip PROVE FALSE
    OBVIOUS
  <2>1. t[j].ip = ip /\ j \in Found(t, ip) /\ j # First(Found(t, ip))
    BY <1>4, <1>5 DEF Found
  <2>2. First(Found(t, ip)) \in Found(t, ip)
    BY <2>1, FoundInTable, FirstIsLeast
  <2>3. t[First(Found(t, ip))].ip = t[j].ip /\ First(Found(t, ip)) \in Entries
    BY <2>1, <2>2 DEF Found
  <2> QED
    BY <1>5, <2>1, <2>3 DEF LoginInv, OneEntryPerAddress
<1>7. Found(u, ip) = {}
  BY <1>6 DEF Found
<1>8. \A q \in IPs : q # ip => Found(u, q) = Found(t, q)
  BY ZenonT(60), <1>4, <1>5, ThrottleAssumption DEF Found
<1>9. LoginTypeOK'
  BY <1>2, <1>3, <1>4, EmptySeq, ThrottleAssumption DEF LoginInv, LoginTypeOK, NoLogin
<1>10. OneEntryPerAddress'
  BY <1>3, <1>4 DEF LoginInv, OneEntryPerAddress
<1>11. FailsBounded'
  BY <1>3, <1>4 DEF LoginInv, FailsBounded
<1>12. BackendAskedFairly'
  BY <1>3 DEF BackendAskedFairly
<1>13. NothingFromTheFuture'
  <2>1. BookingTime' = now
    BY <1>3 DEF BookingTime
  <2>2. \A i \in Entries : u[i].window_start <= now
    <3>1. \A i \in Entries : t[i].window_start <= login.at /\ t[i].window_start \in Nat
      BY <1>2 DEF LoginInv, NothingFromTheFuture, EntryStates
    <3> QED
      BY <1>2, <1>4, <3>1
  <2>3. \A q \in IPs : \A j \in 1 .. Len(failed'[q]) : failed'[q][j] <= now
    <3> SUFFICES ASSUME NEW q \in IPs, NEW j \in 1 .. Len(failed'[q])
                 PROVE  failed'[q][j] <= now
      OBVIOUS
    <3>1. failed \in [IPs -> Seq(Nat)]
      BY DEF LoginInv, LoginTypeOK
    <3>2. CASE q = ip
      BY <1>3, <3>1, <3>2, EmptySeq
    <3>3. CASE q # ip
      <4>1. failed'[q] = failed[q]
        BY <1>3, <3>1, <3>3
      <4>2. failed[q][j] <= login.at /\ failed[q][j] \in Nat
        BY <1>2, <4>1 DEF LoginInv, NothingFromTheFuture
      <4> QED
        BY <1>2, <4>1, <4>2
    <3> QED
      BY <3>2, <3>3
  <2> QED
    BY <1>3, <2>1, <2>2, <2>3 DEF NothingFromTheFuture
<1>14. HistoryRemembered'
  <2> SUFFICES ASSUME NEW q \in IPs
               PROVE  /\ Found(u, q) = {} => failed'[q] = <<>>
                      /\ \A i \in Found(u, q) : Remembers(u[i], failed'[q])
    BY <1>3 DEF HistoryRemembered
  <2>1. failed \in [IPs -> Seq(Nat)]
    BY DEF LoginInv, LoginTypeOK
  <2>2. CASE q = ip
    BY <1>3, <1>7, <2>1, <2>2
  <2>3. CASE q # ip
    <3>1. failed'[q] = failed[q]
      BY <1>3, <2>1, <2>3
    <3>2. Found(u, q) = Found(t, q) /\ Found(t, q) \subseteq Entries
      BY <1>8, <2>3, FoundInTable
    <3>3. /\ Found(t, q) = {} => failed[q] = <<>>
          /\ \A i \in Found(t, q) : Remembers(t[i], failed[q])
      BY DEF LoginInv, HistoryRemembered
    <3> QED
      BY <1>4, <3>1, <3>2, <3>3 DEF Remembers
  <2> QED
    BY <2>2, <2>3
<1> QED
  BY <1>9, <1>10, <1>11, <1>12, <1>13, <1>14 DEF LoginInv

(***************************************************************************)
(* How the history an entry remembers grows by one failure, in the three   *)
(* cases of auth_throttle_fail.                                            *)
(***************************************************************************)

(***************************************************************************)
(* The history after one more failure, with its lengths made explicit.     *)
(***************************************************************************)
LEMMA NewestBounds ==
    ASSUME NEW h \in Seq(Nat), NEW a \in Nat
    PROVE  \E k, m \in Nat, n \in Seq(Nat) :
             /\ k = Len(h)
             /\ n = Newest(<<a>> \o h)
             /\ m = Len(n)
             /\ m = IF k + 1 <= Budget THEN k + 1 ELSE Budget
             /\ m >= 1
             /\ n[1] = a
             /\ \A j \in 2 .. m :
                  j - 1 \in 1 .. k /\ h[j - 1] \in Nat /\ n[j] = h[j - 1]
<1>1. PICK k \in Nat : k = Len(h)
  BY LenProperties
<1>2. \A j \in 1 .. k : h[j] \in Nat
  BY <1>1, ElementOfSeq
<1>3. Budget \in Nat /\ Budget >= 2
  BY ThrottleAssumption DEF Budget
<1>4. PICK n : n = Newest(<<a>> \o h)
  OBVIOUS
<1>5. /\ n \in Seq(Nat)
      /\ Len(n) = IF k + 1 <= Budget THEN k + 1 ELSE Budget
      /\ n[1] = a
      /\ \A j \in 1 .. Len(n) : j >= 2 => n[j] = h[j - 1]
  BY ZenonT(60), <1>1, <1>4, NewestFailure
<1>6. PICK m \in Nat : m = Len(n) /\ m = IF k + 1 <= Budget THEN k + 1 ELSE Budget
  BY <1>3, <1>5
<1>7. m >= 1 /\ m <= k + 1
  BY <1>3, <1>6
<1>8. \A j \in 2 .. m : j - 1 \in 1 .. k
  BY <1>7
<1>9. \A j \in 2 .. m : n[j] = h[j - 1]
  BY <1>5, <1>6
<1> QED
  BY <1>1, <1>2, <1>4, <1>5, <1>6, <1>7, <1>8, <1>9, ZenonT(60)

(***************************************************************************)
(* The first failure of an address opens its window.                       *)
(***************************************************************************)
LEMMA RemembersNewEntry ==
    ASSUME NEW h \in Seq(Nat), Len(h) = 0, NEW a \in Nat,
           NEW e \in EntryStates, e.fails = 1, e.window_start = a
    PROVE  Remembers(e, Newest(<<a>> \o h))
<1>1. PICK k, m \in Nat, n \in Seq(Nat) :
        /\ k = Len(h)
        /\ n = Newest(<<a>> \o h)
        /\ m = Len(n)
        /\ m = IF k + 1 <= Budget THEN k + 1 ELSE Budget
        /\ m >= 1
        /\ n[1] = a
        /\ \A j \in 2 .. m :
             j - 1 \in 1 .. k /\ h[j - 1] \in Nat /\ n[j] = h[j - 1]
  BY ZenonT(60), NewestBounds
<1>2. Budget \in Nat /\ Budget >= 2 /\ FailMax \in Nat /\ FailMax >= 1
  BY ThrottleAssumption DEF Budget
<1>3. m = 1
  BY <1>1, <1>2
<1> QED
  BY <1>1, <1>2, <1>3 DEF Remembers

(***************************************************************************)
(* A failure after the window opens a new one: the failures the old entry  *)
(* counted, and all before them, are a window older.                       *)
(***************************************************************************)
LEMMA RemembersNewWindow ==
    ASSUME NEW h \in Seq(Nat), NEW a \in Nat,
           NEW d \in EntryStates, Remembers(d, h), d.fails <= FailMax,
           NEW e \in EntryStates, e.fails = 1, e.window_start = a,
           a - d.window_start >= FailWindow,
           \A j \in 1 .. Len(h) : h[j] <= a
    PROVE  Remembers(e, Newest(<<a>> \o h))
<1>1. PICK k, m \in Nat, n \in Seq(Nat) :
        /\ k = Len(h)
        /\ n = Newest(<<a>> \o h)
        /\ m = Len(n)
        /\ m = IF k + 1 <= Budget THEN k + 1 ELSE Budget
        /\ m >= 1
        /\ n[1] = a
        /\ \A j \in 2 .. m :
             j - 1 \in 1 .. k /\ h[j - 1] \in Nat /\ n[j] = h[j - 1]
  BY ZenonT(60), NewestBounds
<1>2. FailMax >= 1 /\ FailMax \in Nat /\ FailWindow \in Nat
  BY ThrottleAssumption
<1>3. d.fails \in Nat /\ d.window_start \in Nat
  BY DEF EntryStates
<1>4. \A j \in 1 .. k : h[j] <= a /\ (j >= d.fails => h[j] <= d.window_start)
  BY <1>1 DEF Remembers
<1>5. ASSUME NEW j \in 1 .. m
      PROVE  n[j] <= a /\ (j >= 1 + FailMax => a - n[j] >= FailWindow) /\ (j <= 1 => n[j] >= a)
  <2>1. CASE j = 1
    BY <1>1, <1>2, <2>1
  <2>2. CASE j # 1
    <3>1. j \in 2 .. m
      BY <2>2
    <3>2. PICK i \in 1 .. k : i = j - 1 /\ h[i] \in Nat /\ n[j] = h[i]
      BY <1>1, <3>1
    <3>3. h[i] <= a /\ (i >= d.fails => h[i] <= d.window_start)
      BY <1>4
    <3>4. j >= 1 + FailMax => i >= d.fails
      BY <1>2, <1>3, <3>2, SMTT(30)
    <3>5. j >= 1 + FailMax => a - h[i] >= FailWindow
      BY <1>2, <1>3, <3>2, <3>3, <3>4, SMTT(30)
    <3> QED
      BY <2>2, <3>2, <3>3, <3>5
  <2> QED
    BY <2>1, <2>2
<1> QED
  BY ZenonT(60), <1>1, <1>5 DEF Remembers

(***************************************************************************)
(* A failure inside the window is counted in it.                           *)
(***************************************************************************)
LEMMA RemembersOneMore ==
    ASSUME NEW h \in Seq(Nat), NEW a \in Nat,
           NEW d \in EntryStates, Remembers(d, h), d.fails >= 1, d.fails < FailMax,
           NEW e \in EntryStates, e.fails = d.fails + 1,
           e.window_start = d.window_start, d.window_start <= a
    PROVE  Remembers(e, Newest(<<a>> \o h))
<1>1. PICK k, m \in Nat, n \in Seq(Nat) :
        /\ k = Len(h)
        /\ n = Newest(<<a>> \o h)
        /\ m = Len(n)
        /\ m = IF k + 1 <= Budget THEN k + 1 ELSE Budget
        /\ m >= 1
        /\ n[1] = a
        /\ \A j \in 2 .. m :
             j - 1 \in 1 .. k /\ h[j - 1] \in Nat /\ n[j] = h[j - 1]
  BY ZenonT(60), NewestBounds
<1>2. /\ Budget \in Nat /\ Budget >= FailMax
      /\ FailMax \in Nat /\ FailMax >= 1 /\ FailWindow \in Nat
  BY ThrottleAssumption DEF Budget
<1>3. d.fails \in Nat /\ d.window_start \in Nat
  BY DEF EntryStates
<1>4. /\ d.fails <= k
      /\ \A j \in 1 .. k :
           /\ j <= d.fails => h[j] >= d.window_start
           /\ j >= d.fails => h[j] <= d.window_start
           /\ j >= d.fails + FailMax => d.window_start - h[j] >= FailWindow
  BY <1>1 DEF Remembers
<1>5. e.fails <= m
  BY <1>1, <1>2, <1>3, <1>4
<1>6. ASSUME NEW j \in 1 .. m
      PROVE  /\ j <= e.fails => n[j] >= e.window_start
             /\ j >= e.fails => n[j] <= e.window_start
             /\ j >= e.fails + FailMax => e.window_start - n[j] >= FailWindow
  <2>1. CASE j = 1
    BY <1>1, <1>2, <1>3, <2>1
  <2>2. CASE j # 1
    <3>1. j \in 2 .. m
      BY <2>2
    <3>2. PICK i \in 1 .. k : i = j - 1 /\ h[i] \in Nat /\ n[j] = h[i]
      BY <1>1, <3>1
    <3>3. /\ j <= e.fails => i <= d.fails
          /\ j >= e.fails => i >= d.fails
          /\ j >= e.fails + FailMax => i >= d.fails + FailMax
      BY <1>2, <1>3, <3>2, SMTT(30)
    <3> QED
      BY <1>4, <3>2, <3>3
  <2> QED
    BY <2>1, <2>2
<1> QED
  BY ZenonT(60), <1>1, <1>5, <1>6 DEF Remembers

(***************************************************************************)
(* A failed login: the entry it rewrites is the only one of its address,   *)
(* and an address that loses its entry loses its history.                  *)
(***************************************************************************)
LEMMA RefusedInv ==
    ASSUME LoginInv, Refused
    PROVE  LoginInv'
<1>1. login # NoLogin
  BY DEF Refused
<1>2. PICK t \in Tables, ip \in IPs, at \in Nat :
        t = auth_throttle /\ ip = login.ip /\ at = login.at
  BY <1>1, LoginFacts
<1>3. /\ now \in Nat /\ at <= now /\ BookingTime = at
      /\ \A i \in Entries : t[i] \in EntryStates
      /\ \A q \in IPs : failed[q] \in Seq(Nat) /\ Len(failed[q]) \in Nat
      /\ \A q \in IPs : \A j \in 1 .. Len(failed[q]) : failed[q][j] \in Nat
  BY <1>1, <1>2, LoginFacts
<1>4. PICK v \in Entries, e \in EntryStates :
        /\ auth_throttle_fail(t, ip, at) = [t EXCEPT ![v] = e]
        /\ e.ip = ip
        /\ \/ NewEntry(t, v, e, ip, at)
           \/ NewWindow(t, v, e, ip, at)
           \/ OneMore(t, v, e, ip, at)
  BY FailRewritesOneEntry
<1>5. PICK u : u = [t EXCEPT ![v] = e]
  BY ZenonT(60)
<1>6. u \in Tables /\ u[v] = e /\ \A i \in Entries : i # v => u[i] = t[i]
  BY <1>5 DEF Tables, EntryStates
<1>7. /\ auth_throttle' = u
      /\ login' = NoLogin
      /\ now' = now
      /\ failed' = [q \in IPs |->
            IF q = ip THEN Newest(<<at>> \o failed[q])
            ELSE IF Found(u, q) = {} THEN <<>> ELSE failed[q]]
  BY <1>2, <1>4, <1>5 DEF Refused
<1>8. ip # NoIP
  BY ThrottleAssumption
<1>9. \A j \in Entries : t[j].ip = ip => j = v
  <2> SUFFICES ASSUME NEW j \in Entries, t[j].ip = ip PROVE j = v
    OBVIOUS
  <2>1. j \in Found(t, ip)
    BY DEF Found
  <2>2. v \in Found(t, ip)
    BY <1>4, <2>1 DEF NewEntry, NewWindow, OneMore
  <2>3. t[v].ip = ip
    BY <2>2 DEF Found
  <2> QED
    BY <1>2, <1>8, <2>3 DEF LoginInv, OneEntryPerAddress
<1>10. \A i \in Entries : t[i].window_start <= at
  BY <1>2, <1>3 DEF LoginInv, NothingFromTheFuture
<1>11. \A q \in IPs : \A j \in 1 .. Len(failed[q]) : failed[q][j] <= at
  BY <1>3 DEF LoginInv, NothingFromTheFuture
<1>12. v \in Found(t, ip) =>
         /\ t[v].fails \in 1 .. FailMax
         /\ Remembers(t[v], failed[ip])
  <2> SUFFICES ASSUME v \in Found(t, ip)
               PROVE  t[v].fails \in 1 .. FailMax /\ Remembers(t[v], failed[ip])
    OBVIOUS
  <2>1. t[v].ip = ip
    BY DEF Found
  <2> QED
    BY <1>2, <1>8, <2>1 DEF LoginInv, FailsBounded, HistoryRemembered
<1>13. OneMore(t, v, e, ip, at) => t[v].fails < FailMax
  <2> SUFFICES ASSUME OneMore(t, v, e, ip, at) PROVE t[v].fails < FailMax
    OBVIOUS
  <2>1. ~RateLimited(t, ip, at)
    BY <1>1, <1>2 DEF LoginInv, BackendAskedFairly
  <2>2. ~(t[v].fails >= FailMax)
    BY <2>1 DEF RateLimited, OneMore
  <2> QED
    BY <1>3, <2>2, ThrottleAssumption DEF EntryStates
<1>14. e.fails \in 1 .. FailMax /\ e.window_start <= at /\ e.window_start \in Nat
  <2>1. CASE NewEntry(t, v, e, ip, at)
    BY <2>1, ThrottleAssumption DEF NewEntry
  <2>2. CASE NewWindow(t, v, e, ip, at)
    BY <2>2, ThrottleAssumption DEF NewWindow
  <2>3. CASE OneMore(t, v, e, ip, at)
    <3>1. /\ v \in Found(t, ip) /\ e.fails = t[v].fails + 1
          /\ e.window_start = t[v].window_start
      BY <2>3 DEF OneMore
    <3>2. t[v].window_start \in Nat
      BY <1>3 DEF EntryStates
    <3> QED
      BY <1>10, <1>12, <1>13, <2>3, <3>1, <3>2, ThrottleAssumption
  <2> QED
    BY <1>4, <2>1, <2>2, <2>3
<1>15. PICK n \in Seq(Nat) :
         /\ n = Newest(<<at>> \o failed[ip])
         /\ Remembers(e, n)
         /\ \A j \in 1 .. Len(n) : n[j] <= at
  <2>0. PICK h \in Seq(Nat) : h = failed[ip]
    BY <1>3
  <2>1. PICK k, m \in Nat, n \in Seq(Nat) :
          /\ k = Len(h)
          /\ n = Newest(<<at>> \o h)
          /\ m = Len(n)
          /\ m = IF k + 1 <= Budget THEN k + 1 ELSE Budget
          /\ m >= 1
          /\ n[1] = at
          /\ \A j \in 2 .. m :
               j - 1 \in 1 .. k /\ h[j - 1] \in Nat /\ n[j] = h[j - 1]
    BY ZenonT(60), NewestBounds
  <2>2. \A j \in 1 .. Len(n) : n[j] <= at
    <3> SUFFICES ASSUME NEW j \in 1 .. m PROVE n[j] <= at
      BY <2>1
    <3>2. CASE j = 1
      BY <2>1, <3>2
    <3>3. CASE j # 1
      <4>1. j \in 2 .. m
        BY <3>3
      <4> QED
        BY ZenonT(60), <1>11, <2>0, <2>1, <4>1
    <3> QED
      BY <3>2, <3>3
  <2>3. CASE NewEntry(t, v, e, ip, at)
    <3>1. failed[ip] = <<>>
      BY <1>2, <2>3 DEF NewEntry, LoginInv, HistoryRemembered
    <3>2. Len(failed[ip]) = 0
      BY <3>1
    <3>3. Remembers(e, n)
      BY <1>3, <2>0, <2>1, <2>3, <3>2, RemembersNewEntry DEF NewEntry
    <3> QED
      BY <2>0, <2>1, <2>2, <3>3
  <2>4. CASE NewWindow(t, v, e, ip, at)
    <3>1. /\ Remembers(t[v], failed[ip]) /\ t[v].fails <= FailMax
          /\ t[v] \in EntryStates /\ failed[ip] \in Seq(Nat)
          /\ e.fails = 1 /\ e.window_start = at
          /\ at - t[v].window_start >= FailWindow
      BY <1>3, <1>12, <2>4 DEF NewWindow
    <3>2. Remembers(e, n)
      BY ZenonT(60), <1>11, <2>0, <2>1, <3>1, RemembersNewWindow
    <3> QED
      BY <2>0, <2>1, <2>2, <3>2
  <2>5. CASE OneMore(t, v, e, ip, at)
    <3>1. /\ Remembers(t[v], failed[ip]) /\ t[v].fails >= 1 /\ t[v].fails < FailMax
          /\ t[v] \in EntryStates /\ failed[ip] \in Seq(Nat)
          /\ e.fails = t[v].fails + 1 /\ e.window_start = t[v].window_start
          /\ t[v].window_start <= at
      BY <1>3, <1>10, <1>12, <1>13, <2>5 DEF OneMore
    <3>2. Remembers(e, n)
      BY <2>0, <2>1, <3>1, RemembersOneMore
    <3> QED
      BY <2>0, <2>1, <2>2, <3>2
  <2> QED
    BY <1>4, <2>3, <2>4, <2>5
<1>16. /\ failed'[ip] = n
       /\ \A q \in IPs : q # ip =>
            failed'[q] = IF Found(u, q) = {} THEN <<>> ELSE failed[q]
  BY <1>7, <1>15
<1>17. LoginTypeOK'
  <2>1. failed' \in [IPs -> Seq(Nat)]
    BY <1>3, <1>7, <1>15, EmptySeq
  <2> QED
    BY <1>3, <1>6, <1>7, <2>1, ThrottleAssumption DEF LoginTypeOK, NoLogin
<1>18. OneEntryPerAddress'
  <2> SUFFICES ASSUME NEW i \in Entries, NEW j \in Entries, u[i].ip = u[j].ip
               PROVE  i = j \/ u[i].ip = NoIP
    BY <1>7 DEF OneEntryPerAddress
  <2>1. CASE i = v \/ j = v
    BY <1>4, <1>6, <1>9, <2>1
  <2>2. CASE i # v /\ j # v
    BY <1>2, <1>6, <2>2 DEF LoginInv, OneEntryPerAddress
  <2> QED
    BY <2>1, <2>2
<1>19. FailsBounded'
  BY <1>2, <1>6, <1>7, <1>14 DEF LoginInv, FailsBounded
<1>20. BackendAskedFairly'
  BY <1>7 DEF BackendAskedFairly
<1>21. NothingFromTheFuture'
  <2>1. BookingTime' = now
    BY <1>7 DEF BookingTime
  <2>2. \A i \in Entries : u[i].window_start <= now
    <3>1. \A i \in Entries : u[i].window_start <= at /\ u[i].window_start \in Nat
      BY <1>3, <1>6, <1>10, <1>14 DEF EntryStates
    <3> QED
      BY <1>3, <3>1
  <2>3. ASSUME NEW q \in IPs, NEW j \in 1 .. Len(failed'[q])
        PROVE  failed'[q][j] <= now
    <3>1. CASE q = ip
      <4>1. n[j] <= at /\ n[j] \in Nat
        BY <1>15, <1>16, <3>1, ElementOfSeq
      <4> QED
        BY <1>3, <1>16, <3>1, <4>1
    <3>2. CASE q # ip /\ Found(u, q) = {}
      <4>1. failed'[q] = <<>>
        BY <1>16, <3>2
      <4> QED
        BY <4>1, EmptySeq
    <3>3. CASE q # ip /\ Found(u, q) # {}
      <4>1. failed'[q] = failed[q]
        BY <1>16, <3>3
      <4> QED
        BY <1>3, <1>11, <4>1
    <3> QED
      BY <3>1, <3>2, <3>3
  <2> QED
    BY <1>7, <2>1, <2>2, <2>3 DEF NothingFromTheFuture
<1>22. HistoryRemembered'
  <2> SUFFICES ASSUME NEW q \in IPs
               PROVE  /\ Found(u, q) = {} => failed'[q] = <<>>
                      /\ \A i \in Found(u, q) : Remembers(u[i], failed'[q])
    BY <1>7 DEF HistoryRemembered
  <2>1. CASE q = ip
    <3>1. Found(u, ip) = {v}
      BY <1>4, <1>6, <1>9 DEF Found
    <3> QED
      BY <1>6, <1>15, <1>16, <2>1, <3>1
  <2>2. CASE q # ip
    <3>1. \A i \in Found(u, q) : i \in Found(t, q) /\ u[i] = t[i]
      BY <1>4, <1>6, <2>2 DEF Found
    <3>2. \A i \in Found(t, q) : Remembers(t[i], failed[q])
      BY <1>2 DEF LoginInv, HistoryRemembered
    <3> QED
      BY <1>16, <2>2, <3>1, <3>2
  <2> QED
    BY <2>1, <2>2
<1> QED
  BY <1>17, <1>18, <1>19, <1>20, <1>21, <1>22 DEF LoginInv

-----------------------------------------------------------------------------
(***************************************************************************)
(* The theorems.                                                           *)
(***************************************************************************)

(***************************************************************************)
(* The inductive invariant holds in every reachable state of handle_auth's *)
(* throttle, for every table size, threshold, window and set of addresses. *)
(***************************************************************************)
THEOREM LoginInvariant == LoginSpec => []LoginInv
<1>1. LoginInit => LoginInv
  BY InitInv
<1>2. LoginInv /\ [LoginNext]_loginVars => LoginInv'
  BY BeginInv, AcceptedInv, RefusedInv, TickInv, StutterInv DEF LoginNext
<1> QED
  BY <1>1, <1>2, PTL DEF LoginSpec

(***************************************************************************)
(* The throttle's variables always have their types.                       *)
(***************************************************************************)
THEOREM LoginTyped == LoginSpec => []LoginTypeOK
<1>1. LoginInv => LoginTypeOK
  BY DEF LoginInv
<1> QED
  BY <1>1, LoginInvariant, PTL

(***************************************************************************)
(* No address ever has two entries, so auth_throttle_find sees all its     *)
(* failures.                                                               *)
(***************************************************************************)
THEOREM OneEntry == LoginSpec => []OneEntryPerAddress
<1>1. LoginInv => OneEntryPerAddress
  BY DEF LoginInv
<1> QED
  BY <1>1, LoginInvariant, PTL

(***************************************************************************)
(* No entry counts beyond AUTH_FAIL_MAX.                                   *)
(***************************************************************************)
THEOREM CountBounded == LoginSpec => []FailsBounded
<1>1. LoginInv => FailsBounded
  BY DEF LoginInv
<1> QED
  BY <1>1, LoginInvariant, PTL

(***************************************************************************)
(* While an address keeps its entry, any 2 * AUTH_FAIL_MAX consecutive     *)
(* failures of it that reached the backend span at least AUTH_FAIL_WINDOW. *)
(***************************************************************************)
THEOREM BudgetKept == LoginSpec => []BackendBudget
<1>1. LoginInv => BackendBudget
  <2> SUFFICES ASSUME LoginInv, NEW ip \in IPs, Len(failed[ip]) = Budget
               PROVE  failed[ip][1] - failed[ip][Budget] >= FailWindow
    BY DEF BackendBudget
  <2>1. /\ Budget \in Nat /\ Budget = FailMax + FailMax
        /\ FailMax \in Nat /\ FailMax >= 1 /\ FailWindow \in Nat
    BY ThrottleAssumption DEF Budget
  <2>2. failed[ip] \in Seq(Nat)
    BY DEF LoginInv, LoginTypeOK
  <2>3. failed[ip] # <<>>
    BY <2>1
  <2>4. PICK i \in Found(auth_throttle, ip) : TRUE
    BY <2>3 DEF LoginInv, HistoryRemembered
  <2>5. i \in Entries /\ auth_throttle[i].ip = ip /\ ip # NoIP
    BY ThrottleAssumption DEF Found
  <2>6. PICK k \in Nat, w \in Nat :
          k = auth_throttle[i].fails /\ w = auth_throttle[i].window_start
    BY <2>5 DEF LoginInv, LoginTypeOK, Tables
  <2>7. k >= 1 /\ k <= FailMax
    BY <2>1, <2>5, <2>6 DEF LoginInv, FailsBounded
  <2>8. 1 \in 1 .. Len(failed[ip]) /\ Budget \in 1 .. Len(failed[ip])
    BY <2>1
  <2>9. failed[ip][1] \in Nat /\ failed[ip][Budget] \in Nat
    BY <2>2, <2>8, ElementOfSeq
  <2>10. Remembers(auth_throttle[i], failed[ip])
    BY <2>4 DEF LoginInv, HistoryRemembered
  <2>11. failed[ip][1] >= w
    BY <2>6, <2>7, <2>8, <2>10 DEF Remembers
  <2>12. w - failed[ip][Budget] >= FailWindow
    BY <2>1, <2>6, <2>7, <2>8, <2>10 DEF Remembers
  <2> QED
    BY <2>1, <2>6, <2>9, <2>11, <2>12, SMTT(30)
<1> QED
  BY <1>1, LoginInvariant, PTL

(***************************************************************************)
(* An address that handle_auth turns away has failed AUTH_FAIL_MAX times   *)
(* within the last AUTH_FAIL_WINDOW seconds.                               *)
(***************************************************************************)
THEOREM CauseGiven == LoginSpec => []LimitedForCause
<1>1. LoginInv => LimitedForCause
  <2> SUFFICES ASSUME LoginInv, NEW ip \in IPs, RateLimited(auth_throttle, ip, now)
               PROVE  /\ Len(failed[ip]) >= FailMax
                      /\ now - failed[ip][FailMax] < FailWindow
    BY DEF LimitedForCause
  <2>1. FailMax \in Nat /\ FailMax >= 1 /\ FailWindow \in Nat
    BY ThrottleAssumption
  <2>2. failed[ip] \in Seq(Nat) /\ now \in Nat
    BY DEF LoginInv, LoginTypeOK
  <2>3. PICK i \in Found(auth_throttle, ip) :
          /\ now - auth_throttle[i].window_start < FailWindow
          /\ auth_throttle[i].fails >= FailMax
    BY FoundInTable, FirstIsLeast DEF RateLimited
  <2>4. i \in Entries /\ auth_throttle[i].ip = ip /\ ip # NoIP
    BY ThrottleAssumption DEF Found
  <2>5. PICK k \in Nat, w \in Nat :
          k = auth_throttle[i].fails /\ w = auth_throttle[i].window_start
    BY <2>4 DEF LoginInv, LoginTypeOK, Tables
  <2>6. k = FailMax
    BY <2>1, <2>3, <2>4, <2>5 DEF LoginInv, FailsBounded
  <2>7. Remembers(auth_throttle[i], failed[ip])
    BY <2>3 DEF LoginInv, HistoryRemembered
  <2>8. PICK l \in Nat : l = Len(failed[ip])
    BY <2>2, LenProperties
  <2>9. FailMax <= l
    BY <2>5, <2>6, <2>7, <2>8 DEF Remembers
  <2>10. FailMax \in 1 .. Len(failed[ip])
    BY <2>1, <2>8, <2>9
  <2>11. failed[ip][FailMax] \in Nat
    BY <2>2, <2>10, ElementOfSeq
  <2>12. failed[ip][FailMax] >= w
    BY <2>5, <2>6, <2>7, <2>10 DEF Remembers
  <2> QED
    BY <2>1, <2>2, <2>3, <2>5, <2>8, <2>9, <2>11, <2>12, SMTT(30)
<1> QED
  BY <1>1, LoginInvariant, PTL
============================================================================
