---------------------------- MODULE LoginThrottle ----------------------------
(***************************************************************************)
(* The login throttle under any sequence of logins.  rdp-sessionmgr serves *)
(* one request at a time: it reads the clock, tests the throttle, asks the *)
(* authentication backend, which may take long, and then books the result  *)
(* under the time read at the start.                                       *)
(***************************************************************************)
EXTENDS AuthThrottle, Sequences

VARIABLES
    login,      \* the login at the authentication backend, or NoLogin
    failed      \* history: per address, when the failures since its last
                \* success or eviction were attempted, newest first

loginVars == <<auth_throttle, now, login, failed>>

NoLogin == [ip |-> NoIP, at |-> 0]

(***************************************************************************)
(* History worth keeping for the properties below.                         *)
(***************************************************************************)
Budget == 2 * FailMax

Newest(s) == IF Len(s) <= Budget THEN s ELSE SubSeq(s, 1, Budget)

(***************************************************************************)
(* handle_auth up to the call of rdp_auth_user: the backend is asked only  *)
(* when the address is not over the threshold.                             *)
(***************************************************************************)
Begin_WindowTime(ip) ==
    /\ login = NoLogin
    /\ ~RateLimited(auth_throttle, ip, now)
    /\ login' = [ip |-> ip, at |-> now - FailWindow]
    /\ UNCHANGED <<auth_throttle, now, failed>>

Begin(ip) ==
    /\ login = NoLogin
    /\ ~RateLimited(auth_throttle, ip, now)
    /\ login' = [ip |-> ip, at |-> now]
    /\ UNCHANGED <<auth_throttle, now, failed>>

(***************************************************************************)
(* The backend accepts.                                                    *)
(***************************************************************************)
Accepted ==
    /\ login # NoLogin
    /\ auth_throttle' = auth_throttle_clear(auth_throttle, login.ip)
    /\ failed' = [failed EXCEPT ![login.ip] = <<>>]
    /\ login' = NoLogin
    /\ UNCHANGED now

(***************************************************************************)
(* The backend refuses.  An address that loses its entry to this one loses *)
(* its history with it.                                                    *)
(***************************************************************************)
Refused ==
    /\ login # NoLogin
    /\ auth_throttle' = auth_throttle_fail(auth_throttle, login.ip, login.at)
    /\ failed' = [ip \in IPs |->
                    IF ip = login.ip
                    THEN Newest(<<login.at>> \o failed[ip])
                    ELSE IF Found(auth_throttle', ip) = {}
                         THEN <<>>
                         ELSE failed[ip]]
    /\ login' = NoLogin
    /\ UNCHANGED now

Tick ==
    /\ now < MaxTime
    /\ now' = now + 1
    /\ UNCHANGED <<auth_throttle, login, failed>>

LoginInit ==
    /\ ThrottleInit
    /\ login = NoLogin
    /\ failed = [ip \in IPs |-> <<>>]

LoginNext ==
    \/ \E ip \in IPs : Begin(ip)
    \/ Accepted
    \/ Refused
    \/ Tick

LoginSpec == LoginInit /\ [][LoginNext]_loginVars

-----------------------------------------------------------------------------

(***************************************************************************)
(* Types of the table, the clock and the login in progress.                *)
(***************************************************************************)
LoginTypeOK ==
    /\ auth_throttle \in Tables
    /\ now \in Nat
    /\ login \in [ip : IPs \cup {NoIP}, at : Nat]
    /\ failed \in [IPs -> Seq(Nat)]

(***************************************************************************)
(* auth_throttle_find stops at the first entry of an address, so an        *)
(* address with two entries would be counted in one and tested in another: *)
(* eviction, clearing and reuse never give an address a second entry.      *)
(***************************************************************************)
OneEntryPerAddress ==
    \A i, j \in Entries :
        auth_throttle[i].ip = auth_throttle[j].ip
            => i = j \/ auth_throttle[i].ip = NoIP

(***************************************************************************)
(* The test before the backend and the count after it work together: no    *)
(* entry in use ever counts more than AUTH_FAIL_MAX failures.              *)
(***************************************************************************)
FailsBounded ==
    \A i \in Entries :
        auth_throttle[i].ip # NoIP => auth_throttle[i].fails \in 1 .. FailMax

(***************************************************************************)
(* What the window promises although it does not slide: while an address   *)
(* keeps its entry the backend sees fewer than 2 * AUTH_FAIL_MAX failed    *)
(* logins of it in any AUTH_FAIL_WINDOW seconds.                           *)
(***************************************************************************)
BackendBudget ==
    \A ip \in IPs :
        Len(failed[ip]) = Budget
            => failed[ip][1] - failed[ip][Budget] >= FailWindow

(***************************************************************************)
(* An address is turned away only for cause, and no longer than the        *)
(* window: its last AUTH_FAIL_MAX failures all lie in the last             *)
(* AUTH_FAIL_WINDOW seconds.                                               *)
(***************************************************************************)
LimitedForCause ==
    \A ip \in IPs :
        RateLimited(auth_throttle, ip, now)
            => /\ Len(failed[ip]) >= FailMax
               /\ now - failed[ip][FailMax] < FailWindow

=============================================================================
