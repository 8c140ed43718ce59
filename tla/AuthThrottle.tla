---------------------------- MODULE AuthThrottle ----------------------------
(***************************************************************************)
(* The per-address login throttle of rdp-sessionmgr (auth_throttle_* and   *)
(* the early rejection in handle_auth).  A fixed table remembers, for each *)
(* source address, how many logins failed since a window was opened.       *)
(*                                                                         *)
(* The operators are functions of the table.  The session manager's module *)
(* uses them in handle_auth; LoginThrottle drives them on their own.       *)
(*                                                                         *)
(* Here and in the other modules a name with a suffix after an underscore, *)
(* such as RateLimited_OneMore, is a faulty variant of the definition that *)
(* follows it.  No specification uses the variants; they are there to show *)
(* that the properties notice the fault.                                   *)
(***************************************************************************)
EXTENDS Integers

CONSTANTS
    IPs,            \* source addresses
    NoIP,           \* the empty string that marks a free entry
    ThrottleMax,    \* AUTH_THROTTLE_MAX, entries in the table
    FailMax,        \* AUTH_FAIL_MAX, failures allowed in a window
    FailWindow,     \* AUTH_FAIL_WINDOW, seconds
    MaxTime         \* bound on the clock

ASSUME ThrottleAssumption ==
    /\ NoIP \notin IPs
    /\ ThrottleMax \in Nat \ {0}
    /\ FailMax \in Nat \ {0}
    /\ FailWindow \in Nat \ {0}
    /\ MaxTime \in Nat

VARIABLES
    auth_throttle,  \* the table
    now             \* time(NULL)

Entries == 1 .. ThrottleMax

EmptyEntry == [ip |-> NoIP, fails |-> 0, window_start |-> 0]

Tables ==
    [Entries -> [ip : IPs \cup {NoIP}, fails : Nat, window_start : Nat]]

(***************************************************************************)
(* auth_throttle_find walks the table from its start: the entries that     *)
(* bear the address, and the first of them.                                *)
(***************************************************************************)
Found(t, ip) == {i \in Entries : t[i].ip = ip}

First(S) == CHOOSE i \in S : \A j \in S : i <= j

(***************************************************************************)
(* The test handle_auth makes before it asks the authentication backend.   *)
(***************************************************************************)
RateLimited_OneMore(t, ip, at) ==
    /\ Found(t, ip) # {}
    /\ LET s == t[First(Found(t, ip))]
       IN  at - s.window_start < FailWindow /\ s.fails > FailMax

RateLimited(t, ip, at) ==
    /\ Found(t, ip) # {}
    /\ LET s == t[First(Found(t, ip))]
       IN  at - s.window_start < FailWindow /\ s.fails >= FailMax

(***************************************************************************)
(* The entry a new address takes: the first free one, else the first with  *)
(* the oldest window.                                                      *)
(***************************************************************************)
Victim(t) ==
    IF Found(t, NoIP) # {}
    THEN First(Found(t, NoIP))
    ELSE First({i \in Entries : \A j \in Entries :
                  t[i].window_start <= t[j].window_start})

auth_throttle_fail_NewEntry(t, ip, at) ==
    LET i == First(Found(t, ip))
    IN  IF Found(t, ip) = {} \/ at - t[i].window_start >= FailWindow
        THEN [t EXCEPT ![Victim(t)] =
                [ip |-> ip, fails |-> 1, window_start |-> at]]
        ELSE [t EXCEPT ![i].fails = @ + 1]

auth_throttle_fail_OldWindow(t, ip, at) ==
    IF Found(t, ip) = {}
    THEN [t EXCEPT ![Victim(t)] =
            [ip |-> ip, fails |-> 1, window_start |-> at]]
    ELSE LET i == First(Found(t, ip))
         IN  IF at - t[i].window_start >= FailWindow
             THEN [t EXCEPT ![i].fails = 1]
             ELSE [t EXCEPT ![i].fails = @ + 1]

auth_throttle_fail(t, ip, at) ==
    IF Found(t, ip) = {}
    THEN [t EXCEPT ![Victim(t)] =
            [ip |-> ip, fails |-> 1, window_start |-> at]]
    ELSE LET i == First(Found(t, ip))
         IN  IF at - t[i].window_start >= FailWindow
             THEN [t EXCEPT ![i].fails = 1, ![i].window_start = at]
             ELSE [t EXCEPT ![i].fails = @ + 1]

auth_throttle_clear_Forgotten(t, ip) == t

auth_throttle_clear(t, ip) ==
    IF Found(t, ip) = {}
    THEN t
    ELSE [t EXCEPT ![First(Found(t, ip))].ip = NoIP]

ThrottleInit ==
    /\ auth_throttle = [i \in Entries |-> EmptyEntry]
    /\ now = 0
============================================================================
