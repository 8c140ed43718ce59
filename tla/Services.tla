------------------------------ MODULE Services ------------------------------
(***************************************************************************)
(* The parts of the server that share no state, side by side: the login    *)
(* throttle and the services that worker and session relay between client  *)
(* and desktop.  A history of all of them is an interleaving of histories  *)
(* of each, so a behaviour here is of one part and the others stay as they *)
(* began.                                                                  *)
(***************************************************************************)
EXTENDS LoginThrottle, FuseDrive, Clipboard

CONSTANT Parts      \* the parts that are run

VARIABLE part       \* the one of this history

service_vars == <<part, loginVars, drive_vars, workload, clip_vars, clip_load>>

Init ==
    /\ part \in Parts
    /\ LoginInit
    /\ DriveInit /\ (part # "drive" => workload = CHOOSE w \in Workloads : TRUE)
    /\ ClipInit /\ (part # "clipboard" => clip_load = CHOOSE l \in ClipLoads : TRUE)

Others(p) ==
    /\ part = p /\ UNCHANGED part
    /\ p # "logins" => UNCHANGED loginVars
    /\ p # "drive" => UNCHANGED <<drive_vars, workload>>
    /\ p # "clipboard" => UNCHANGED <<clip_vars, clip_load>>

Next ==
    \/ Others("logins") /\ LoginNext
    \/ Others("drive") /\ DriveNext
    \/ Others("clipboard") /\ ClipNext

Spec == Init /\ [][Next]_service_vars

\* Each service is scheduled as its module says.
FairSpec ==
    /\ Spec
    /\ \/ part = "drive" /\ DriveFairness
       \/ part = "clipboard" /\ ClipFairness

\* Types of the services' state, and the limits of their tables: failure counts
\* (handle_auth), nodes and requests (fuse_drive.c), clipboard buffers.
ServicesTypeOK == LoginTypeOK /\ FailsBounded /\ DriveTypeOK /\ ClipTypeOK

=============================================================================
