---------------------------- MODULE MCRdpServer ----------------------------
(***************************************************************************)
(* Instances of the composed server.  All workers report one source        *)
(* address, so workers, connections and sessions are interchangeable.      *)
(***************************************************************************)
EXTENDS RdpServer, TLC

CONSTANTS ip, alice, alias

\* PAM maps one typed name to another account.
MCAuthName == [u \in Users |-> IF u = alias THEN alice ELSE u]

MCClientIP == [w \in Workers |-> ip]

Symmetry ==
    Permutations(Workers) \cup Permutations(Conns) \cup Permutations(Sessions)
============================================================================
