----------------------------- MODULE MCServices -----------------------------
(* Small instances of the services.  Nothing orders kernel requests, client *)
(* handles, X owners or applications.                                       *)
EXTENDS Services, TLC

CONSTANTS drv1, drv2, node1, node2, fileA, dirB, own1, own2, app1, app2

-----------------------------------------------------------------------------
(* The remote drive: work on one file, on names of two drives, on listings  *)

Workload(o, d, x, n, r, l) ==
    [ops |-> o, drives |-> d, names |-> x, ids |-> n, refs |-> r, losses |-> l]

FileWork ==
    Workload({"LOOKUP", "GETATTR", "OPEN", "READ", "WRITE", "SETATTR", "RELEASE",
              "FORGET"}, {drv1}, {fileA}, {node1}, 2, 0)
NameWork ==
    Workload({"LOOKUP", "CREATE", "MKNOD", "MKDIR", "UNLINK", "RENAME", "RELEASE",
              "FORGET"}, {drv1, drv2}, {fileA, dirB}, {node1, node2}, 1, 0)
ListWork ==
    Workload({"LOOKUP", "OPENDIR", "READDIR", "UNLINK", "RELEASE", "FORGET"},
             {drv1}, {dirB}, {node1}, 1, 1)
OpenWork ==
    Workload({"LOOKUP", "GETATTR", "OPEN", "READ", "WRITE", "SETATTR", "RELEASE"},
             {drv1}, {fileA}, {node1}, 1, 0)
ReadWork ==
    Workload({"LOOKUP", "OPENDIR", "READDIR", "UNLINK", "RELEASE", "FORGET"},
             {drv1}, {dirB}, {node1}, 1, 0)
MoveWork ==
    Workload({"LOOKUP", "CREATE", "MKNOD", "MKDIR", "RENAME", "RELEASE"},
             {drv1}, {fileA}, {node1}, 1, 0)

DriveWork == {FileWork, NameWork, ListWork}
DriveProgressWork == {OpenWork, ReadWork, MoveWork}
DriveLeakWork == {FileWork}

-----------------------------------------------------------------------------
(* The clipboard: applications paste from the client, the client pastes from *)
(* owners, both                                                              *)

ClipLoad(o, a, p, n, f, r, l) ==
    [owners |-> o, apps |-> a, plain |-> p, copies |-> n, fetches |-> f,
     reads |-> r, losses |-> l]

ClipWork ==
    {ClipLoad({}, {app1, app2}, {TRUE}, 2, 0, 0, 1),
     ClipLoad({own1, own2}, {}, BOOLEAN, 0, 2, 1, 0),
     ClipLoad({own1}, {app1}, {TRUE}, 2, 1, 0, 0)}
ClipProgressWork ==
    {ClipLoad({}, {app1, app2}, {TRUE}, 2, 0, 0, 0),
     ClipLoad({own1}, {app1}, BOOLEAN, 1, 2, 0, 0)}

ClipStaleWork == {ClipLoad({}, {app1, app2}, {TRUE}, 2, 0, 0, 0)}

Entry(n, s, d) == [name |-> n, size |-> s, dir |-> d]

ClipFiles ==
    << << Entry(<<"d">>, 0, TRUE), Entry(<<"d", "..", "x">>, 1, FALSE),
          Entry(<<"d", "f">>, 2, FALSE), Entry(<<"g">>, 1, FALSE) >>,
       << Entry(<<"h">>, 1, FALSE), Entry(<<"k">>, 0, FALSE),
          Entry(<<"l">>, 1, FALSE) >> >>

ClipOwnerFmts == [o \in Owners |-> {"html", "files"}]

-----------------------------------------------------------------------------

Sym == UNION {Permutations(S) : S \in {Uniques, Fids, Owners, Apps}}
=============================================================================
