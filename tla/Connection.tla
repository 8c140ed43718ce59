----------------------------- MODULE Connection -----------------------------
(***************************************************************************)
(* The parts of one connection, side by side as in Services: its start,    *)
(* the channels and devices that the client redirects, the frames that     *)
(* bring the desktop to its screen, the caches that shorten them and the   *)
(* coders.  They share no state the modules speak of, so a behaviour is of *)
(* one part.                                                               *)
(***************************************************************************)
EXTENDS ConnSequence, DynChannels, Devices, FramePipe, TileCache, Codecs

CONSTANT Parts      \* the parts that are run

VARIABLE part       \* the one of this history

connection_vars ==
    <<part, conn_vars, cn_load, chan_vars, chan_load, dev_vars, dr_load,
      pipe_vars, pipe_load, tile_vars, tc_load, codec_vars, cd_load>>

Init ==
    /\ part \in Parts
    /\ ConnInit /\ (part # "connect" => cn_load = CHOOSE l \in ConnLoads : TRUE)
    /\ ChanInit /\ (part # "channels" => chan_load = CHOOSE l \in ChanLoads : TRUE)
    /\ DevInit /\ (part # "devices" => dr_load = CHOOSE l \in DevLoads : TRUE)
    /\ PipeInit /\ (part # "frames" => pipe_load = CHOOSE l \in PipeLoads : TRUE)
    /\ TileInit /\ (part # "tiles" => tc_load = CHOOSE l \in TileLoads : TRUE)
    /\ CodecInit /\ (part # "codecs" => cd_load = CHOOSE l \in CodecLoads : TRUE)

Others(p) ==
    /\ part = p /\ UNCHANGED part
    /\ p # "connect" => UNCHANGED <<conn_vars, cn_load>>
    /\ p # "channels" => UNCHANGED <<chan_vars, chan_load>>
    /\ p # "devices" => UNCHANGED <<dev_vars, dr_load>>
    /\ p # "frames" => UNCHANGED <<pipe_vars, pipe_load>>
    /\ p # "tiles" => UNCHANGED <<tile_vars, tc_load>>
    /\ p # "codecs" => UNCHANGED <<codec_vars, cd_load>>

Next ==
    \/ Others("connect") /\ ConnNext
    \/ Others("channels") /\ ChanNext
    \/ Others("devices") /\ DevNext
    \/ Others("frames") /\ PipeNext
    \/ Others("tiles") /\ TileNext
    \/ Others("codecs") /\ CodecNext

Spec == Init /\ [][Next]_connection_vars

\* Each part is scheduled as its module says.
FairSpec ==
    /\ Spec
    /\ \/ part = "connect" /\ ConnFairness
       \/ part = "channels" /\ ChanFairness
       \/ part = "devices" /\ DevFairness
       \/ part = "frames" /\ PipeFairness

\* Types of the state of every part, and the limits of their tables.
ConnectionTypeOK == ConnTypeOK /\ ChanTypeOK /\ DevTypeOK /\ PipeTypeOK /\ TileTypeOK

=============================================================================
