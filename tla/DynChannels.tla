---------------------------- MODULE DynChannels ----------------------------
(***************************************************************************)
(* The dynamic virtual channels of a connection (channels/drdynvc.c and    *)
(* its dispatch in daemon/conn.c) with the services that run over them:    *)
(* the microphone (sndin.c, session/mic.c), touch input (rdpei.c and its   *)
(* injection in session/rdp_session.c) and the camera (cam.c,              *)
(* session/camera.c).  The worker names each channel by a fixed number,    *)
(* here by what it is for.                                                 *)
(*                                                                         *)
(* The client is the environment: it opens the channels it supports,       *)
(* answers each request in turn, may split a message into fragments, and   *)
(* sends the fragments of different channels in any order.                 *)
(***************************************************************************)
EXTENDS Naturals, Integers, Sequences, FiniteSets, SequencesExt

CONSTANTS
    Cameras,        \* cameras a client can plug in
    Contacts,       \* touch contact ids, numbers
    MediaLists,     \* per camera, the media types it offers, in order
    ChanLoads,      \* what a client may do in a history, one record each
    MaxUp           \* PDUs under way to the worker (the transport's buffer)

VARIABLES
    dv,             \* struct drdynvc_state
    sndin,          \* the microphone's negotiation phase
    cam,            \* struct rdp_cam_state
    dvc_up,         \* PDUs on their way to the worker
    dvc_down,       \* PDUs on their way to the client
    dvc_cl,         \* the client
    w2d,            \* messages on their way to the session
    desk,           \* the devices of the session
    chan_load       \* what the client may do

chan_vars == <<dv, sndin, cam, dvc_up, dvc_down, dvc_cl, w2d, desk>>

Chans == {"disp", "gfx", "audioin", "rdpei", "camenum", "camdev"}

-----------------------------------------------------------------------------
(* Fragments and their reassembly                                           *)

NoPdu == [msg |-> "none"]

\* The pieces of a message of n pieces: the first of several announces n.
Pieces(c, inst, msg, n) ==
    [k \in 1 .. n |->
        [cmd |-> IF n > 1 /\ k = 1 THEN "DATA_FIRST" ELSE "DATA",
         id |-> c, inst |-> inst, msg |-> msg, total |-> n, k |-> k]]

NoFragment == [total |-> 0, parts |-> <<>>]

\* One buffer per channel.  Data outside a sequence is a PDU by itself; what
\* goes past the announced length is cut off.
dvc_reasm_feed(r, m) ==
    LET q == IF m.cmd = "DATA_FIRST" THEN [total |-> m.total, parts |-> <<>>] ELSE r
        parts == Append(q.parts, m)
    IN  IF q.total = 0 THEN [buf |-> q, out |-> <<m>>]
        ELSE IF Len(parts) < q.total
             THEN [buf |-> [q EXCEPT !.parts = parts], out |-> <<>>]
             ELSE [buf |-> NoFragment, out |-> parts]

\* A PDU is the pieces of one message of one opening of a channel.
WholePdu(parts) ==
    /\ \A i \in DOMAIN parts : parts[i].k = i
    /\ \A i \in DOMAIN parts : /\ parts[i].msg = parts[1].msg
                               /\ parts[i].inst = parts[1].inst
                               /\ parts[i].total = Len(parts)

-----------------------------------------------------------------------------
(* drdynvc.c                                                                *)

HandleResult(st, what, c, parts, resp) ==
    [st |-> st, what |-> what, chan |-> c, parts |-> parts, resp |-> resp]

build_create(st, c, name) ==
    [st |-> [st EXCEPT !.id[c] = c, !.pending[c] = TRUE],
     pdu |-> [cmd |-> "CREATE", id |-> c, name |-> name]]

rdp_drdynvc_build_caps == [cmd |-> "CAPS"]
rdp_drdynvc_build_disp_caps == [t |-> "DISP_CAPS"]

rdp_drdynvc_build_close_cam_device(st) ==
    [st |-> [st EXCEPT !.id["camdev"] = "none", !.pending["camdev"] = FALSE],
     pdu |-> [cmd |-> "CLOSE", id |-> st.id["camdev"]]]

\* A refused channel still counts as asked for.
HandleCreate_StillPending(st, m) ==
    IF \E c \in Chans : st.pending[c] /\ st.id[c] = m.id
    THEN HandleResult(IF m.ok THEN [st EXCEPT !.pending[m.id] = FALSE]
                      ELSE [st EXCEPT !.id[m.id] = "none"],
                      IF m.ok THEN "up" ELSE "none", m.id, <<>>, <<>>)
    ELSE HandleResult(st, "none", "none", <<>>, <<>>)

\* Answer to a Create of ours, or taken for the client's own Create.
HandleCreate(st, m) ==
    LET mine == {c \in Chans : st.pending[c] /\ st.id[c] = m.id}
        c == CHOOSE x \in mine : TRUE
        done == [st EXCEPT !.pending[c] = FALSE]
    IN  IF mine = {}
        THEN HandleResult(st, "none", "none", <<>>, <<[cmd |-> "CREATED", id |-> m.id]>>)
        ELSE IF m.ok THEN HandleResult(done, "up", c, <<>>, <<>>)
        ELSE HandleResult([done EXCEPT !.id[c] = "none"], "none", c, <<>>, <<>>)

\* One buffer for all channels.
HandleData_Shared(st, m) ==
    LET fed == dvc_reasm_feed(st.reasm["gfx"], m) IN
    IF \A c \in Chans : st.id[c] # m.id THEN HandleResult(st, "none", "none", <<>>, <<>>)
    ELSE HandleResult([st EXCEPT !.reasm["gfx"] = fed.buf],
                      IF fed.out = <<>> THEN "none" ELSE "pdu", m.id, fed.out, <<>>)

\* A display update is taken from one PDU as it comes.
HandleData(st, m) ==
    LET open == {c \in Chans : st.id[c] = m.id}
        c == CHOOSE x \in open : TRUE
        fed == dvc_reasm_feed(st.reasm[c], m)
    IN  IF open = {} THEN HandleResult(st, "none", "none", <<>>, <<>>)
        ELSE IF c = "disp" THEN HandleResult(st, "pdu", c, <<m>>, <<>>)
        ELSE HandleResult([st EXCEPT !.reasm[c] = fed.buf],
                          IF fed.out = <<>> THEN "none" ELSE "pdu", c, fed.out, <<>>)

\* The client closed a channel: of the others than these nothing is recorded.
HandleClose(st, m) ==
    LET gone == {c \in {"gfx", "camdev", "camenum"} : st.id[c] = m.id}
        c == CHOOSE x \in gone : TRUE
        s == [st EXCEPT !.id[c] = "none"]
    IN  IF gone = {} THEN HandleResult(st, "none", "none", <<>>, <<>>)
        ELSE IF c = "gfx" THEN HandleResult(s, "closed", c, <<>>, <<>>)
        ELSE HandleResult([s EXCEPT !.pending[c] = FALSE], "none", c, <<>>, <<>>)

rdp_drdynvc_handle(st, m) ==
    CASE m.cmd = "CAPS" -> HandleResult([st EXCEPT !.caps = TRUE], "caps", "none", <<>>, <<>>)
      [] m.cmd = "CREATE" -> HandleCreate(st, m)
      [] m.cmd \in {"DATA", "DATA_FIRST"} -> HandleData(st, m)
      [] m.cmd = "CLOSE" -> HandleClose(st, m)

\* Once the client has told its version the worker opens its channels, each
\* unless it is already open or asked for.
ChannelsToOpen(st) ==
    SelectSeq(<<"gfx", "disp", "audioin", "rdpei", "camenum">>,
              LAMBDA c : ~st.pending[c] /\ st.id[c] = "none")

OpenChannels(st) ==
    LET cs == ChannelsToOpen(st) IN
    [st |-> [st EXCEPT !.id = [c \in Chans |-> IF c \in ToSet(cs) THEN c ELSE @[c]],
                       !.pending = [c \in Chans |-> c \in ToSet(cs) \/ @[c]]],
     pdus |-> [i \in DOMAIN cs |-> build_create(st, cs[i], cs[i]).pdu]]

\* A PDU on a dynamic channel; an unopened one is not written to.
send_drdynvc_data(c, msg) == <<[cmd |-> "DATA", id |-> c, msg |-> msg]>>

-----------------------------------------------------------------------------
(* sndin.c: phases of the microphone                                        *)

rdp_sndin_build_version == [t |-> "VERSION"]
rdp_sndin_build_formats == [t |-> "FORMATS"]
rdp_sndin_build_open == [t |-> "OPEN"]

SndinResult(phase, send, audio) == [phase |-> phase, send |-> send, audio |-> audio]

\* The result of the open is not looked at.
rdp_sndin_handle_AnyResult(phase, m) ==
    CASE m.t = "VERSION" -> SndinResult("FORMATS_SENT", <<rdp_sndin_build_formats>>, FALSE)
      [] m.t = "FORMATS" -> SndinResult("OPEN_SENT", <<rdp_sndin_build_open>>, FALSE)
      [] m.t = "OPEN_REPLY" -> SndinResult("STREAMING", <<>>, FALSE)
      [] OTHER -> SndinResult(phase, <<>>, m.t = "DATA")

\* The client's version is taken note of and not answered.
rdp_sndin_handle_NoFormats(phase, m) ==
    SndinResult(IF m.t = "VERSION" THEN "FORMATS_SENT" ELSE phase, <<>>, m.t = "DATA")

rdp_sndin_handle(phase, m) ==
    CASE m.t = "VERSION" -> SndinResult("FORMATS_SENT", <<rdp_sndin_build_formats>>, FALSE)
      [] m.t = "FORMATS" ->
            IF m.n = 0 THEN SndinResult(phase, <<>>, FALSE)
            ELSE SndinResult("OPEN_SENT", <<rdp_sndin_build_open>>, FALSE)
      [] m.t = "OPEN_REPLY" ->
            SndinResult(IF m.ok THEN "STREAMING" ELSE phase, <<>>, FALSE)
      [] m.t = "DATA" -> SndinResult(phase, <<>>, TRUE)
      [] OTHER -> SndinResult(phase, <<>>, FALSE)

-----------------------------------------------------------------------------
(* rdpei.c: the contacts of all frames of an event, as one list             *)

\* The first contact of each frame only.
parse_frames_First(frames) == [i \in DOMAIN frames |-> frames[i][1]]

parse_frames(frames) == FlattenSeq(frames)

rdp_rdpei_build_sc_ready == [t |-> "SC_READY"]

rdp_rdpei_parse_event(m) ==
    CASE m.t = "DISMISS_HOVER" -> <<[id |-> m.id, flag |-> "UP"]>>
      [] m.t \in {"TOUCH", "PEN"} -> parse_frames(m.frames)
      [] OTHER -> <<>>

-----------------------------------------------------------------------------
(* cam.c: the camera's negotiation                                          *)

CamNothing == [send |-> <<>>, open |-> <<>>, close |-> FALSE, frame |-> <<>>]
CamSend(chan, t, fmt) ==
    [CamNothing EXCEPT !.send = <<[chan |-> chan, msg |-> [t |-> t, fmt |-> fmt]]>>]
CamResult(st, act) == [st |-> st, act |-> act]

FormatPreference == <<"NV12", "I420", "YUY2", "RGB24", "RGB32">>

\* The first usable type of the most preferred format there is one of.
UsableTypes(types) == {i \in DOMAIN types : types[i].raw /\ types[i].fits}

pick_media_type(types) ==
    LET rank(i) == CHOOSE p \in DOMAIN FormatPreference :
                      FormatPreference[p] = types[i].format
        ok == {i \in UsableTypes(types) : types[i].format \in ToSet(FormatPreference)}
    IN  IF ok = {} THEN <<>>
        ELSE LET i == CHOOSE i \in ok : \A j \in ok :
                         rank(i) < rank(j) \/ (rank(i) = rank(j) /\ i <= j)
             IN  <<types[i].format>>

rdp_cam_device_opened(st) ==
    IF st.have_device
    THEN CamResult([st EXCEPT !.phase = "ACTIVATING"], CamSend("camdev", "ACTIVATE", "none"))
    ELSE CamResult(st, CamNothing)

\* The camera that went is still taken to be there.
CamEnumerator_Latched(st, m) ==
    CASE m.t = "SELECT_VERSION" ->
            CamResult(st, CamSend("camenum", "VERSION_RESPONSE", "none"))
      [] m.t = "DEVICE_ADDED" /\ ~st.have_device ->
            CamResult([st EXCEPT !.have_device = TRUE], [CamNothing EXCEPT !.open = <<m.dev>>])
      [] m.t = "DEVICE_REMOVED" ->
            CamResult([st EXCEPT !.phase = "INIT"], [CamNothing EXCEPT !.close = TRUE])
      [] OTHER -> CamResult(st, CamNothing)

CamEnumerator(st, m) ==
    CASE m.t = "SELECT_VERSION" ->
            CamResult(st, CamSend("camenum", "VERSION_RESPONSE", "none"))
      [] m.t = "DEVICE_ADDED" /\ ~st.have_device ->
            CamResult([st EXCEPT !.have_device = TRUE], [CamNothing EXCEPT !.open = <<m.dev>>])
      [] m.t = "DEVICE_REMOVED" ->
            CamResult([phase |-> "INIT", have_device |-> FALSE, sel |-> "none"],
                      [CamNothing EXCEPT !.close = TRUE])
      [] OTHER -> CamResult(st, CamNothing)

\* A sample is asked for once the start is, and again when it succeeded.
CamDevice_EarlySample(st, m) ==
    LET to(phase, t) == CamResult([st EXCEPT !.phase = phase], CamSend("camdev", t, "none")) IN
    CASE m.t = "SUCCESS" /\ st.phase = "ACTIVATING" -> to("STREAM_LIST", "STREAM_LIST")
      [] m.t = "STREAM_LIST" -> to("STARTING", "SAMPLE")
      [] m.t = "SUCCESS" -> to("STREAMING", "SAMPLE")
      [] m.t \in {"SAMPLE", "SAMPLE_ERROR"} -> to(st.phase, "SAMPLE")
      [] OTHER -> CamResult(st, CamNothing)

CamDevice(st, m) ==
    LET to(phase, t) == CamResult([st EXCEPT !.phase = phase], CamSend("camdev", t, "none"))
        pick == pick_media_type(m.types)
    IN
    CASE m.t = "SUCCESS" /\ st.phase = "ACTIVATING" -> to("STREAM_LIST", "STREAM_LIST")
      [] m.t = "SUCCESS" /\ st.phase = "STARTING" -> to("STREAMING", "SAMPLE")
      [] m.t = "ERROR" -> CamResult([st EXCEPT !.phase = "STOPPED"], CamNothing)
      [] m.t = "STREAM_LIST" /\ st.phase = "STREAM_LIST" -> to("MEDIA_LIST", "MEDIA_LIST")
      [] m.t = "MEDIA_LIST" /\ st.phase = "MEDIA_LIST" /\ pick = <<>> ->
            CamResult([st EXCEPT !.phase = "STOPPED"], CamNothing)
      [] m.t = "MEDIA_LIST" /\ st.phase = "MEDIA_LIST" /\ pick # <<>> ->
            CamResult([st EXCEPT !.phase = "STARTING", !.sel = pick[1]],
                      CamSend("camdev", "START", pick[1]))
      [] m.t = "SAMPLE" /\ st.phase = "STREAMING" /\ st.sel # "none" ->
            CamResult(st, [CamSend("camdev", "SAMPLE", "none")
                              EXCEPT !.frame = <<[format |-> st.sel, data |-> m.fmt]>>])
      [] m.t = "SAMPLE_ERROR" /\ st.phase = "STREAMING" ->
            CamResult(st, CamSend("camdev", "SAMPLE", "none"))
      [] OTHER -> CamResult(st, CamNothing)

rdp_cam_negotiate(st, chan, m) ==
    IF chan = "camenum" THEN CamEnumerator(st, m) ELSE CamDevice(st, m)

\* What an action of the negotiation does to the channels, in this order.
cam_forward_action(st, act) ==
    LET said == IF act.send # <<>> /\ st.id[act.send[1].chan] # "none"
                THEN send_drdynvc_data(act.send[1].chan, act.send[1].msg) ELSE <<>>
        opens == act.open # <<>> /\ ~st.pending["camdev"] /\ st.id["camdev"] = "none"
        closes == act.close /\ st.id["camdev"] # "none"
        made == IF opens THEN build_create(st, "camdev", act.open[1])
                ELSE IF closes THEN rdp_drdynvc_build_close_cam_device(st)
                ELSE [st |-> st, pdu |-> NoPdu]
    IN  [st |-> made.st,
         pdus |-> IF opens \/ closes THEN Append(said, made.pdu) ELSE said,
         frame |-> [i \in DOMAIN act.frame |-> [t |-> "CAMERA", frame |-> act.frame[i]]]]

-----------------------------------------------------------------------------
(* The worker: one PDU of the client                                        *)

Say(h, st, pdus) ==
    /\ dv' = st
    /\ dvc_down' = dvc_down \o h.resp \o pdus

\* Channel requests and closes that concern none of the services.
OnChannel(h) ==
    /\ h.what = "none" \/ (h.what = "up" /\ h.chan \in {"gfx", "camenum"})
    /\ Say(h, h.st, <<>>)
    /\ UNCHANGED <<sndin, cam, w2d>>

OnCaps(h) ==
    /\ h.what = "caps"
    /\ LET o == OpenChannels(h.st) IN Say(h, o.st, o.pdus)
    /\ UNCHANGED <<sndin, cam, w2d>>

OnDispUp(h) ==
    /\ h.what = "up" /\ h.chan = "disp"
    /\ Say(h, h.st, send_drdynvc_data("disp", rdp_drdynvc_build_disp_caps))
    /\ UNCHANGED <<sndin, cam, w2d>>

OnAudioInUp(h) ==
    /\ h.what = "up" /\ h.chan = "audioin"
    /\ Say(h, h.st, send_drdynvc_data("audioin", rdp_sndin_build_version))
    /\ sndin' = "VERSION_SENT"
    /\ UNCHANGED <<cam, w2d>>

OnAudioIn(h) ==
    /\ h.what = "pdu" /\ h.chan = "audioin"
    /\ LET r == rdp_sndin_handle(sndin, h.parts[1].msg) IN
       /\ sndin' = r.phase
       /\ Say(h, h.st, IF r.send = <<>> THEN <<>> ELSE send_drdynvc_data("audioin", r.send[1]))
       /\ w2d' = w2d \o (IF r.audio THEN <<[t |-> "AUDIO_INPUT"]>> ELSE <<>>)
    /\ UNCHANGED cam

OnRdpeiUp(h) ==
    /\ h.what = "up" /\ h.chan = "rdpei"
    /\ Say(h, h.st, send_drdynvc_data("rdpei", rdp_rdpei_build_sc_ready))
    /\ UNCHANGED <<sndin, cam, w2d>>

\* Only the contacts of touch and pen events go on to the session.
OnRdpei(h) ==
    /\ h.what = "pdu" /\ h.chan = "rdpei"
    /\ LET m == h.parts[1].msg
           contacts == rdp_rdpei_parse_event(m)
       IN  w2d' = w2d \o (IF m.t \in {"TOUCH", "PEN"} /\ contacts # <<>>
                          THEN <<[t |-> "INPUT_TOUCH", contacts |-> contacts]>> ELSE <<>>)
    /\ Say(h, h.st, <<>>)
    /\ UNCHANGED <<sndin, cam>>

OnCamera(h) ==
    /\ \/ h.what = "up" /\ h.chan = "camdev"
       \/ h.what = "pdu" /\ h.chan \in {"camenum", "camdev"}
    /\ LET r == IF h.what = "up" THEN rdp_cam_device_opened(cam)
                ELSE rdp_cam_negotiate(cam, h.chan, h.parts[1].msg)
           f == cam_forward_action(h.st, r.act)
       IN  /\ cam' = r.st
           /\ Say(h, f.st, f.pdus)
           /\ w2d' = w2d \o f.frame
    /\ UNCHANGED sndin

WorkerDvcPdu ==
    /\ dvc_up # <<>>
    /\ dvc_up' = Tail(dvc_up)
    /\ LET h == rdp_drdynvc_handle(dv, Head(dvc_up)) IN
       \/ OnChannel(h) \/ OnCaps(h) \/ OnDispUp(h)
       \/ OnAudioInUp(h) \/ OnAudioIn(h) \/ OnRdpeiUp(h) \/ OnRdpei(h) \/ OnCamera(h)
    /\ UNCHANGED <<dvc_cl, desk>>

-----------------------------------------------------------------------------
(* The session: what its devices do with the messages                       *)

\* X11 has one pointer: the lowest contact of a message drives it.
inject_touch(button, contacts) ==
    LET i == CHOOSE i \in DOMAIN contacts :
                /\ \A j \in DOMAIN contacts : contacts[i].id <= contacts[j].id
                /\ \A j \in 1 .. i - 1 : contacts[i].id < contacts[j].id
    IN  CASE contacts[i].flag = "DOWN" -> TRUE
          [] contacts[i].flag = "UP" -> FALSE
          [] OTHER -> button

\* Wayland has a touch point per contact.
rdp_wl_comp_inject_touch(points, ct) ==
    CASE ct.flag = "DOWN" -> points \cup {ct.id}
      [] ct.flag = "UP" -> points \ {ct.id}
      [] OTHER -> points

SessionTouch(m) ==
    /\ m.t = "INPUT_TOUCH"
    /\ desk' = [desk EXCEPT !.button = inject_touch(@, m.contacts),
                            !.points = FoldLeft(rdp_wl_comp_inject_touch, @, m.contacts)]

\* The pipe is opened when a reader is there, and again after an error; audio
\* the reader does not take is dropped.
rdp_mic_write(m) ==
    /\ m.t = "AUDIO_INPUT"
    /\ \/ desk.mic \in {"off", "closed"} /\ UNCHANGED desk
       \/ /\ desk.mic \in {"closed", "open"}
          /\ \E mic \in {"open", "closed"} : desk' = [desk EXCEPT !.mic = mic]

\* The device is told the first format only.
rdp_camera_write_FirstFormat(m) ==
    /\ m.t = "CAMERA"
    /\ desk' = IF desk.v4l = "off" THEN desk
               ELSE [desk EXCEPT !.v4l = IF @ = "unset" THEN m.frame.format ELSE @,
                                 !.shown = m.frame.data]

\* The device is told a new format before the frame; if that fails the frame
\* is dropped.
rdp_camera_write(m) ==
    /\ m.t = "CAMERA"
    /\ \/ desk.v4l # "off"
          /\ desk' = [desk EXCEPT !.v4l = m.frame.format, !.shown = m.frame.data]
       \/ (desk.v4l # m.frame.format) /\ UNCHANGED desk

SessionInput ==
    /\ w2d # <<>>
    /\ w2d' = Tail(w2d)
    /\ SessionTouch(Head(w2d)) \/ rdp_mic_write(Head(w2d)) \/ rdp_camera_write(Head(w2d))
    /\ UNCHANGED <<dv, sndin, cam, dvc_up, dvc_down, dvc_cl>>

-----------------------------------------------------------------------------
(* The client                                                               *)

ChanInit ==
    /\ dv = [caps |-> FALSE, id |-> [c \in Chans |-> "none"],
             pending |-> [c \in Chans |-> FALSE], reasm |-> [c \in Chans |-> NoFragment]]
    /\ sndin = "INIT"
    /\ cam = [phase |-> "INIT", have_device |-> FALSE, sel |-> "none"]
    /\ dvc_up = <<>>
    /\ dvc_down = <<rdp_drdynvc_build_caps>>
    /\ chan_load \in ChanLoads
    /\ dvc_cl = [open |-> [c \in Chans |-> FALSE], inst |-> [c \in Chans |-> 0],
                 out |-> [c \in Chans |-> <<>>], plugged |-> {}, dev |-> "none",
                 fmt |-> "none", owed |-> 0, capturing |-> FALSE, down |-> {},
                 left |-> chan_load.left]
    /\ w2d = <<>>
    /\ desk = [button |-> FALSE, points |-> {}, shown |-> "none",
               mic |-> IF chan_load.devices THEN "closed" ELSE "off",
               v4l |-> IF chan_load.devices THEN "unset" ELSE "off"]

\* Client cl with a message to send on channel c.
Posts(cl, c, msg) ==
    {[cl EXCEPT !.out[c] = @ \o Pieces(c, cl.inst[c], msg, n)] : n \in chan_load.pieces}

\* The client's answer to a request on an open channel.
ClientAnswers(cl, c, msg) ==
    LET answer(m) == Posts(cl, c, m) IN
    CASE msg.t = "VERSION" -> answer([t |-> "VERSION"])
      [] msg.t = "FORMATS" -> answer([t |-> "FORMATS", n |-> 1])
      [] msg.t = "OPEN" ->
            UNION {Posts([cl EXCEPT !.capturing = ok], c, [t |-> "OPEN_REPLY", ok |-> ok]) :
                      ok \in chan_load.outcomes}
      [] msg.t = "SC_READY" -> answer([t |-> "CS_READY"])
      [] msg.t = "ACTIVATE" ->
            UNION {answer([t |-> IF ok THEN "SUCCESS" ELSE "ERROR"]) : ok \in chan_load.outcomes}
      [] msg.t = "STREAM_LIST" -> answer([t |-> "STREAM_LIST"])
      [] msg.t = "MEDIA_LIST" -> answer([t |-> "MEDIA_LIST", types |-> MediaLists[cl.dev]])
      [] msg.t = "START" -> Posts([cl EXCEPT !.fmt = msg.fmt], c, [t |-> "SUCCESS"])
      [] msg.t = "SAMPLE" -> {[cl EXCEPT !.owed = @ + 1]}
      [] OTHER -> {cl}

Closed(cl, c) ==
    LET shut == [cl EXCEPT !.open[c] = FALSE, !.out[c] = <<>>] IN
    IF c = "camdev" THEN [shut EXCEPT !.owed = 0, !.fmt = "none", !.dev = "none"] ELSE shut

ClientReceives ==
    /\ dvc_down # <<>> /\ Len(dvc_up) < MaxUp
    /\ dvc_down' = Tail(dvc_down)
    /\ LET m == Head(dvc_down) IN
       \/ /\ m.cmd = "CAPS"
          /\ dvc_up' = Append(dvc_up, [cmd |-> "CAPS"])
          /\ UNCHANGED dvc_cl
       \/ /\ m.cmd = "CREATE"
          /\ LET ok == m.id \in chan_load.accepts /\ (m.id = "camdev" => m.name \in dvc_cl.plugged)
                 up == [dvc_cl EXCEPT !.open[m.id] = TRUE, !.inst[m.id] = @ + 1,
                                      !.dev = IF m.id = "camdev" THEN m.name ELSE @]
             IN  /\ dvc_up' = Append(dvc_up, [cmd |-> "CREATE", id |-> m.id, ok |-> ok])
                 /\ IF ~ok THEN UNCHANGED dvc_cl
                    ELSE IF m.id = "camenum" THEN dvc_cl' \in Posts(up, m.id, [t |-> "SELECT_VERSION"])
                    ELSE dvc_cl' = up
       \/ /\ m.cmd = "CLOSE"
          /\ dvc_cl' = Closed(dvc_cl, m.id)
          /\ dvc_up' = IF chan_load.echoes THEN Append(dvc_up, m) ELSE dvc_up
       \/ /\ m.cmd = "CREATED" /\ UNCHANGED <<dvc_up, dvc_cl>>
       \/ /\ m.cmd = "DATA"
          /\ dvc_cl' \in IF dvc_cl.open[m.id] THEN ClientAnswers(dvc_cl, m.id, m.msg) ELSE {dvc_cl}
          /\ UNCHANGED dvc_up
    /\ UNCHANGED <<dv, sndin, cam, w2d, desk>>

\* The next piece of one of its channels.
ClientSends(c) ==
    /\ dvc_cl.out[c] # <<>> /\ Len(dvc_up) < MaxUp
    /\ dvc_up' = Append(dvc_up, Head(dvc_cl.out[c]))
    /\ dvc_cl' = [dvc_cl EXCEPT !.out[c] = Tail(@)]
    /\ UNCHANGED <<dv, sndin, cam, dvc_down, w2d, desk>>

\* What the client does of itself is bounded by the history's load.
Spends(what, cl, c, msg) ==
    /\ dvc_cl.left[what] > 0 /\ dvc_cl.open[c] /\ dvc_cl.out[c] = <<>>
    /\ dvc_cl' \in Posts([cl EXCEPT !.left[what] = @ - 1], c, msg)
    /\ UNCHANGED <<dv, sndin, cam, dvc_up, dvc_down, w2d, desk>>

ClientSpeaks ==
    /\ dvc_cl.capturing
    /\ Spends("audio", dvc_cl, "audioin", [t |-> "DATA"])

ClientPlugs(d) ==
    /\ d \notin dvc_cl.plugged
    /\ Spends("plugs", [dvc_cl EXCEPT !.plugged = @ \cup {d}], "camenum",
              [t |-> "DEVICE_ADDED", dev |-> d])

\* A camera that goes owes no more samples; what it had begun to send is
\* finished, or cut short.
ClientUnplugs(d) ==
    /\ d \in dvc_cl.plugged
    /\ Spends("unplugs",
              [dvc_cl EXCEPT !.plugged = @ \ {d}, !.owed = IF dvc_cl.dev = d THEN 0 ELSE @,
                             !.out["camdev"] = IF dvc_cl.dev = d /\ chan_load.cuts THEN <<>> ELSE @],
              "camenum", [t |-> "DEVICE_REMOVED", dev |-> d])

ClientSamples ==
    /\ dvc_cl.owed > 0
    /\ \E m \in {[t |-> "SAMPLE", fmt |-> dvc_cl.fmt], [t |-> "SAMPLE_ERROR"]} :
          Spends("samples", [dvc_cl EXCEPT !.owed = @ - 1], "camdev", m)

\* A frame tells of some contacts: that they went down, moved or were lifted.
TouchFrames(down) ==
    UNION {{[frame |-> [i \in 1 .. Cardinality(S) |->
                           LET k == SetToSortSeq(S, <)[i] IN [id |-> k, flag |-> f[k]]],
             down |-> (down \cup S) \ {k \in S : f[k] = "UP"}] :
                f \in {g \in [S -> {"DOWN", "UPDATE", "UP"}] :
                         \A k \in S : g[k] = "DOWN" <=> k \notin down}} :
             S \in SUBSET Contacts \ {{}}}

\* An event carries a frame, or several the client had gathered.
TouchEvents(down) ==
    LET one == {[frames |-> <<f.frame>>, down |-> f.down] : f \in TouchFrames(down)} IN
    IF ~chan_load.batches THEN one
    ELSE one \cup UNION {{[frames |-> Append(e.frames, f.frame), down |-> f.down] :
                             f \in TouchFrames(e.down)} : e \in one}

ClientTouches ==
    \/ \E e \in TouchEvents(dvc_cl.down) :
          Spends("touches", [dvc_cl EXCEPT !.down = e.down], "rdpei",
                 [t |-> "TOUCH", frames |-> e.frames])
    \/ \E k \in Contacts \ dvc_cl.down :
          Spends("touches", dvc_cl, "rdpei", [t |-> "DISMISS_HOVER", id |-> k])

ClientChanges ==
    \/ ClientSpeaks \/ ClientTouches \/ ClientSamples
    \/ \E d \in Cameras : ClientPlugs(d) \/ ClientUnplugs(d)

ChanNext ==
    /\ \/ WorkerDvcPdu \/ SessionInput \/ ClientReceives
       \/ \E c \in Chans : ClientSends(c)
       \/ ClientChanges
    /\ UNCHANGED chan_load

ChanSpec == ChanInit /\ [][ChanNext]_<<chan_vars, chan_load>>

\* Worker and session read what arrives, and so does a client that is there;
\* a camera asked for a picture gives one.
ChanFairness ==
    /\ WF_chan_vars(WorkerDvcPdu) /\ WF_chan_vars(SessionInput)
    /\ WF_chan_vars(ClientReceives)
    /\ \A c \in Chans : WF_chan_vars(ClientSends(c))

ChanFair == ChanSpec /\ ChanFairness

-----------------------------------------------------------------------------
(* Properties                                                               *)

\* Types of the channel table, the channels' phases and the session's devices;
\* an answer is outstanding only of a channel that has a number.
ChanTypeOK ==
    /\ dv.id \in [Chans -> Chans \cup {"none"}]
    /\ dv.pending \in [Chans -> BOOLEAN]
    /\ \A c \in Chans : dv.pending[c] => dv.id[c] = c
    /\ sndin \in {"INIT", "VERSION_SENT", "FORMATS_SENT", "OPEN_SENT", "STREAMING"}
    /\ cam.phase \in {"INIT", "ACTIVATING", "STREAM_LIST", "MEDIA_LIST", "STARTING",
                      "STREAMING", "STOPPED"}
    /\ Len(dvc_up) <= MaxUp
    /\ desk.points \subseteq Contacts

\* The worker hands up whole messages: the pieces of one message of one
\* opening of one channel, however the client interleaves its channels
\* (drdynvc.c:104), as long as no channel is opened anew under its old
\* number: no camera was unplugged.
PdusWhole ==
    dvc_up # <<>> /\ dvc_cl.left.unplugs = chan_load.left.unplugs =>
        LET h == rdp_drdynvc_handle(dv, Head(dvc_up)) IN
        h.what = "pdu" => WholePdu(h.parts)

\* Sample requests under way or being served, and samples under way to the worker
SamplesUnderWay ==
    Cardinality({i \in DOMAIN dvc_down : dvc_down[i].cmd = "DATA" /\ dvc_down[i].msg.t = "SAMPLE"})
    + dvc_cl.owed
    + Cardinality({i \in DOMAIN dvc_cl.out["camdev"] :
                     LET p == dvc_cl.out["camdev"][i] IN
                     p.k = p.total /\ p.msg.t \in {"SAMPLE", "SAMPLE_ERROR"}})
    + Cardinality({i \in DOMAIN dvc_up : /\ dvc_up[i].cmd \in {"DATA", "DATA_FIRST"}
                                         /\ dvc_up[i].k = dvc_up[i].total
                                         /\ dvc_up[i].msg.t \in {"SAMPLE", "SAMPLE_ERROR"}})

\* At most one picture is asked for at a time (cam.c:495).
OneSampleCredit == SamplesUnderWay <= 1

\* The virtual camera is set to the format of the pictures it is given, after
\* any number of cameras came and went (camera.c:176).
PicturesAsNegotiated == desk.shown # "none" => desk.v4l = desk.shown

\* Every touch event has been delivered.
QuietTouch ==
    /\ dvc_cl.out["rdpei"] = <<>> /\ w2d = <<>>
    /\ \A i \in DOMAIN dvc_up : dvc_up[i].cmd \in {"DATA", "DATA_FIRST"} => dvc_up[i].id # "rdpei"

\* With every contact lifted and every event delivered, the session holds
\* none: X11 has released the button, Wayland has no touch point left.
TouchReleased == QuietTouch /\ dvc_cl.down = {} => ~desk.button /\ desk.points = {}

\* The worker takes the microphone to stream only if the client captures.
MicAgrees == sndin = "STREAMING" => dvc_cl.capturing

\* The session's devices follow the client's: camera by credits and in the
\* negotiated format, microphone while it captures, no touch left pressed,
\* however often cameras and contacts come and go.
MediaRight == OneSampleCredit /\ PicturesAsNegotiated /\ MicAgrees /\ TouchReleased

\* A camera that stays plugged in comes to stream, or is refused.
CameraComesUp ==
    \A d \in Cameras :
        <>[](dvc_cl.plugged = {d}) => <>[](cam.phase \in {"STREAMING", "STOPPED"})

\* A microphone the client lets the worker open comes to stream (sndin.c:113-230).
MicComesUp == dvc_cl.open["audioin"] ~> sndin = "STREAMING"

\* What the client plugs in or opens comes to stream, camera and microphone: no
\* negotiation is left waiting for an answer (cam.c, sndin.c).
ChannelsComeUp == CameraComesUp /\ MicComesUp

=============================================================================
