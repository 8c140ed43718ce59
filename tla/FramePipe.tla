----------------------------- MODULE FramePipe -----------------------------
(***************************************************************************)
(* The way of a picture from the desktop to the client: the capture loops  *)
(* of session/rdp_session.c and the DDX driver, the frames on the backend  *)
(* socket, and in the worker (run_proxy of daemon/conn.c) the tests that   *)
(* drop a frame, the shadow of the whole desktop, the encoders, the        *)
(* graphics pipeline channel (channels/rdpgfx.c), the output queue of      *)
(* sec/tls.c and the reactivation that changes the size.                   *)
(*                                                                         *)
(* A picture gives each area of the screen a version; 0 is black.  A size  *)
(* is the set of areas it shows.  A PDU weighs one unit of the output      *)
(* queue.  The client is the environment; it answers every request.        *)
(***************************************************************************)
EXTENDS Naturals, Integers, Sequences, FiniteSets, SequencesExt

CONSTANTS
    Areas,                          \* parts of the largest screen
    RDP_FRAME_QUEUE_HIGH_WATER,     \* of the output queue: no more full frames
    RDP_FRAME_QUEUE_HARD_CAP,       \* of the output queue: no more frames
    RDPGFX_INFLIGHT_BUDGET,         \* of unacknowledged frames
    BackendRoom,                    \* frames the backend socket takes
    ReactTries,                     \* PDUs read for the Confirm Active
    PipeLoads                       \* what may happen in a history

VARIABLES
    gx,             \* run_proxy's state, with the output queue
    gx_down,        \* PDUs in the network to the client
    gx_up,          \* PDUs of the client
    fr_down,        \* frames on the backend socket
    fr_up,          \* RESIZE messages on the backend socket
    scr,            \* the session
    view,           \* the client
    told,           \* for properties: what the worker let through and sent on
                    \* so far, and whether it lost a frame and sent no full one since
    pipe_load

pipe_vars == <<gx, gx_down, gx_up, fr_down, fr_up, scr, view, told>>

Black == [a \in Areas |-> 0]
Over(pic, at, new) == [a \in Areas |-> IF a \in at THEN new[a] ELSE pic[a]]

Unacked == 2147483647       \* stands for 0xFFFFFFFF: the client acknowledges no more
RDPGFX_ACK_RING == 8

-----------------------------------------------------------------------------
(* rdpgfx.c: which of the client's capability sets to confirm               *)

CapPreference == <<102, 101, 100, 104, 103, 105, 106, 107>>

\* Of these sets the first of the version most preferred, 0 if of none.
Preferred(adv, among) ==
    LET ranked == {<<p, i>> \in (DOMAIN CapPreference) \X among :
                      adv[i].version = CapPreference[p]}
    IN  IF ranked = {} THEN 0
        ELSE (CHOOSE r \in ranked : \A s \in ranked :
                 r[1] < s[1] \/ (r[1] = s[1] /\ r[2] <= s[2]))[2]

Confirm(version, flags, codec) ==
    <<[version |-> version, flags |-> flags, codec |-> codec]>>

\* Version 8.1 is confirmed as if it had been offered.
rdp_rdpgfx_select_caps_Any(adv, opt) ==
    IF opt.avc THEN Confirm(81, {"AVC420"}, "AVC420") ELSE <<>>

rdp_rdpgfx_select_caps(adv, opt) ==
    LET sets == DOMAIN adv
        off == {i \in sets : "AVC_DISABLED" \in adv[i].flags}
        old == {i \in sets : adv[i].version < 100}
        avc81 == {i \in sets : adv[i].version = 81 /\ "AVC420" \in adv[i].flags}
        eligible == avc81 # {} \/ (opt.avc /\ sets \ (off \cup old) # {})
        on == Preferred(adv, sets \ off)
        no == Preferred(adv, off)
        last == CHOOSE i \in avc81 : \A j \in avc81 : j <= i
        first == CHOOSE i \in old : \A j \in old : i <= j
    IN  CASE eligible /\ on # 0 ->
                Confirm(adv[on].version, adv[on].flags,
                        IF opt.avc444 THEN "AVC444" ELSE "AVC420")
          [] eligible /\ on = 0 /\ avc81 # {} -> Confirm(81, adv[last].flags, "AVC420")
          [] (eligible => on = 0 /\ avc81 = {}) /\ opt.progressive /\ adv # <<>> ->
                IF no # 0 THEN Confirm(adv[no].version, adv[no].flags, "PROGRESSIVE")
                ELSE IF old # {}
                     THEN Confirm(adv[first].version, adv[first].flags, "PROGRESSIVE")
                     ELSE Confirm(adv[1].version, adv[1].flags \cup {"AVC_DISABLED"},
                                  "PROGRESSIVE")
          [] OTHER -> <<>>

-----------------------------------------------------------------------------
(* rdpgfx.c: frames in flight                                               *)

\* The window of a client that is backed up is empty.
rdp_rdpgfx_may_send_frame_Stops(g) ==
    \/ g.last_ack = 0 \/ g.queue_depth = Unacked
    \/ g.frame_id - g.last_ack < (IF g.queue_depth >= 2 THEN 0 ELSE 2)

rdp_rdpgfx_may_send_frame(g) ==
    LET pending == g.frame_id - g.last_ack
        window == IF g.queue_depth >= 2 THEN 1 ELSE IF g.queue_depth = 1 THEN 2 ELSE 4
    IN  \/ g.last_ack = 0 \/ g.queue_depth = Unacked
        \/ /\ pending < window
           /\ \/ pending = 0
              \/ g.bytes_sent - g.cum_bytes[g.last_ack % RDPGFX_ACK_RING]
                    < RDPGFX_INFLIGHT_BUDGET

rdp_rdpgfx_frame_sent(g, bytes) ==
    [g EXCEPT !.bytes_sent = @ + bytes,
              !.cum_bytes[g.frame_id % RDPGFX_ACK_RING] = g.bytes_sent + bytes]

-----------------------------------------------------------------------------
(* Encoders: a picture is whole or refers to the one encoded before it      *)

NoEncoder == [codec |-> "none", size |-> {}, last |-> 0, idr |-> FALSE]
NewEncoder(codec, size) == [codec |-> codec, size |-> size, last |-> 0, idr |-> FALSE]

\* AVC444 that does not open falls back to AVC420, which the client decodes too.
open_encoder(codec, size, opens) ==
    IF codec \in opens THEN NewEncoder(codec, size)
    ELSE IF codec = "AVC444" /\ "AVC420" \in opens THEN NewEncoder("AVC420", size)
    ELSE NoEncoder

\* The encoder keeps its size.
resize_encoder_Not(e, size) == e

resize_encoder(e, size) ==
    IF e.codec = "none" THEN e ELSE NewEncoder(e.codec, size)

force_idr(e) == [e EXCEPT !.idr = e.codec \in {"AVC420", "AVC444"}]

\* The picture must cover the encoder's size.
encodes(e, area) == e.size \subseteq area

Whole(e) == e.last = 0 \/ e.idr \/ e.codec = "PROGRESSIVE"
Weight(e) == IF Whole(e) THEN 2 ELSE 1

-----------------------------------------------------------------------------
(* The worker's messages                                                    *)

send_gfx_pdu(g, pdu) == [g EXCEPT !.out = Append(@, pdu)]

build_frame(g, pic) ==
    [k |-> "frame", id |-> g.frame_id, whole |-> Whole(g.enc), ref |-> g.enc.last,
     pic |-> pic, size |-> g.enc.size]

\* The surface is taken to exist from the first frame of a size on.
ensure_gfx_surface(g) ==
    IF g.surface_created \/ ~g.channel THEN g
    ELSE [g EXCEPT !.surface_created = TRUE,
                   !.out = @ \o <<[k |-> "reset"],
                                  [k |-> "create", size |-> g.size],
                                  [k |-> "map"]>>]

\* One tile per area.
push_frame_tiled(g, f) ==
    [g EXCEPT !.out = @ \o [i \in DOMAIN f.at |->
                               [k |-> "tile", at |-> f.at[i], v |-> f.pic[f.at[i]]]]]

\* Each region starts from a black desktop.
shadow_put_Fresh(g, f) ==
    [g EXCEPT !.shadow = [made |-> TRUE, pic |-> Over(Black, ToSet(f.at) \cap g.size, f.pic)]]

\* Only the part of a frame on the desktop goes into the shadow.
shadow_put(g, f) ==
    [g EXCEPT !.shadow = [made |-> TRUE,
                          pic |-> Over(IF @.made THEN @.pic ELSE Black,
                                       ToSet(f.at) \cap g.size, f.pic)]]

NoShadow == [made |-> FALSE, pic |-> Black]

\* The queue goes out as far as the network takes it.
rdp_tls_flush(g) ==
    LET room == pipe_load.room - Len(gx_down)
        n == IF room < 0 THEN 0 ELSE IF room < Len(g.out) THEN room ELSE Len(g.out)
    IN  /\ gx_down' = gx_down \o SubSeq(g.out, 1, n)
        /\ gx' = [g EXCEPT !.out = SubSeq(@, n + 1, Len(@))]

-----------------------------------------------------------------------------
(* The worker: a frame of the session                                       *)

Partial(g, f) == ~(g.size \subseteq ToSet(f.at))

Dropped(g, f) ==
    \/ g.suppressed
    \/ Len(g.out) > RDP_FRAME_QUEUE_HIGH_WATER /\ ~Partial(g, f)
    \/ Len(g.out) > RDP_FRAME_QUEUE_HARD_CAP

encode_frame(g, area, pic) ==
    LET fresh == ~g.surface_created
        s == ensure_gfx_surface(g)
        h == IF fresh /\ s.surface_created THEN [s EXCEPT !.enc = force_idr(@)] ELSE s
        n == [h EXCEPT !.frame_id = @ + 1]
    IN  IF ~rdp_rdpgfx_may_send_frame(h) \/ ~encodes(h.enc, area) THEN h
        ELSE rdp_rdpgfx_frame_sent(
                [send_gfx_pdu(n, build_frame(n, pic))
                    EXCEPT !.enc.last = n.frame_id, !.enc.idr = FALSE], Weight(n.enc))

Encodes(g) == g.active /\ g.enc.codec # "none" /\ g.channel

Through(g, f) ==
    LET p == Partial(g, f)
        s == IF g.active /\ (p \/ g.shadow.made) THEN shadow_put(g, f) ELSE g
    IN  IF ~Encodes(g) THEN push_frame_tiled(s, f)
        ELSE IF p THEN encode_frame(s, s.size, s.shadow.pic)
        ELSE encode_frame(s, ToSet(f.at), f.pic)

\* Bookkeeping.
Tell(g, h, f) ==
    LET seen == Over(told.seen, ToSet(f.at), f.pic)
        sent == Encodes(g) => h.frame_id # g.frame_id
    IN  [seen |-> seen,
         shown |-> IF ~sent THEN told.shown
                   ELSE IF Encodes(g) THEN seen
                   ELSE Over(told.shown, ToSet(f.at), f.pic),
         lost |-> ~sent \/ (told.lost /\ Partial(g, f))]

WorkerFrame ==
    /\ gx.ph = "proxy" /\ fr_down # <<>>
    /\ LET f == Head(fr_down)
           h == Through(gx, f)
       IN  IF Dropped(gx, f)
           THEN told' = [told EXCEPT !.lost = TRUE] /\ UNCHANGED <<gx, gx_down>>
           ELSE rdp_tls_flush(h) /\ told' = Tell(gx, h, f)
    /\ fr_down' = Tail(fr_down)
    /\ UNCHANGED <<gx_up, fr_up, scr, view>>

\* POLLOUT.
WorkerFlush ==
    /\ gx.ph = "proxy" /\ gx.out # <<>> /\ Len(gx_down) < pipe_load.room
    /\ rdp_tls_flush(gx)
    /\ UNCHANGED <<gx_up, fr_down, fr_up, scr, view, told>>

-----------------------------------------------------------------------------
(* The worker: a PDU of the client                                          *)

Keep(g) == gx' = g /\ UNCHANGED <<gx_down, told>>

OnSuppress(m) ==
    /\ m.k \in {"suppress", "allow", "refresh"}
    /\ Keep([gx EXCEPT !.suppressed = m.k = "suppress"])

OnGfxOpen(m) == m.k = "gfxopen" /\ Keep([gx EXCEPT !.channel = TRUE])

\* The encoder is opened before the codec is confirmed.
OnGfxCaps(m) ==
    /\ m.k = "gfxcaps"
    /\ LET sel == rdp_rdpgfx_select_caps(m.adv, pipe_load.options)
           e == open_encoder(sel[1].codec, gx.size, pipe_load.opens)
       IN  IF gx.active \/ ~gx.channel \/ sel = <<>> \/ e.codec = "none"
           THEN Keep(gx)
           ELSE /\ rdp_tls_flush(send_gfx_pdu([gx EXCEPT !.active = TRUE, !.enc = e],
                      [k |-> "confirm", version |-> sel[1].version, flags |-> sel[1].flags]))
                /\ UNCHANGED told

OnGfxAck(m) ==
    /\ m.k = "ack"
    /\ Keep([gx EXCEPT !.last_ack = m.id, !.queue_depth = m.depth])

\* Back to bitmaps; the counters and the surface are left as they are.
OnGfxClosed(m) ==
    /\ m.k = "gfxclosed"
    /\ gx' = [gx EXCEPT !.channel = FALSE, !.active = FALSE,
                        !.enc = IF gx.active THEN NoEncoder ELSE @]
    /\ told' = [told EXCEPT !.shown = [a \in Areas |-> -1], !.lost = TRUE]
    /\ UNCHANGED gx_down

\* A size other than the present one starts a reactivation.
OnLayout(m) ==
    /\ m.k = "layout"
    /\ Keep(IF m.size = gx.size THEN gx ELSE [gx EXCEPT !.ph = "flush", !.ask = m.size])

WorkerPdu ==
    /\ gx.ph = "proxy" /\ gx_up # <<>>
    /\ LET m == Head(gx_up) IN
       OnSuppress(m) \/ OnGfxOpen(m) \/ OnGfxCaps(m) \/ OnGfxAck(m)
          \/ OnGfxClosed(m) \/ OnLayout(m)
    /\ gx_up' = Tail(gx_up)
    /\ UNCHANGED <<fr_down, fr_up, scr, view>>

-----------------------------------------------------------------------------
(* The worker: reactivation at another size, with blocking output           *)

flush_blocking ==
    /\ gx.ph = "flush"
    /\ \/ gx.out # <<>> /\ Len(gx_down) < pipe_load.room /\ rdp_tls_flush(gx)
       \/ /\ gx.out = <<>>
          /\ gx' = [gx EXCEPT !.ph = "react", !.tries = 0]
          /\ gx_down' = Append(gx_down, [k |-> "demandactive", size |-> gx.ask])
    /\ UNCHANGED <<gx_up, fr_down, fr_up, scr, view, told>>

\* The client took nothing for five seconds.
FlushTimesOut ==
    /\ gx.ph = "flush" /\ gx.out # <<>> /\ Len(gx_down) >= pipe_load.room
    /\ pipe_load.slow
    /\ gx' = [gx EXCEPT !.ph = "over"]
    /\ UNCHANGED <<gx_down, gx_up, fr_down, fr_up, scr, view, told>>

\* The surface of the old size is taken for one of the new.
Reactivated_SameSurface(g) ==
    [g EXCEPT !.ph = "proxy", !.size = g.ask, !.enc = resize_encoder(@, g.ask),
              !.shadow = NoShadow]

Reactivated(g) ==
    [g EXCEPT !.ph = "proxy", !.size = g.ask, !.enc = resize_encoder(@, g.ask),
              !.surface_created = FALSE, !.shadow = NoShadow]

\* Whatever comes before the Confirm Active is thrown away.
do_reactivate ==
    /\ gx.ph = "react" /\ gx_up # <<>>
    /\ gx_up' = Tail(gx_up)
    /\ \/ /\ Head(gx_up).k = "confirmactive"
          /\ gx' = Reactivated(gx)
          /\ gx_down' = Append(gx_down, [k |-> "fontmap"])
          /\ fr_up' = Append(fr_up, gx.ask)
          /\ told' = [told EXCEPT !.seen = Black, !.shown = Black]
       \/ /\ Head(gx_up).k # "confirmactive"
          /\ gx' = [gx EXCEPT !.tries = @ + 1,
                              !.ph = IF gx.tries + 1 = ReactTries THEN "over" ELSE @]
          /\ UNCHANGED <<gx_down, fr_up, told>>
    /\ UNCHANGED <<fr_down, scr, view>>

-----------------------------------------------------------------------------
(* The session: rdp_session.c's loops for Xvfb and Wayland, which capture   *)
(* the whole desktop, and for the DDX driver, which reports damage          *)

AreaSeq(s) == SetToSortSeq(s, <)

Capture(s, at) == [at |-> AreaSeq(at), pic |-> s.screen]

\* An application draws.
Draws(a) ==
    /\ scr.draws > 0 /\ a \in scr.size
    /\ pipe_load.calm => view.gfx = "on" /\ scr.dirty = {}
    /\ scr' = [scr EXCEPT !.screen[a] = @ + 1, !.dirty = @ \cup {a}, !.draws = @ - 1]
    /\ UNCHANGED <<gx, gx_down, gx_up, fr_down, fr_up, view, told>>

\* Xvfb and Wayland: everything there is; DDX: only the damage.
capture_grab(s) == Capture(s, s.size)
ddx_send_frame_region(s) == Capture(s, s.dirty \cap s.size)
SessionFrame(s) ==
    IF pipe_load.mode = "ddx" THEN ddx_send_frame_region(s) ELSE capture_grab(s)

SessionSends ==
    /\ scr.dirty # {} /\ Len(fr_down) < BackendRoom /\ gx.ph # "over"
    /\ fr_down' = IF SessionFrame(scr).at = <<>> THEN fr_down
                  ELSE Append(fr_down, SessionFrame(scr))
    /\ scr' = [scr EXCEPT !.dirty = {}]
    /\ UNCHANGED <<gx, gx_down, gx_up, fr_up, view, told>>

\* The new size is not captured.
SessionResizes_NotDirty ==
    /\ fr_up # <<>> /\ fr_up' = Tail(fr_up)
    /\ scr' = [scr EXCEPT !.size = Head(fr_up)]
    /\ UNCHANGED <<gx, gx_down, gx_up, fr_down, view, told>>

\* The largest size is refused.
SessionResizes_Less ==
    /\ fr_up # <<>> /\ fr_up' = Tail(fr_up)
    /\ scr' = IF Head(fr_up) = pipe_load.max THEN scr
              ELSE [scr EXCEPT !.size = Head(fr_up), !.dirty = Head(fr_up)]
    /\ UNCHANGED <<gx, gx_down, gx_up, fr_down, view, told>>

\* Xvfb refuses more than its framebuffer.
xvfb_set_mode(s, size) ==
    IF size \subseteq pipe_load.max THEN [s EXCEPT !.size = size, !.dirty = size] ELSE s

\* The DDX driver starts a new, black framebuffer, and reports no damage for it.
do_resize(s, size) ==
    IF size = s.size THEN s
    ELSE [s EXCEPT !.size = size, !.screen = Black, !.dirty = {}]

SessionResizes ==
    /\ fr_up # <<>>
    /\ scr' = IF pipe_load.mode = "ddx" THEN do_resize(scr, Head(fr_up))
              ELSE xvfb_set_mode(scr, Head(fr_up))
    /\ fr_up' = Tail(fr_up)
    /\ UNCHANGED <<gx, gx_down, gx_up, fr_down, view, told>>

-----------------------------------------------------------------------------
(* The client                                                               *)

NoSurface == [have |-> FALSE, mapped |-> FALSE, size |-> {}, last |-> 0, pic |-> Black]

\* A frame is decoded when its surface exists and its reference is there.
Decodes(v, m) ==
    v.surface.have /\ m.size \subseteq v.surface.size /\ (m.whole \/ v.surface.last = m.ref)

Receives(v, m) ==
    CASE m.k = "tile" -> [v EXCEPT !.pic[m.at] = m.v]
      [] m.k = "demandactive" -> [v EXCEPT !.size = m.size, !.pic = Black]
      [] m.k = "fontmap" -> [v EXCEPT !.settled = TRUE]
      [] m.k = "confirm" /\ v.gfx = "asked" ->
            [v EXCEPT !.gfx = "on", !.confirmed = <<[version |-> m.version, flags |-> m.flags]>>]
      [] m.k = "reset" /\ v.gfx = "on" -> [v EXCEPT !.surface = NoSurface]
      [] m.k = "create" /\ v.gfx = "on" ->
            [v EXCEPT !.surface = [NoSurface EXCEPT !.have = TRUE, !.size = m.size]]
      [] m.k = "map" /\ v.gfx = "on" ->
            [v EXCEPT !.surface.mapped = TRUE, !.pic = v.surface.pic]
      [] m.k = "frame" /\ v.gfx = "on" ->
            IF Decodes(v, m)
            THEN [v EXCEPT !.surface.pic = m.pic, !.surface.last = m.id,
                           !.pic = IF v.surface.mapped THEN m.pic ELSE @]
            ELSE [v EXCEPT !.undecoded = TRUE]
      [] OTHER -> v

\* The answers: a Confirm Active, and to a frame an acknowledgement.
Answers(v, m) ==
    CASE m.k = "demandactive" -> {<<[k |-> "confirmactive"]>>}
      [] m.k = "frame" /\ v.gfx = "on" /\ pipe_load.depths # {} ->
            {<<[k |-> "ack", id |-> m.id, depth |-> d]>> : d \in pipe_load.depths}
      [] OTHER -> {<<>>}

ClientDrains ==
    /\ gx_down # <<>>
    /\ \E a \in Answers(view, Head(gx_down)) : gx_up' = gx_up \o a
    /\ view' = Receives(view, Head(gx_down))
    /\ gx_down' = Tail(gx_down)
    /\ UNCHANGED <<gx, fr_down, fr_up, scr, told>>

ClientSays(v, pdus) ==
    /\ gx.ph # "over"
    /\ view' = v
    /\ gx_up' = gx_up \o pdus
    /\ UNCHANGED <<gx, gx_down, fr_down, fr_up, scr, told>>

ClientOpensGfx ==
    /\ view.gfx = "none" /\ pipe_load.caps # <<>>
    /\ ClientSays([view EXCEPT !.gfx = "asked"],
                  <<[k |-> "gfxopen"], [k |-> "gfxcaps", adv |-> pipe_load.caps]>>)

ClientClosesGfx ==
    /\ view.gfx \in {"asked", "on"} /\ pipe_load.closes
    /\ ClientSays([view EXCEPT !.gfx = "shut", !.surface = NoSurface], <<[k |-> "gfxclosed"]>>)

ClientResizes(size) ==
    /\ view.resizes > 0 /\ size # view.asked
    /\ pipe_load.patient => view.asked = view.size /\ view.settled
    /\ ClientSays([view EXCEPT !.asked = size, !.resizes = @ - 1, !.settled = FALSE],
                  <<[k |-> "layout", size |-> size]>>)

ClientMinimises ==
    /\ ~view.minimised /\ view.minimises > 0
    /\ ClientSays([view EXCEPT !.minimised = TRUE, !.minimises = @ - 1], <<[k |-> "suppress"]>>)

ClientRestores ==
    /\ view.minimised
    /\ \E k \in {"allow", "refresh"} :
          ClientSays([view EXCEPT !.minimised = FALSE], <<[k |-> k]>>)

-----------------------------------------------------------------------------
PipeInit ==
    /\ pipe_load \in PipeLoads
    /\ gx = [ph |-> "proxy", size |-> pipe_load.first, ask |-> {}, tries |-> 0,
             suppressed |-> FALSE, channel |-> FALSE, active |-> FALSE, enc |-> NoEncoder,
             surface_created |-> FALSE, frame_id |-> 0, last_ack |-> 0, queue_depth |-> 0,
             bytes_sent |-> 0, cum_bytes |-> [i \in 0 .. RDPGFX_ACK_RING - 1 |-> 0],
             shadow |-> NoShadow, out |-> <<>>]
    /\ gx_down = <<>> /\ gx_up = <<>> /\ fr_down = <<>> /\ fr_up = <<>>
    /\ scr = [size |-> pipe_load.first, screen |-> Black, dirty |-> {},
              draws |-> pipe_load.draws]
    /\ view = [size |-> pipe_load.first, asked |-> pipe_load.first, pic |-> Black,
               settled |-> TRUE, gfx |-> "none", surface |-> NoSurface, confirmed |-> <<>>,
               undecoded |-> FALSE, minimised |-> FALSE,
               resizes |-> pipe_load.resizes, minimises |-> pipe_load.minimises]
    /\ told = [seen |-> Black, shown |-> Black, lost |-> FALSE]

PipeNext ==
    /\ UNCHANGED pipe_load
    /\ \/ WorkerFrame \/ WorkerFlush \/ WorkerPdu
       \/ flush_blocking \/ FlushTimesOut \/ do_reactivate
       \/ \E a \in Areas : Draws(a)
       \/ SessionSends \/ SessionResizes
       \/ ClientDrains \/ ClientOpensGfx \/ ClientClosesGfx
       \/ \E s \in pipe_load.sizes : ClientResizes(s)
       \/ ClientMinimises \/ ClientRestores

PipeSpec == PipeInit /\ [][PipeNext]_<<pipe_vars, pipe_load>>

\* Loops poll, the network delivers, and a client reads and comes back.
PipeFairness ==
    /\ WF_pipe_vars(WorkerFrame /\ UNCHANGED pipe_load)
    /\ WF_pipe_vars(WorkerFlush /\ UNCHANGED pipe_load)
    /\ WF_pipe_vars(WorkerPdu /\ UNCHANGED pipe_load)
    /\ WF_pipe_vars(flush_blocking /\ UNCHANGED pipe_load)
    /\ WF_pipe_vars(do_reactivate /\ UNCHANGED pipe_load)
    /\ WF_pipe_vars(SessionSends /\ UNCHANGED pipe_load)
    /\ WF_pipe_vars(SessionResizes /\ UNCHANGED pipe_load)
    /\ WF_pipe_vars(ClientDrains /\ UNCHANGED pipe_load)
    /\ WF_pipe_vars(ClientRestores /\ UNCHANGED pipe_load)

PipeFair == PipeSpec /\ PipeFairness

-----------------------------------------------------------------------------
(* Properties                                                               *)

\* Nothing is queued or under way to the client.
Quiet == gx.ph = "proxy" /\ gx.out = <<>> /\ gx_down = <<>>

\* Types; an acknowledged frame was sent, and an encoder is of the desktop's size.
PipeTypeOK ==
    /\ gx.ph \in {"proxy", "flush", "react", "over"}
    /\ gx.size \in SUBSET Areas /\ gx.enc.codec \in {"none", "AVC420", "AVC444", "PROGRESSIVE"}
    /\ gx.last_ack <= gx.frame_id
    /\ gx.enc.codec # "none" => gx.active /\ gx.enc.size = gx.size
    /\ view.gfx \in {"none", "asked", "on", "shut"}

\* What the worker let through is what the client shows once it has read it all:
\* the shadow, the encoders, the surface and the tiles lose nothing and keep the
\* order (conn.c:3240-3425, ensure_gfx_surface, shadow_put).
ShownRight ==
    Quiet /\ (view.gfx = "shut" => ~gx.active) /\ view.settled =>
        \A a \in view.size : told.shown[a] \in {-1, view.pic[a]}

\* Every picture can be decoded: none refers to a picture of another encoder or
\* surface (conn.c:3267-3270, "fresh" forces an IDR; rdp_h264_resize).
AllDecoded == ~view.undecoded

\* The confirmed capability set is one the client offered, at most with AVC turned
\* off (rdpgfx.c:106-266).
ConfirmOffered ==
    \A i \in DOMAIN view.confirmed :
        \E j \in DOMAIN pipe_load.caps :
            /\ view.confirmed[i].version = pipe_load.caps[j].version
            /\ view.confirmed[i].flags \ {"AVC_DISABLED"} = pipe_load.caps[j].flags \ {"AVC_DISABLED"}
            /\ gx.enc.codec \in {"AVC420", "AVC444"} =>
                  view.confirmed[i].flags = pipe_load.caps[j].flags

\* The client can follow the worker's stream: it gets capabilities it offered,
\* pictures it can decode, and shows what the worker let through.
FramesRight == ShownRight /\ AllDecoded /\ ConfirmOffered

\* The stream does not stall: a full window opens again (rdpgfx.c:341-343, "so the
\* stream cannot stall").
StreamFlows ==
    gx.active /\ ~rdp_rdpgfx_may_send_frame(gx)
        ~> rdp_rdpgfx_may_send_frame(gx) \/ ~gx.active \/ gx.ph = "over"

\* When the desktop rests the client comes to show it, unless the worker dropped
\* the last frame there was (conn.c:3212-3223).
PictureConverges ==
    <>[](gx.ph = "over" \/ told.lost
         \/ \A a \in view.size : view.pic[a] = scr.screen[a])

\* The size the client asked for last becomes the size of all three.
SizeSettles ==
    <>[](gx.ph = "over" \/ (gx.size = view.asked /\ view.size = view.asked /\ scr.size = view.asked))

\* After any resizes, drops and slow reading, client, worker and session end with
\* the size asked for and the client with the session's picture.
ClientCatchesUp == PictureConverges /\ SizeSettles

=============================================================================
