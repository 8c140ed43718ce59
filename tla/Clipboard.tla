----------------------------- MODULE Clipboard -----------------------------
(***************************************************************************)
(* The clipboard between an RDP client and the X11 session.  Three         *)
(* sequential programs relay over queues: the client (external), the       *)
(* worker (clip_handle_pdu and clip_handle_be in src/daemon/conn.c) and    *)
(* the session (src/session/clip_x11.c), which also talks to the X server  *)
(* and through it to the applications of the desktop (external).           *)
(*                                                                         *)
(* X to RDP: an application becomes owner of CLIPBOARD; the session asks   *)
(* it for its targets and offers them; the client asks for a format and    *)
(* gets the bytes, which a large value delivers in pieces (INCR).          *)
(* RDP to X: the client announces formats; the session becomes owner and   *)
(* asks the client when an application asks it; files are downloaded into  *)
(* a temporary directory first, one range after the other.                 *)
(*                                                                         *)
(* Contents are named by where they come from: a copy of the client by its *)
(* number, a value of an X owner by the owner.  A range of a file is one   *)
(* unit; sizes are in units.                                               *)
(***************************************************************************)
EXTENDS Integers, Sequences, FiniteSets

CONSTANTS
    Owners,     \* X windows that take CLIPBOARD, each at most once
    Apps,       \* applications that paste from the client, each once
    OwnerFmts,  \* [Owners -> SUBSET Formats], what each owner exposes
    CopyFmts,   \* the sets of formats the client may announce
    Files,      \* for each copy the descriptors of its files: [name, size, dir]
    FileMax,    \* CLIP_FILE_DL_MAX, in units
    IncrMax,    \* CLIP_X11_MAX, in pieces
    ClipLoads   \* what may happen in one history, and its bounds:
                \*   owners, apps  those that act
                \*   plain         whether owners answer in one piece or by INCR
                \*   copies, fetches, reads  bounds on what the client does
                \*   losses        bound on worker losses

Formats == {"text", "image", "html", "files"}

\* The encodings of a format: of the client, and of X applications.
ClientForm == [text |-> "utf16", image |-> "dib", html |-> "cf_html", files |-> "fgdw"]
XForm == [text |-> "utf8", image |-> "bmp", html |-> "html", files |-> "uris"]

Nothing == [of |-> "nothing"]

\* A value: whose it is, the client copy it came with, its pieces in order, and
\* for a list of downloaded files what was downloaded.
ClipValue(of, fmt, form, copy, k, len) ==
    [of |-> of, fmt |-> fmt, form |-> form, copy |-> copy, dl |-> <<>>,
     pieces |-> <<[of |-> of, fmt |-> fmt, k |-> k, len |-> len]>>]

VARIABLES
    c,         \* the session's struct rdp_clip
    cs,        \* the worker's struct clip_state
    cl,        \* the client
    app,       \* what each application is waiting for or has got
    sel_owner, \* the owner of CLIPBOARD: "none", "us" or an element of Owners
    conv,      \* conversions asked of each owner and not answered
    incr_src,  \* values that owners are sending in pieces
    prop,      \* the value of our scratch property on owner_win
    xev,       \* X events not read by the session
    s2w, w2s,  \* the backend socket
    w2c, c2w,  \* the CLIPRDR channel
    clip_load, \* the one of ClipLoads of this history
    clip_hist  \* history: what was lost or overtaken, and the bounds' counters

clip_vars == <<c, cs, cl, app, sel_owner, conv, incr_src, prop, xev,
               s2w, w2s, w2c, c2w, clip_hist>>

----------------------------------------------------------------------------
(* clip_x11.c: helpers on struct rdp_clip *)

\* No piece of an incremental value is held.
clip_incr_reset(r) ==
    [r EXCEPT !.incr_active = FALSE, !.incr_discard = FALSE, !.incr_buf = <<>>]

\* The bookkeeping of a download; its directory stays.
clip_dl_clear_state(r) ==
    [r EXCEPT !.dl_active = FALSE, !.dl_descs = <<>>, !.dl_idx = 1,
              !.dl_off = 0, !.dl_stream = 0, !.dl_got = <<>>]

clip_dl_reset(r) == [clip_dl_clear_state(r) EXCEPT !.dl_tmpdir = 0]

clip_files_reset(r) == [r EXCEPT !.file_paths = "none"]

\* A name is kept when no component is empty, "." or "..".
rdp_clip_sanitize_name(name) ==
    name # <<>> /\ \A i \in DOMAIN name : name[i] \notin {"", ".", ".."}

\* The descriptors that clip_dl_start keeps, with the index the client knows.
Kept(files) ==
    LET ok == SelectSeq([i \in DOMAIN files |-> i],
                        LAMBDA i : rdp_clip_sanitize_name(files[i].name))
    IN  [k \in DOMAIN ok |->
            [lindex |-> ok[k], dir |-> files[ok[k]].dir,
             size |-> IF files[ok[k]].dir THEN 0 ELSE files[ok[k]].size,
             top_level |-> Len(files[ok[k]].name) = 1]]

\* The first entry from i on that has bytes to download, or one past the end.
NextFile(descs, i) ==
    LET more == {k \in i..Len(descs) : descs[k].size > 0}
    IN  IF more = {} THEN Len(descs) + 1
        ELSE CHOOSE k \in more : \A m \in more : k <= m

----------------------------------------------------------------------------
(* Sending, and the X server *)

\* Messages to the worker: OFFER, REQUEST, DATA, FILE_REQUEST, FILE_DATA.
ToWorker(m) == s2w' = Append(s2w, m)

send_clip_data(fmt, val) == ToWorker([t |-> "DATA", fmt |-> fmt, val |-> val])

rdp_cliprdr_build_file_list(val) == [val EXCEPT !.form = "fgdw"]

\* The URIs of a file copy as a list of descriptors; none of them may be usable.
build_file_list_from_uris(val) == {Nothing, rdp_cliprdr_build_file_list(val)}

send_fetched_clip_data_AnyFormat(r, fmt, val) ==
    /\ c' = [r EXCEPT !.file_paths = IF val = Nothing THEN @ ELSE val.of]
    /\ send_clip_data(fmt, IF fmt = "files" /\ val # Nothing
                           THEN rdp_cliprdr_build_file_list(val) ELSE val)

send_fetched_clip_data(r, fmt, val) ==
    IF fmt = "files" /\ val # Nothing
    THEN \E list \in build_file_list_from_uris(val) :
            /\ c' = [r EXCEPT !.file_paths = IF list = Nothing THEN "none" ELSE val.of]
            /\ send_clip_data(fmt, list)
    ELSE c' = r /\ send_clip_data(fmt, val)

\* XConvertSelection: an owner is asked; our own window is asked by itself;
\* without an owner the server refuses.
XConvertSelection(target, evs) ==
    CASE sel_owner = "none" ->
            /\ xev' = Append(evs, [t |-> "notify", target |-> target, ok |-> FALSE])
            /\ UNCHANGED conv
      [] sel_owner = "us" ->
            /\ xev' = Append(evs, [t |-> "request", by |-> "self", target |-> target])
            /\ UNCHANGED conv
      [] OTHER ->
            /\ conv' = [conv EXCEPT ![sel_owner] = Append(@, target)]
            /\ xev' = evs

\* What our scratch property holds, if it is bytes.
read_property(p) == IF p.of = "data" THEN p.val ELSE Nothing

\* A property written by somebody is announced before the notification.
Written(target) ==
    <<[t |-> "prop"], [t |-> "notify", target |-> target, ok |-> TRUE]>>

\* answer_selection_request to the deferred or a refused requestor; a request
\* of our own window comes back as an event.
answer_selection_request(by, target, val, evs) ==
    IF by = "self"
    THEN /\ UNCHANGED app
         /\ IF val = Nothing
            THEN /\ xev' = Append(evs, [t |-> "notify", target |-> target, ok |-> FALSE])
                 /\ UNCHANGED prop
            ELSE /\ xev' = evs \o Written(target)
                 /\ prop' = [of |-> "data", val |-> val]
    ELSE /\ app' = [app EXCEPT ![by].st = "answered", ![by].val = val]
         /\ xev' = evs
         /\ UNCHANGED prop

AnswerDeferred(val, evs) ==
    IF c.rdp_data_pending
    THEN answer_selection_request(c.defer.by, c.defer.target, val, evs)
    ELSE xev' = evs /\ UNCHANGED <<app, prop>>

----------------------------------------------------------------------------
(* Session, RDP to X: downloading files *)

clip_dl_abort_Silent(r) ==
    /\ c' = [clip_dl_reset(r) EXCEPT !.rdp_data_pending = FALSE]
    /\ clip_hist' = [clip_hist EXCEPT !.aborted = TRUE, !.handed = 0]
    /\ UNCHANGED <<s2w, app, prop, xev>>

clip_dl_abort_StillPending(r) ==
    /\ c' = clip_dl_reset(r)
    /\ AnswerDeferred(Nothing, xev)
    /\ clip_hist' = [clip_hist EXCEPT !.aborted = TRUE, !.handed = 0]
    /\ UNCHANGED s2w

\* Refuse the deferred request and remove what was downloaded.
clip_dl_abort(r) ==
    /\ c' = [clip_dl_reset(r) EXCEPT !.rdp_data_pending = FALSE]
    /\ AnswerDeferred(Nothing, xev)
    /\ clip_hist' = [clip_hist EXCEPT !.aborted = TRUE, !.handed = 0]
    /\ UNCHANGED s2w

clip_dl_finish_ok_Reset(r) ==
    /\ c' = [clip_dl_reset(r) EXCEPT !.rdp_data_pending = FALSE]
    /\ AnswerDeferred(
            [ClipValue("uris", "files", "uris", r.dl_tmpdir, 1, 1) EXCEPT
                !.dl = [got |-> r.dl_got, descs |-> r.dl_descs]], xev)
    /\ clip_hist' = [clip_hist EXCEPT !.handed = r.dl_tmpdir]
    /\ UNCHANGED s2w

\* The list of the files goes to the application, the directory stays.
clip_dl_finish_ok(r) ==
    /\ c' = [clip_dl_clear_state(r) EXCEPT !.rdp_data_pending = FALSE]
    /\ AnswerDeferred(
            IF \E k \in DOMAIN r.dl_descs : r.dl_descs[k].top_level
            THEN [ClipValue("uris", "files", "uris", r.dl_tmpdir, 1, 1) EXCEPT
                     !.dl = [got |-> r.dl_got, descs |-> r.dl_descs]]
            ELSE Nothing, xev)
    /\ clip_hist' = [clip_hist EXCEPT !.handed = r.dl_tmpdir]
    /\ UNCHANGED s2w

\* Directories and empty files are made on the way to the next file with bytes;
\* making one, or opening the file, may fail.
clip_dl_begin_current(r) ==
    LET k == NextFile(r.dl_descs, r.dl_idx)
    IN  \/ clip_dl_abort(r)
        \/ /\ k > Len(r.dl_descs)
           /\ clip_dl_finish_ok(r)
        \/ /\ k <= Len(r.dl_descs)
           /\ c' = [r EXCEPT !.dl_idx = k, !.dl_off = 0, !.dl_stream = @ + 1]
           /\ ToWorker([t |-> "FILE_REQUEST", stream |-> r.dl_stream + 1,
                        lindex |-> r.dl_descs[k].lindex, pos |-> 0])
           /\ clip_hist' = [clip_hist EXCEPT !.handed = 0]
           /\ UNCHANGED <<app, prop, xev>>

rdp_cliprdr_parse_file_list(copy) == Files[copy]

clip_dl_start(copy) ==
    LET descs == Kept(rdp_cliprdr_parse_file_list(copy))
        r == [clip_dl_reset(c) EXCEPT !.dl_active = TRUE, !.dl_descs = descs,
                                      !.dl_tmpdir = copy]
    IN  IF descs = <<>> \/ \E k \in DOMAIN descs : descs[k].size > FileMax
        THEN clip_dl_abort(c)
        ELSE clip_dl_begin_current(r)

clip_dl_on_file_data_OneChunk(m) ==
    LET r == [c EXCEPT !.dl_idx = @ + 1, !.dl_off = 0,
                       !.dl_got = Append(@, [copy |-> m.copy, lindex |-> m.lindex,
                                             pos |-> m.pos])]
    IN  IF ~c.dl_active \/ c.dl_idx > Len(c.dl_descs) \/ m.stream # c.dl_stream
        THEN UNCHANGED <<c, app, prop, xev, s2w, clip_hist>>
        ELSE IF m.ok THEN clip_dl_begin_current(r) ELSE clip_dl_abort(c)

\* The stream numbers start at 1 for every download.
clip_dl_on_file_data(m) ==
    LET d == c.dl_descs[c.dl_idx]
        r == [c EXCEPT !.dl_off = @ + 1,
                       !.dl_got = Append(@, [copy |-> m.copy, lindex |-> m.lindex,
                                             pos |-> m.pos])]
    IN  IF ~c.dl_active \/ c.dl_idx > Len(c.dl_descs) \/ m.stream # c.dl_stream
        THEN UNCHANGED <<c, app, prop, xev, s2w, clip_hist>>
        ELSE \/ clip_dl_abort(c)                      \* the write fails
             \/ ~m.ok /\ clip_dl_abort(c)             \* failure or too short
             \/ /\ m.ok
                /\ IF r.dl_off >= d.size
                   THEN clip_dl_begin_current([r EXCEPT !.dl_idx = @ + 1])
                   ELSE /\ c' = [r EXCEPT !.dl_stream = @ + 1]
                        /\ ToWorker([t |-> "FILE_REQUEST", stream |-> r.dl_stream + 1,
                                     lindex |-> d.lindex, pos |-> r.dl_off])
                        /\ UNCHANGED <<app, prop, xev, clip_hist>>


----------------------------------------------------------------------------
(* Session: X events *)

\* An owner other than us: drop what was fetched from the last one and ask
\* for the targets.
on_xfixes_selection_notify(evs) ==
    /\ c' = [clip_files_reset(clip_incr_reset(c)) EXCEPT !.x_fetch_fmt = "targets"]
    /\ XConvertSelection("targets", evs)
    /\ UNCHANGED <<app, sel_owner, prop, s2w>>

\* An owner that refuses TARGETS, or whose answer was overwritten, has text.
on_targets_notify(ok, evs) ==
    LET known == ok /\ prop.of = "targets"
    IN  /\ ToWorker([t |-> "OFFER",
                     fmts |-> IF known /\ prop.fmts # {} THEN prop.fmts ELSE {"text"}])
        /\ prop' = IF known THEN Nothing ELSE prop
        /\ xev' = evs
        /\ UNCHANGED <<c, app, sel_owner, conv>>

on_incr_property_Unbounded(evs) ==
    /\ prop' = Nothing
    /\ xev' = evs
    /\ IF prop.of # "data"
       THEN send_fetched_clip_data(clip_incr_reset(c), c.x_fetch_fmt, Nothing)
       ELSE /\ c' = [c EXCEPT !.incr_buf = @ \o prop.val.pieces]
            /\ UNCHANGED s2w
    /\ UNCHANGED <<app, sel_owner, conv>>

on_incr_property_EndLost(evs) ==
    /\ prop' = Nothing
    /\ xev' = evs
    /\ c' = IF prop.of # "data" THEN clip_incr_reset(c)
            ELSE [c EXCEPT !.incr_buf = @ \o prop.val.pieces]
    /\ UNCHANGED <<app, sel_owner, conv, s2w>>

\* A piece of an incremental value: an empty one, or what is no piece of bytes,
\* ends it.
on_incr_property(evs) ==
    LET r == clip_incr_reset(c)
        over == Len(c.incr_buf) = IncrMax
    IN  /\ prop' = Nothing
        /\ xev' = evs
        /\ IF prop.of # "data"
           THEN send_fetched_clip_data(r, c.x_fetch_fmt,
                    IF c.incr_discard \/ c.incr_buf = <<>> THEN Nothing
                    ELSE [ClipValue(c.incr_buf[1].of, c.incr_buf[1].fmt,
                                    XForm[c.incr_buf[1].fmt], 0, 1, 1) EXCEPT
                             !.pieces = c.incr_buf])
           ELSE /\ c' = IF c.incr_discard THEN c
                        ELSE IF over
                        THEN [c EXCEPT !.incr_buf = <<>>, !.incr_discard = TRUE]
                        ELSE [c EXCEPT !.incr_buf = @ \o prop.val.pieces]
                /\ UNCHANGED s2w
        /\ UNCHANGED <<app, sel_owner, conv>>

on_selection_notify_ByRequest(e, evs) ==
    \/ /\ e.target = "targets"
       /\ on_targets_notify(e.ok, evs)
    \/ /\ e.target # "targets"
       /\ send_fetched_clip_data(c, c.x_fetch_fmt, read_property(prop))
       /\ prop' = Nothing
       /\ xev' = evs
       /\ UNCHANGED <<app, sel_owner, conv>>

on_selection_notify_IncrAnswered(e, evs) ==
    \/ /\ e.target = "targets"
       /\ on_targets_notify(e.ok, evs)
    \/ /\ e.target # "targets"
       /\ send_fetched_clip_data(
              [clip_incr_reset(c) EXCEPT !.incr_active = prop.of = "incr"],
              e.target, read_property(prop))
       /\ prop' = Nothing
       /\ xev' = evs
       /\ UNCHANGED <<app, sel_owner, conv>>

\* The answer to a conversion.  A value in one piece is labelled by its target.
on_selection_notify(e, evs) ==
    \/ /\ e.target = "targets"
       /\ on_targets_notify(e.ok, evs)
    \/ /\ e.target # "targets" /\ ~e.ok
       /\ send_clip_data(c.x_fetch_fmt, Nothing)
       /\ xev' = evs
       /\ UNCHANGED <<c, app, sel_owner, conv, prop>>
    \/ /\ e.target # "targets" /\ e.ok /\ prop.of = "incr"
       /\ c' = [clip_incr_reset(c) EXCEPT !.incr_active = TRUE]
       /\ prop' = Nothing
       /\ xev' = evs
       /\ UNCHANGED <<app, sel_owner, conv, s2w>>
    \/ /\ e.target # "targets" /\ e.ok /\ prop.of # "incr"
       /\ send_fetched_clip_data(c, e.target, read_property(prop))
       /\ prop' = Nothing
       /\ xev' = evs
       /\ UNCHANGED <<app, sel_owner, conv>>

on_selection_request_Overlapping(e, evs) ==
    IF e.target \in c.rdp_offered
    THEN /\ c' = [c EXCEPT !.rdp_data_pending = TRUE,
                           !.defer = [by |-> e.by, target |-> e.target]]
         /\ ToWorker([t |-> "REQUEST", fmt |-> e.target])
         /\ xev' = evs
         /\ UNCHANGED <<app, sel_owner, conv, prop>>
    ELSE /\ answer_selection_request(e.by, e.target, Nothing, evs)
         /\ UNCHANGED <<c, sel_owner, conv, s2w>>

\* An application, or our own window, asks us.  One request is deferred at a
\* time; TARGETS is answered at once.
on_selection_request(e, evs) ==
    IF e.target \in c.rdp_offered /\ ~c.rdp_data_pending
    THEN /\ c' = [c EXCEPT !.rdp_data_pending = TRUE,
                           !.defer = [by |-> e.by, target |-> e.target]]
         /\ ToWorker([t |-> "REQUEST", fmt |-> e.target])
         /\ xev' = evs
         /\ UNCHANGED <<app, sel_owner, conv, prop>>
    ELSE /\ IF e.target = "targets"
            THEN /\ prop' = [of |-> "targets", fmts |-> c.rdp_offered]
                 /\ xev' = evs \o Written("targets")
                 /\ UNCHANGED app
            ELSE answer_selection_request(e.by, e.target, Nothing, evs)
         /\ UNCHANGED <<c, sel_owner, conv, s2w>>

\* Somebody took CLIPBOARD from us.
SelectionClear(evs) ==
    /\ c' = [clip_dl_reset(clip_files_reset(c)) EXCEPT
                !.rdp_offered = {}, !.rdp_data_pending = FALSE]
    /\ xev' = evs
    /\ UNCHANGED <<app, sel_owner, conv, prop, s2w>>

rdp_clip_handle_xevent ==
    /\ xev # <<>>
    /\ LET e == Head(xev)
           evs == Tail(xev)
       IN  \/ e.t = "owner" /\ on_xfixes_selection_notify(evs) /\ UNCHANGED clip_hist
           \/ e.t = "notify" /\ on_selection_notify(e, evs) /\ UNCHANGED clip_hist
           \/ e.t = "request" /\ on_selection_request(e, evs) /\ UNCHANGED clip_hist
           \/ e.t = "prop" /\ c.incr_active /\ on_incr_property(evs) /\ UNCHANGED clip_hist
           \/ /\ e.t = "prop" /\ ~c.incr_active
              /\ xev' = evs
              /\ UNCHANGED <<c, app, sel_owner, conv, prop, s2w, clip_hist>>
           \/ /\ e.t = "clear"
              /\ SelectionClear(evs)
              /\ clip_hist' = [clip_hist EXCEPT !.overtaken = @ \/ c.rdp_data_pending, !.handed = 0]
    /\ UNCHANGED <<cs, cl, incr_src, w2s, w2c, c2w>>

----------------------------------------------------------------------------
(* Session: messages of the worker (rdp_clip_handle_be_msg) *)

\* The client announced formats: we take CLIPBOARD.
BeOffer(m) ==
    /\ c' = [clip_dl_reset(c) EXCEPT !.rdp_offered = m.fmts,
                                     !.rdp_data_pending = FALSE]
    /\ sel_owner' = "us"
    /\ clip_hist' = [clip_hist EXCEPT !.overtaken = @ \/ c.rdp_data_pending, !.handed = 0]
    /\ UNCHANGED <<app, conv, prop, xev, s2w>>

\* The client wants a value of the X owner.
BeRequest(m) ==
    /\ c' = [clip_incr_reset(c) EXCEPT !.x_fetch_fmt = m.fmt]
    /\ XConvertSelection(m.fmt, xev)
    /\ UNCHANGED <<app, sel_owner, prop, s2w, clip_hist>>

\* The client's value for the deferred request, whatever its format is.  What
\* is no list of files does not parse as one.
BeData(m) ==
    /\ IF m.fmt = "files"
       THEN IF ~c.rdp_data_pending
            THEN UNCHANGED <<c, app, prop, xev, s2w, clip_hist>>
            ELSE IF m.val = Nothing \/ m.val.fmt # "files" THEN clip_dl_abort(c)
            ELSE clip_dl_start(m.val.copy)
       ELSE /\ c' = [c EXCEPT !.rdp_data_pending = FALSE]
            /\ AnswerDeferred(m.val, xev)
            /\ UNCHANGED <<s2w, clip_hist>>
    /\ UNCHANGED <<sel_owner, conv>>

BeFileData(m) == clip_dl_on_file_data(m) /\ UNCHANGED <<sel_owner, conv>>

\* The client reads a file of the list we sent last; the file may be gone.
BeFileRequest(m) ==
    /\ \E readable \in BOOLEAN :
          ToWorker([t |-> "FILE_DATA", stream |-> m.stream, of |-> c.file_paths,
                    ok |-> readable /\ c.file_paths # "none"])
    /\ UNCHANGED <<c, app, sel_owner, conv, prop, xev, clip_hist>>

rdp_clip_handle_be_msg ==
    /\ w2s # <<>>
    /\ LET m == Head(w2s)
       IN  \/ m.t = "OFFER" /\ BeOffer(m)
           \/ m.t = "REQUEST" /\ BeRequest(m)
           \/ m.t = "DATA" /\ BeData(m)
           \/ m.t = "FILE_DATA" /\ BeFileData(m)
           \/ m.t = "FILE_REQUEST" /\ BeFileRequest(m)
    /\ w2s' = Tail(w2s)
    /\ UNCHANGED <<cs, cl, incr_src, w2c, c2w>>

----------------------------------------------------------------------------
(* Worker *)

\* The formats of a list that we know; the others are passed over.
rdp_cliprdr_parse_format_list(list) == list \cap Formats

rdp_cliprdr_build_format_list(fmts) == [t |-> "FORMAT_LIST", fmts |-> fmts]

rdp_cliprdr_build_format_data_request(fmt) ==
    [t |-> "FORMAT_DATA_REQUEST", fmt |-> fmt]

rdp_cliprdr_build_format_data_response(fmt, val) ==
    [t |-> "FORMAT_DATA_RESPONSE", fmt |-> fmt, val |-> val]

\* A DIB becomes a BMP file and back.  It may turn out to be malformed, and what
\* is no bitmap cannot become one.
DibAndBmp(val, from, to) ==
    {Nothing} \cup (IF val.form = from THEN {[val EXCEPT !.form = to]} ELSE {})

\* The fragment of a CF_HTML envelope; what has none is all fragment.
rdp_cliprdr_html_unwrap(val) ==
    [val EXCEPT !.form = IF @ = "cf_html" THEN "html" ELSE @]

rdp_cliprdr_html_wrap(val) ==
    [val EXCEPT !.form = IF @ = "html" THEN "cf_html" ELSE "garbled"]

\* What a value of the client becomes for the session, read as fmt.
FromClient(val, fmt) ==
    CASE val = Nothing \/ fmt = "files" -> {val}
      [] val # Nothing /\ fmt = "image" -> DibAndBmp(val, "dib", "bmp")
      [] val # Nothing /\ fmt = "html" -> {rdp_cliprdr_html_unwrap(val)}
      [] OTHER -> {[val EXCEPT !.form = IF @ = "utf16" THEN "utf8" ELSE "garbled"]}

\* What a value of the session becomes for the client.
ToClient(val, fmt) ==
    CASE val = Nothing \/ fmt = "files" -> {val}
      [] val # Nothing /\ fmt = "image" -> DibAndBmp(val, "bmp", "dib")
      [] val # Nothing /\ fmt = "html" -> {rdp_cliprdr_html_wrap(val)}
      [] OTHER -> {[val EXCEPT !.form = IF @ = "utf8" THEN "utf16" ELSE "garbled"]}

rdp_cliprdr_build_filecontents_request(m) == [m EXCEPT !.t = "FILECONTENTS_REQUEST"]

rdp_cliprdr_build_filecontents_response(m) == [m EXCEPT !.t = "FILECONTENTS_RESPONSE"]

\* Requests for ranges of files, and the ranges, pass as they are.
FileFromClient(m) ==
    [m EXCEPT !.t = IF m.t = "FILECONTENTS_REQUEST" THEN "FILE_REQUEST" ELSE "FILE_DATA"]

FileToClient(m) ==
    IF m.t = "FILE_REQUEST" THEN rdp_cliprdr_build_filecontents_request(m)
    ELSE rdp_cliprdr_build_filecontents_response(m)

\* A PDU of the client.  A response is decoded as the format last requested; a
\* request for a format that is not ours is refused at once.
clip_handle_pdu ==
    /\ c2w # <<>>
    /\ LET m == Head(c2w)
           fmts == rdp_cliprdr_parse_format_list(m.fmts)
       IN  \/ /\ m.t = "FORMAT_LIST"
              /\ cs' = [cs EXCEPT !.ids = fmts]
              /\ w2s' = IF fmts = {} THEN w2s
                        ELSE Append(w2s, [t |-> "OFFER", fmts |-> fmts])
              /\ UNCHANGED w2c
           \/ /\ m.t = "FORMAT_DATA_REQUEST" /\ m.fmt \in Formats
              /\ w2s' = Append(w2s, [t |-> "REQUEST", fmt |-> m.fmt])
              /\ UNCHANGED <<cs, w2c>>
           \/ /\ m.t = "FORMAT_DATA_REQUEST" /\ m.fmt \notin Formats
              /\ w2c' = Append(w2c, rdp_cliprdr_build_format_data_response("text", Nothing))
              /\ UNCHANGED <<cs, w2s>>
           \/ /\ m.t = "FORMAT_DATA_RESPONSE"
              /\ cs' = [cs EXCEPT !.pending_req_fmt = "none"]
              /\ \E val \in FromClient(m.val, cs.pending_req_fmt) :
                    w2s' = Append(w2s, [t |-> "DATA", val |-> val,
                               fmt |-> IF val # Nothing /\ cs.pending_req_fmt = "none"
                                       THEN "text" ELSE cs.pending_req_fmt])
              /\ UNCHANGED w2c
           \/ /\ m.t \in {"FILECONTENTS_REQUEST", "FILECONTENTS_RESPONSE"}
              /\ w2s' = Append(w2s, FileFromClient(m))
              /\ UNCHANGED <<cs, w2c>>
    /\ c2w' = Tail(c2w)
    /\ UNCHANGED <<c, cl, app, sel_owner, conv, incr_src, prop, xev, s2w, clip_hist>>

\* A message of the session.  Of a format the client did not announce nothing is
\* asked, or said.
clip_handle_be ==
    /\ s2w # <<>>
    /\ LET m == Head(s2w)
           asks == m.fmt = "text" \/ m.fmt \in cs.ids
       IN  \/ /\ m.t = "OFFER"
              /\ w2c' = Append(w2c, rdp_cliprdr_build_format_list(m.fmts))
              /\ UNCHANGED cs
           \/ /\ m.t = "REQUEST" /\ ~asks
              /\ UNCHANGED <<cs, w2c>>
           \/ /\ m.t = "REQUEST" /\ asks
              /\ cs' = [cs EXCEPT !.pending_req_fmt = m.fmt]
              /\ w2c' = Append(w2c, rdp_cliprdr_build_format_data_request(m.fmt))
           \/ /\ m.t = "DATA"
              /\ \E val \in ToClient(m.val, m.fmt) :
                    w2c' = Append(w2c, rdp_cliprdr_build_format_data_response(
                                IF m.fmt \in Formats THEN m.fmt ELSE "text", val))
              /\ UNCHANGED cs
           \/ /\ m.t \in {"FILE_DATA", "FILE_REQUEST"}
              /\ w2c' = Append(w2c, FileToClient(m))
              /\ UNCHANGED cs
    /\ s2w' = Tail(s2w)
    /\ UNCHANGED <<c, cl, app, sel_owner, conv, incr_src, prop, xev, w2s, c2w, clip_hist>>

----------------------------------------------------------------------------
(* The client (external): it has one request for data open at a time and reads
   the files of the list it got last *)

ClientSees(m) ==
    \/ /\ m.t = "FORMAT_LIST"
       /\ cl' = [cl EXCEPT !.offer = m.fmts, !.fmts = {}]
       /\ UNCHANGED c2w
    \/ /\ m.t = "FORMAT_DATA_REQUEST"
       /\ c2w' = Append(c2w, [t |-> "FORMAT_DATA_RESPONSE",
                    val |-> IF m.fmt \in cl.fmts
                            THEN ClipValue("client", m.fmt, ClientForm[m.fmt],
                                           cl.copies, 1, 1)
                            ELSE Nothing])
       /\ UNCHANGED cl
    \/ /\ m.t = "FORMAT_DATA_RESPONSE"
       /\ cl' = [cl EXCEPT !.open = @ - 1,
                           !.list = IF m.val # Nothing /\ m.fmt = "files"
                                    THEN m.val.of ELSE @]
       /\ UNCHANGED c2w
    \/ /\ m.t = "FILECONTENTS_REQUEST"
       /\ cl' = [cl EXCEPT !.todo = Append(@, m)]
       /\ UNCHANGED c2w
    \/ /\ m.t = "FILECONTENTS_RESPONSE"
       /\ UNCHANGED <<cl, c2w>>

ClipClient ==
    /\ w2c # <<>>
    /\ ClientSees(Head(w2c))
    /\ w2c' = Tail(w2c)
    /\ UNCHANGED <<c, cs, app, sel_owner, conv, incr_src, prop, xev, s2w, w2s, clip_hist>>

\* Reading a file takes its time; other requests are answered meanwhile.
ClientServesFile ==
    /\ cl.todo # <<>>
    /\ LET m == Head(cl.todo)
           list == IF "files" \in cl.fmts THEN Files[cl.copies] ELSE <<>>
       IN  \E ok \in BOOLEAN :
              c2w' = Append(c2w, [t |-> "FILECONTENTS_RESPONSE", stream |-> m.stream,
                         lindex |-> m.lindex, pos |-> m.pos, copy |-> cl.copies,
                         ok |-> ok /\ m.lindex \in DOMAIN list
                                   /\ m.pos < list[m.lindex].size])
    /\ cl' = [cl EXCEPT !.todo = Tail(@)]
    /\ UNCHANGED <<c, cs, app, sel_owner, conv, incr_src, prop, xev, s2w, w2s, w2c, clip_hist>>

ClientCopies ==
    /\ cl.copies < clip_load.copies
    /\ \E F \in CopyFmts :
          /\ cl' = [cl EXCEPT !.copies = @ + 1, !.fmts = F, !.offer = {}]
          /\ c2w' = Append(c2w, [t |-> "FORMAT_LIST", fmts |-> F])
    /\ UNCHANGED <<c, cs, app, sel_owner, conv, incr_src, prop, xev, s2w, w2s, w2c, clip_hist>>

ClientPastes ==
    /\ cl.open = 0 /\ clip_hist.fetches < clip_load.fetches
    /\ clip_hist' = [clip_hist EXCEPT !.fetches = @ + 1]
    /\ cl.offer # {}
    /\ \E f \in cl.offer \cup {"other"} :
          /\ cl' = [cl EXCEPT !.open = 1]
          /\ c2w' = Append(c2w, [t |-> "FORMAT_DATA_REQUEST", fmt |-> f])
    /\ UNCHANGED <<c, cs, app, sel_owner, conv, incr_src, prop, xev, s2w, w2s, w2c>>

ClientReads ==
    /\ cl.open = 0 /\ cl.list # "none" /\ clip_hist.reads < clip_load.reads
    /\ clip_hist' = [clip_hist EXCEPT !.reads = @ + 1]
    /\ c2w' = Append(c2w, [t |-> "FILECONTENTS_REQUEST", stream |-> clip_hist.reads])
    /\ UNCHANGED <<c, cs, cl, app, sel_owner, conv, incr_src, prop, xev, s2w, w2s, w2c>>

----------------------------------------------------------------------------
(* The X server and the applications (external) *)

\* An application takes CLIPBOARD; we hear of it, and of our loss.
OwnerTakes(o) ==
    /\ o \notin clip_hist.owned
    /\ clip_hist' = [clip_hist EXCEPT !.owned = @ \cup {o}]
    /\ sel_owner' = o
    /\ xev' = xev \o (IF sel_owner = "us" THEN <<[t |-> "clear"]>> ELSE <<>>)
                  \o <<[t |-> "owner"]>>
    /\ UNCHANGED <<c, cs, cl, app, conv, incr_src, prop, s2w, w2s, w2c, c2w>>

\* An owner answers what it was asked, in order, even after it lost CLIPBOARD:
\* it refuses, writes the value, or starts to send it in pieces.
OwnerAnswers(o) ==
    /\ conv[o] # <<>>
    /\ conv' = [conv EXCEPT ![o] = Tail(@)]
    /\ LET target == Head(conv[o])
       IN  \/ /\ target \notin OwnerFmts[o]
              /\ xev' = Append(xev, [t |-> "notify", target |-> target, ok |-> FALSE])
              /\ UNCHANGED <<prop, incr_src>>
           \/ /\ target = "targets"
              /\ prop' = [of |-> "targets", fmts |-> OwnerFmts[o]]
              /\ xev' = xev \o Written(target)
              /\ UNCHANGED incr_src
           \/ /\ target \in OwnerFmts[o] /\ TRUE \in clip_load.plain
              /\ prop' = [of |-> "data", 
                        val |-> ClipValue(o, target, XForm[target], 0, 1, 1)]
              /\ xev' = xev \o Written(target)
              /\ UNCHANGED incr_src
           \/ /\ target \in OwnerFmts[o] /\ FALSE \in clip_load.plain
              /\ prop' = [of |-> "incr"]
              /\ xev' = xev \o Written(target)
              /\ \E n \in {2, IncrMax + 1} :
                    incr_src' = [incr_src EXCEPT ![o] =
                                    [of |-> o, fmt |-> target, k |-> 1, len |-> n]]
    /\ UNCHANGED <<c, cs, cl, app, sel_owner, s2w, w2s, w2c, c2w, clip_hist>>

\* The next piece, or the empty one, once the property is gone.
OwnerSends(o) ==
    /\ incr_src[o] # Nothing
    /\ prop = Nothing
    /\ LET v == incr_src[o]
       IN  IF v.k <= v.len
           THEN /\ prop' = [of |-> "data", 
                          val |-> ClipValue(o, v.fmt, XForm[v.fmt], 0, v.k, v.len)]
                /\ incr_src' = [incr_src EXCEPT ![o].k = @ + 1]
           ELSE /\ prop' = [of |-> "end"]
                /\ incr_src' = [incr_src EXCEPT ![o] = Nothing]
    /\ xev' = Append(xev, [t |-> "prop"])
    /\ UNCHANGED <<c, cs, cl, app, sel_owner, conv, s2w, w2s, w2c, c2w, clip_hist>>

AppAsks(a) ==
    /\ app[a].st = "idle" /\ sel_owner = "us"
    /\ \E f \in c.rdp_offered :
          /\ app' = [app EXCEPT ![a] = [st |-> "waiting", fmt |-> f, val |-> Nothing]]
          /\ xev' = Append(xev, [t |-> "request", by |-> a, target |-> f])
    /\ UNCHANGED <<c, cs, cl, sel_owner, conv, incr_src, prop, s2w, w2s, w2c, c2w, clip_hist>>

\* The worker and its client are gone and another pair takes the session over;
\* the backend socket is the same one.
ClipWorkerLost ==
    /\ clip_hist.losses < clip_load.losses
    /\ clip_hist' = [clip_hist EXCEPT !.losses = @ + 1]
    /\ cs' = [ids |-> {}, pending_req_fmt |-> "none"]
    /\ cl' = [cl EXCEPT !.fmts = {}, !.offer = {}, !.open = 0,
                        !.list = "none", !.todo = <<>>]
    /\ w2c' = <<>> /\ c2w' = <<>>
    /\ UNCHANGED <<c, app, sel_owner, conv, incr_src, prop, xev, s2w, w2s>>

----------------------------------------------------------------------------

rdp_clip_init ==
    c = [incr_active |-> FALSE, incr_discard |-> FALSE, incr_buf |-> <<>>,
         x_fetch_fmt |-> "targets", rdp_offered |-> {}, rdp_data_pending |-> FALSE,
         defer |-> [by |-> "self", target |-> "text"], file_paths |-> "none",
         dl_active |-> FALSE, dl_descs |-> <<>>, dl_idx |-> 1, dl_off |-> 0,
         dl_stream |-> 0, dl_got |-> <<>>, dl_tmpdir |-> 0]

ClipInit ==
    /\ rdp_clip_init
    /\ cs = [ids |-> {}, pending_req_fmt |-> "none"]
    /\ cl = [copies |-> 0, fmts |-> {}, offer |-> {}, open |-> 0,
             list |-> "none", todo |-> <<>>]
    /\ app = [a \in Apps |-> [st |-> "idle", fmt |-> "text", val |-> Nothing]]
    /\ sel_owner = "none"
    /\ conv = [o \in Owners |-> <<>>]
    /\ incr_src = [o \in Owners |-> Nothing]
    /\ prop = Nothing
    /\ xev = <<>> /\ s2w = <<>> /\ w2s = <<>> /\ w2c = <<>> /\ c2w = <<>>
    /\ clip_load \in ClipLoads
    /\ clip_hist = [overtaken |-> FALSE, aborted |-> FALSE, handed |-> 0, owned |-> {},
               fetches |-> 0, reads |-> 0, losses |-> 0]

ClipNext ==
    /\ UNCHANGED clip_load
    /\ \/ rdp_clip_handle_xevent
       \/ rdp_clip_handle_be_msg
       \/ clip_handle_pdu
       \/ clip_handle_be
       \/ ClipClient
       \/ ClientServesFile
       \/ ClientCopies
       \/ ClientPastes
       \/ ClientReads
       \/ \E o \in clip_load.owners : OwnerTakes(o) \/ OwnerAnswers(o) \/ OwnerSends(o)
       \/ \E a \in clip_load.apps : AppAsks(a)
       \/ ClipWorkerLost

\* The loops of session, worker and client go on, and asked owners answer.
ClipFairness ==
    /\ WF_clip_vars(rdp_clip_handle_xevent)
    /\ WF_clip_vars(rdp_clip_handle_be_msg)
    /\ WF_clip_vars(clip_handle_pdu)
    /\ WF_clip_vars(clip_handle_be)
    /\ WF_clip_vars(ClipClient)
    /\ WF_clip_vars(ClientServesFile)
    /\ \A o \in Owners : WF_clip_vars(OwnerAnswers(o)) /\ WF_clip_vars(OwnerSends(o))

ClipSpec == ClipInit /\ [][ClipNext]_<<clip_vars, clip_load>>
ClipFairSpec == ClipSpec /\ ClipFairness

----------------------------------------------------------------------------
(* Properties *)

\* The session's record stays in the shape rdp_clip_init gives it.
ClipTypeOK ==
    /\ c.rdp_offered \subseteq Formats
    /\ c.x_fetch_fmt \in Formats \cup {"targets"}
    /\ c.defer.by \in Apps \cup {"self"}
    /\ Len(c.incr_buf) <= IncrMax
    /\ c.dl_off <= FileMax
    /\ sel_owner \in Owners \cup {"none", "us"}

\* While rdp_data_pending is set, the deferred requestor has not been answered
\* (clip_x11.c holds one of them and answers it from several places).
DeferredIsWaiting ==
    c.rdp_data_pending =>
        c.defer.by = "self" \/ app[c.defer.by].st = "waiting"

\* An application gets what it asked for, in the encoding of X.
Matches(a) ==
    app[a].val # Nothing =>
        app[a].val.fmt = app[a].fmt /\ app[a].val.form = XForm[app[a].fmt]

\* Every application's request is answered with the format it is for, as long as
\* no request was forgotten because of a new offer (clip_handle_pdu decodes by
\* the format last requested).
AnswerMatches == clip_hist.overtaken \/ \A a \in Apps : Matches(a)

\* v lists files of one copy, each downloaded in full.
PasteIsComplete(v) ==
    /\ \A i \in DOMAIN v.dl.got : v.dl.got[i].copy = v.copy
    /\ \A k \in DOMAIN v.dl.descs :
          {v.dl.got[i].pos : i \in {j \in DOMAIN v.dl.got :
                    v.dl.got[j].lindex = v.dl.descs[k].lindex}}
              = 0..(v.dl.descs[k].size - 1)

\* A list of files given to an application names files that were downloaded in
\* full, from one copy, unless a download was aborted before.
PasteComplete ==
    clip_hist.aborted \/ clip_hist.overtaken \/
    \A a \in Apps : app[a].val # Nothing /\ app[a].val.of = "uris"
                        => PasteIsComplete(app[a].val)

\* Replies to an aborted download are not written into the files of another.
StaleReplyDropped ==
    \A a \in Apps : app[a].val # Nothing /\ app[a].val.of = "uris"
                        => PasteIsComplete(app[a].val)

\* The temporary directory exists exactly while files are downloaded into it
\* or an application has its list: until the next paste, offer or owner.
TempDirKept ==
    (c.dl_tmpdir # 0) <=> (c.dl_active \/ clip_hist.handed # 0)

\* The client gets one response for each of its requests, no more.
OneResponse ==
    clip_hist.losses = 0 => cl.open \in {0, 1}

\* A value that an owner gave in one piece reaches the client under its own
\* format and in its encoding, whatever owners did meanwhile.
LabelledRight ==
    \A i \in DOMAIN w2c :
        /\ w2c[i].t = "FORMAT_DATA_RESPONSE" /\ w2c[i].val # Nothing
        /\ w2c[i].val.of \in Owners
        /\ \A k \in DOMAIN w2c[i].val.pieces : w2c[i].val.pieces[k].len = 1
        => /\ w2c[i].fmt = w2c[i].val.fmt
           /\ w2c[i].val.form = ClientForm[w2c[i].fmt]

\* Bytes the client reads are of a file of the list it got last.
FileBytesAsListed ==
    /\ clip_hist.losses = 0 /\ w2c # <<>>
    /\ Head(w2c).t = "FILECONTENTS_RESPONSE" /\ Head(w2c).ok
    => Head(w2c).of = cl.list

\* Every answer goes to the one request it is for, under its format and in the
\* encoding of the side that asked: applications (AnswerMatches,
\* DeferredIsWaiting) and the client (LabelledRight, OneResponse), whatever
\* owners and offers changed meanwhile (clip_x11.c, clip_handle_pdu).
AnswersRight == DeferredIsWaiting /\ AnswerMatches /\ LabelledRight /\ OneResponse

\* Files arrive whole and are those of the list that was given, to applications
\* (PasteComplete) and to the client (FileBytesAsListed), and stay as long as the
\* list is in use (TempDirKept).
FilesRight == PasteComplete /\ FileBytesAsListed /\ TempDirKept

\* An application that asks is answered, unless a new offer or owner makes the
\* session forget the request, or a worker is lost with it.
PastesAnswered ==
    \A a \in Apps : app[a].st = "waiting" ~>
        app[a].st = "answered" \/ clip_hist.overtaken \/ clip_hist.losses > 0

\* The client's request for data is answered, unless the owner changes under it
\* or a worker is lost.
ClientAnswered ==
    cl.open = 1 ~>
        cl.open # 1 \/ Cardinality(clip_hist.owned) > 1 \/ clip_hist.losses > 0
============================================================================
