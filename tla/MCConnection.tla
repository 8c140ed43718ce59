---------------------------- MODULE MCConnection ----------------------------
(* Small instances of the parts of a connection.                            *)
EXTENDS Connection

CONSTANTS camA, camB

-----------------------------------------------------------------------------
(* Dynamic channels: microphone and touch, cameras that come and go, a      *)
(* client that offers no camera device, many touches                        *)

ChanLoad(accepts, pieces, outcomes, left) ==
    [accepts |-> accepts, pieces |-> pieces, outcomes |-> outcomes, echoes |-> FALSE,
     cuts |-> FALSE, batches |-> FALSE, devices |-> TRUE, left |-> left]
Left(a, t, p, u, s) == [audio |-> a, touches |-> t, plugs |-> p, unplugs |-> u, samples |-> s]

CamChans == {"camenum", "camdev"}

ChanWork ==
    {ChanLoad({"audioin", "rdpei"}, {1, 2}, BOOLEAN, Left(1, 1, 0, 0, 0)),
     ChanLoad(CamChans, {1}, {TRUE}, Left(0, 0, 2, 1, 2)),
     [ChanLoad(CamChans, {1}, BOOLEAN, Left(0, 0, 2, 1, 2)) EXCEPT !.devices = FALSE],
     ChanLoad(CamChans \cup {"rdpei"}, {2}, BOOLEAN, Left(0, 1, 1, 0, 1)),
     ChanLoad({"rdpei"}, {1}, {TRUE}, Left(0, 4, 0, 0, 0))}
ChanProgressWork ==
    {ChanLoad({"audioin", "rdpei"}, {1, 2}, {TRUE}, Left(1, 0, 0, 0, 0)),
     ChanLoad(CamChans, {1}, {TRUE}, Left(0, 0, 2, 1, 1))}
TouchBatchWork ==
    {[ChanLoad({"rdpei"}, {1}, {TRUE}, Left(0, 2, 0, 0, 0)) EXCEPT !.batches = TRUE]}

Media(f, r, x) == [format |-> f, raw |-> r, fits |-> x]
CamMedia ==
    [d \in Cameras |->
        IF d = camA
        THEN <<Media("H264", FALSE, TRUE), Media("RGB24", TRUE, TRUE),
               Media("NV12", TRUE, FALSE), Media("YUY2", TRUE, TRUE)>>
        ELSE <<Media("I420", TRUE, TRUE)>>]

-----------------------------------------------------------------------------
(* Frames: bitmaps and each codec, resizes, a minimised window, a slow      *)
(* client, encoders that do not open                                        *)

Cap(v, f) == [version |-> v, flags |-> f]
V10 == <<Cap(102, {"SMALL"}), Cap(81, {"AVC420"})>>

PipeLoad ==
    [mode |-> "xvfb", first |-> {1}, max |-> {1, 2}, sizes |-> {{1}, {1, 2}},
     caps |-> <<>>, options |-> [avc |-> TRUE, avc444 |-> FALSE, progressive |-> FALSE],
     opens |-> {"AVC420", "AVC444", "PROGRESSIVE"}, depths |-> {}, closes |-> FALSE,
     slow |-> FALSE, patient |-> TRUE, calm |-> FALSE, room |-> 3,
     draws |-> 2, resizes |-> 0, minimises |-> 0]
GfxLoad == [PipeLoad EXCEPT !.caps = V10]
DdxLoad == [PipeLoad EXCEPT !.mode = "ddx", !.first = {1, 2}, !.draws = 3]

PipeWork ==
    {[PipeLoad EXCEPT !.resizes = 1, !.minimises = 1],
     [DdxLoad EXCEPT !.resizes = 1],
     [DdxLoad EXCEPT !.caps = V10, !.calm = TRUE],
     [GfxLoad EXCEPT !.depths = {0, 2}, !.draws = 3, !.closes = TRUE],
     [GfxLoad EXCEPT !.resizes = 1, !.slow = TRUE, !.options.avc444 = TRUE, !.opens = {"AVC420"}],
     [GfxLoad EXCEPT !.resizes = 1, !.depths = {1}, !.options.avc444 = TRUE],
     [GfxLoad EXCEPT !.draws = 1, !.opens = {}],
     [PipeLoad EXCEPT !.draws = 1, !.caps =
        <<Cap(81, {"AVC420"}), Cap(81, {"AVC420", "SMALL"}), Cap(102, {"AVC_DISABLED"})>>],
     [PipeLoad EXCEPT !.draws = 1, !.caps =
        <<Cap(107, {}), Cap(104, {"SMALL"}), Cap(101, {"AVC_DISABLED"})>>],
     [PipeLoad EXCEPT !.draws = 1, !.caps = <<Cap(102, {})>>, !.options.avc = FALSE,
                      !.options.progressive = TRUE],
     [PipeLoad EXCEPT !.draws = 1, !.caps = <<Cap(102, {})>>, !.options.avc = FALSE],
     [PipeLoad EXCEPT !.resizes = 1, !.options.avc = FALSE, !.options.progressive = TRUE, !.caps =
        <<Cap(80, {"SMALL"}), Cap(104, {}), Cap(103, {"AVC_DISABLED"})>>]}
PipeProgressWork ==
    {[PipeLoad EXCEPT !.resizes = 2, !.draws = 1, !.room = 20],
     DdxLoad,
     [GfxLoad EXCEPT !.resizes = 1],
     [GfxLoad EXCEPT !.minimises = 1],
     [GfxLoad EXCEPT !.depths = {0, 1, 2, Unacked}, !.draws = 4, !.closes = TRUE]}
PipeStallWork == {[GfxLoad EXCEPT !.depths = {2}, !.draws = 3, !.resizes = 1]}
PipeStaleWork == {[PipeLoad EXCEPT !.minimises = 1]}
PipeShadowWork == {[DdxLoad EXCEPT !.caps = V10, !.draws = 2]}

-----------------------------------------------------------------------------
(* The connection: what the client asks for and whether it leaves; each     *)
(* step of NLA; desktops of up to three monitors; links of several rates;   *)
(* time zones; keys pressed early, credentials given at once                *)

Mon(l, t, r, b) == [left |-> l, top |-> t, right |-> r, bottom |-> b]
Zone(b, s, d, r) == [bias |-> b, std_bias |-> s, dst_bias |-> d, rule |-> r, named |-> FALSE]
Nla(v, n, h, m, k) ==
    [version |-> v, nonce |-> n, user |-> "ann", hash |-> h, mic |-> m, key_exch |-> k]

ConnLoad ==
    [protocols |-> {"SSL"}, sessmgr |-> TRUE, nthashes |-> TRUE, hashes |-> [ann |-> "h1"],
     nla |-> Nla(6, "negotiate", "h1", TRUE, TRUE), size |-> [w |-> 1280, h |-> 0],
     monitors |-> <<>>, channels |-> <<"rdpdr", "cliprdr", "drdynvc">>, msgchannel |-> TRUE,
     early |-> {"AUTODETECT"}, autodetect |-> FALSE, answers |-> "in time",
     link |-> [bytes |-> 40000, delta |-> 20], user |-> "ann", password |-> FALSE,
     auto_login |-> FALSE, arc |-> FALSE, zone |-> Zone(0, 0, 0, FALSE), keys |-> 1,
     covers |-> TRUE, grants |-> TRUE, leaves |-> FALSE]

Layouts ==
    {<<Mon(0, 0, 1919, 1079)>>, <<Mon(0, 0, 1919, 1079), Mon(1920, 0, 2719, 599)>>,
     <<Mon(-50, 0, 49, 99), Mon(50, 0, 99, 99)>>,
     <<Mon(-1920, -8000, -1, 1079), Mon(0, 0, 7999, 999), Mon(0, 1000, 99, 1999)>>,
     <<Mon(0, 0, 7000, 99), Mon(7001, 0, 9000, 99)>>}

ConnWork ==
    {[ConnLoad EXCEPT !.protocols = p, !.leaves = TRUE, !.sessmgr = b] :
        p \in {Nil, {"RDP"}, {"SSL", "HYBRID"}}, b \in BOOLEAN}
    \cup {[ConnLoad EXCEPT !.protocols = {"SSL", "HYBRID"}, !.nla = Nla(vn[1], vn[2], h, m, k),
                           !.grants = m] :
        vn \in {<<2, Nil>>, <<6, "negotiate">>, <<5, "authenticate">>}, h \in {"h1", "h2"},
        m \in BOOLEAN, k \in BOOLEAN}
    \cup {[ConnLoad EXCEPT !.monitors = ms, !.size = sz, !.channels = <<"rdpsnd", "rail">>,
                           !.msgchannel = FALSE] :
        ms \in Layouts, sz \in {[w |-> 1024, h |-> 768], [w |-> 100, h |-> 9000]}}
    \cup {[ConnLoad EXCEPT !.autodetect = TRUE, !.answers = a, !.link = [bytes |-> b, delta |-> d]] :
        a \in {"in time", "never", "sync"}, b \in {20000, 40000}, d \in {0, 1, 20, 1000}}
    \cup {[ConnLoad EXCEPT !.zone = Zone(b, s, d, r), !.arc = r] :
        b \in {0, -330, 300, 30, 900}, s \in {0, 60}, d \in {0, -60}, r \in BOOLEAN}
    \cup {[ConnLoad EXCEPT !.keys = k, !.password = b, !.auto_login = a] :
        k \in {0, 6}, b \in BOOLEAN, a \in BOOLEAN}
    \cup {[ConnLoad EXCEPT !.channels = <<"rdpdr", "cliprdr", "drdynvc", "rdpsnd", "rail">>]}
ConnAutoWork == {[ConnLoad EXCEPT !.password = TRUE]}

-----------------------------------------------------------------------------
(* Tiles: caches of several layouts, bitmaps the client kept from an        *)
(* earlier connection, a send that fails, cursors of several sizes, no      *)
(* orders and fragments of every length                                     *)

TileCellsV == <<1, 1, 2>>
TileCaps ==
    [memblt |-> TRUE, rev2 |-> TRUE, cells |-> TileCellsV, bpp |-> 24, colour |-> FALSE,
     pointers |-> 0, large |-> FALSE]
Rect(x, y, w, h) == [x |-> x, y |-> y, w |-> w, h |-> h]
TileLoad ==
    [caps |-> TileCaps, lists |-> <<>>, disk |-> <<>>, plain |-> FALSE, frag |-> 4, ahead |-> 2,
     fails |-> FALSE, w |-> 3, h |-> 2,
     rects |-> {Rect(0, 0, 3, 2), Rect(0, 0, 2, 2), Rect(1, 0, 1, 1)}, looks |-> {"a", "b"},
     frames |-> 3, cursors |-> 0, shapes |-> {}]

OnDisk(n, i, l) ==
    [cell |-> n, idx |-> i,
     bitmap |-> [w |-> 2, h |-> 2, pix |-> [k \in 1 .. 4 |-> <<l, (k - 1) % 2, (k - 1) \div 2>>]]]
Disk == <<OnDisk(1, 0, "a"), OnDisk(2, 0, "c"), OnDisk(3, 0, "b"), OnDisk(3, 1, "d")>>
KeyOf(n) == [cell |-> Disk[n].cell, key |-> Disk[n].bitmap.pix]
FirstKeys(ks) == [first |-> TRUE, keys |-> ks]
MoreKeys(ks) == [first |-> FALSE, keys |-> ks]
Cursor(n, w, h, hx, hy) == [id |-> n, w |-> w, h |-> h, hx |-> hx, hy |-> hy]

TileWork ==
    {[TileLoad EXCEPT !.fails = TRUE],
     [TileLoad EXCEPT !.caps.cells = <<0, 1, 1>>],
     [TileLoad EXCEPT !.caps.cells = <<3, 0, 5>>, !.plain = TRUE,
                      !.rects = {Rect(0, 0, 2, 2), Rect(0, 1, 2, 1)}],
     [TileLoad EXCEPT !.disk = Disk,
                      !.lists = <<FirstKeys(<<KeyOf(1), KeyOf(2)>>), MoreKeys(<<KeyOf(3), KeyOf(4)>>)>>],
     [TileLoad EXCEPT !.caps.cells = <<1, 1, 1>>, !.disk = SubSeq(Disk, 1, 3),
                      !.lists = <<FirstKeys(<<KeyOf(1), KeyOf(3)>>)>>],
     [TileLoad EXCEPT !.disk = <<Disk[1], Disk[3]>>,
                      !.lists = <<FirstKeys(<<KeyOf(1), [cell |-> 4, key |-> <<>>]>>),
                                  FirstKeys(<<KeyOf(1), KeyOf(3)>>)>>],
     [TileLoad EXCEPT !.frames = 0, !.caps.colour = TRUE, !.caps.pointers = 2, !.cursors = 5,
        !.shapes = {Cursor(1, 16, 16, 3, 3), Cursor(2, 48, 64, 47, 63),
                    Cursor(3, 16, 16, 40, 0), Cursor(4, 0, 0, 0, 0)}],
     [TileLoad EXCEPT !.frames = 0, !.caps.colour = TRUE, !.caps.large = TRUE, !.cursors = 3,
        !.shapes = {Cursor(1, 128, 96, 127, 95), Cursor(2, 96, 1, 3, 0),
                    Cursor(3, 1, 2000, 0, 1999)}]}
    \cup {[TileLoad EXCEPT !.caps.memblt = b, !.caps.bpp = IF b THEN 32 ELSE 24, !.frag = k,
                           !.frames = 2] : b \in BOOLEAN, k \in 1 .. 4}
TileShapeWork ==
    {[TileLoad EXCEPT !.plain = TRUE, !.rects = {Rect(0, 0, 2, 1), Rect(0, 0, 1, 2)}]}

-----------------------------------------------------------------------------
(* Devices: requests of the drive beside a print job, errors, two jobs on   *)
(* one connection, cancelled and oversized jobs, logging off, names that    *)
(* clash, devices announced later, a session without lpadmin, a reconnect   *)

Device(t, i, n) == [type |-> t, id |-> i, name |-> n]
PrintJob(d, n) == [device |-> d, len |-> n]
DevLoad ==
    [client_id |-> 7, devices |-> <<Device("drive", 1, <<"b">>), Device("print", 2, <<"a">>)>>,
     list_size |-> 1, later |-> <<>>, lpadmin |-> TRUE, lpadmin_fails |-> FALSE, requests |-> 0,
     read_size |-> 1, jobs |-> <<>>, cancel |-> FALSE, logoff |-> FALSE, errors |-> FALSE,
     reconnects |-> 0]

DevProgressWork ==
    {[DevLoad EXCEPT !.requests = 1, !.errors = TRUE, !.read_size = 4, !.jobs = <<PrintJob(2, 1)>>],
     [DevLoad EXCEPT !.jobs = <<PrintJob(2, 3)>>, !.cancel = TRUE, !.list_size = 3],
     [DevLoad EXCEPT !.jobs = <<PrintJob(2, 2)>>, !.logoff = TRUE]}
DevWork ==
    DevProgressWork \cup
    {[DevLoad EXCEPT !.requests = 2, !.read_size = 2, !.jobs = <<PrintJob(2, 3)>>],
     [DevLoad EXCEPT !.requests = 2, !.errors = TRUE, !.read_size = 4, !.jobs = <<PrintJob(2, 1)>>],
     [DevLoad EXCEPT !.jobs = <<PrintJob(2, 3), PrintJob(2, 0)>>, !.cancel = TRUE, !.list_size = 3],
     [DevLoad EXCEPT !.jobs = <<PrintJob(2, 9), PrintJob(2, 2)>>, !.errors = TRUE],
     [DevLoad EXCEPT !.devices = <<Device("print", 1, <<"a">>), Device("print", 2, <<"a">>),
                                   Device("print", 3, <<"a", "-", "1">>), Device("drive", 2, <<"b">>),
                                   Device("drive", 4, <<"b">>), Device("drive", 5, <<"b">>)>>,
                     !.lpadmin_fails = TRUE, !.list_size = 2],
     [DevLoad EXCEPT !.later =
        <<[p |-> "list", list |-> <<Device("print", 1, <<" ">>), Device("print", 3, <<"_">>),
                                    Device("other", 9, <<>>)>>, size |-> 1],
          [p |-> "remove", size |-> 1]>>],
     [DevLoad EXCEPT !.lpadmin = FALSE, !.devices = <<Device("print", 1, <<>>)>>],
     [DevLoad EXCEPT !.requests = 2, !.read_size = 3, !.reconnects = 1]}
DevLeakWork == {[DevLoad EXCEPT !.jobs = <<PrintJob(2, 1)>>, !.reconnects = 1]}
DevCupsWork == {[DevLoad EXCEPT !.jobs = <<PrintJob(2, 1), PrintJob(2, 1)>>]}

-----------------------------------------------------------------------------
(* Coders: every small picture of two or three colours, pictures whose runs *)
(* need each form of a run's length, one that does not fit; rows of some    *)
(* bytes and one run, small planes whose differences wrap; samples about    *)
(* the ends of each segment                                                 *)

Rle(w, h, cap, strip) ==
    [codec |-> "rle", w |-> w, h |-> h, cap |-> cap, strip |-> strip, once |-> FALSE]
Planar(w, h, strip, once) ==
    [codec |-> "planar", w |-> w, h |-> h, cap |-> 0, strip |-> strip, once |-> once]
SegmentEnds == {0} \cup {8 * 2 ^ k : k \in 2 .. 12}
Samples == {n \in {s * b + d : s \in {-1, 1}, b \in SegmentEnds, d \in -17 .. 17} : n \in -32768 .. 32767}

CodecWork ==
    {Rle(8, 1, 100, <<{0, 1, 3}>>), Rle(4, 2, 100, <<{0, 1, 3}>>), Rle(5, 3, 18, <<{0, 1}, {0}, {2, 3}>>),
     Rle(1, 40, 1500, <<{0}, {0}, {3}>>), Rle(20, 20, 1500, <<{1}, {2}, {0}>>)}
    \cup {Rle(5, 2, 100, <<ps>>) : ps \in {{0, 1}, {0, 3}, {1, 2}}}
    \cup {Rle(4, 3, 100, <<{1, 2}>>)}
    \cup {Rle(20, 20, 1500, st) : st \in {<<{0}>>, <<{1}>>, <<{3}>>}}
    \cup {Rle(19, 20, 1500, <<{0}, {3}>>)}
    \cup {Planar(64, 1, <<>>, TRUE), Planar(3, 2, <<{0, 1, 127, 128, 255}>>, FALSE),
          Planar(10, 1, <<{0, 1}>>, FALSE), Planar(4, 3, <<{0, 1}>>, FALSE)}
    \cup {[codec |-> "alaw", w |-> 1, h |-> 1, cap |-> 0, strip |-> <<Samples>>, once |-> FALSE]}
CodecCapWork == {Rle(5, 2, 1, <<{0}>>)}
=============================================================================
