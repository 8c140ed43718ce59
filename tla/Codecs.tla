------------------------------- MODULE Codecs -------------------------------
(***************************************************************************)
(* The coders that shrink what is sent, each beside a decoder: interleaved *)
(* run-length coding of bitmaps (bitmap_rle.c), the planar coder           *)
(* (bitmap_planar.c) and A-law for sound (rdpsnd.c).  An encoder is run    *)
(* pixel by pixel or byte by byte as its loops do; what it has written is  *)
(* decoded as it goes, so that it can be compared at every step.           *)
(*                                                                         *)
(* A pixel is one of four colours, numbered so that the exclusive or with  *)
(* white is Inv.                                                           *)
(***************************************************************************)
EXTENDS Integers, Sequences

CONSTANTS CodecLoads      \* pictures, planes and samples of the instance

VARIABLES cd,             \* the encoder's variables, with the decoded output
          cd_in,          \* the input so far
          cd_load

codec_vars == <<cd, cd_in>>

-----------------------------------------------------------------------------
(* Interleaved RLE: the orders                                              *)

BgPel == 0
FgPel == 3
Inv(p) == FgPel - p

Up8(n) == (n + 7) \div 8
NextInputs(i) == cd_load.strip[((i - 1) % Len(cd_load.strip)) + 1]

\* The header bytes of a run of n: out_fill_count and its like, out_fom_count
RunHeader(kind, n) ==
    LET fom == kind = "fom"
        low == IF fom THEN IF n % 8 = 0 /\ n < 249 THEN n \div 8 ELSE 0
               ELSE IF n < 32 THEN n ELSE 0
        ext == IF fom THEN n - 1 ELSE n - 32
    IN IF low > 0 THEN [mega |-> FALSE, low |-> low, ext |-> 0, size |-> 1]
       ELSE IF ext < (IF fom THEN 255 ELSE 256)
       THEN [mega |-> FALSE, low |-> 0, ext |-> ext % 256, size |-> 2]
       ELSE [mega |-> TRUE, low |-> 0, ext |-> n % 65536, size |-> 3]

\* rdp_bitmap_rle_decompress_24 on a header
RunLength(kind, h) ==
    CASE h.mega -> h.ext
      [] ~h.mega /\ h.low = 0 -> h.ext + (IF kind = "fom" THEN 1 ELSE 32)
      [] ~h.mega /\ h.low > 0 -> h.low * (IF kind = "fom" THEN 8 ELSE 1)

PayloadSize(kind, n) ==
    CASE kind \in {"fill", "mix"} -> 0
      [] kind = "fom" -> Up8(n)
      [] kind = "color" -> 3
      [] kind = "copy" -> 3 * n

\* ABOVE, PUT and FOM_RUN of the decoder: pixels k to n of an order
Above(out, w) == IF Len(out) < w THEN BgPel ELSE out[Len(out) - w + 1]

RECURSIVE Put(_, _, _, _)
Put(out, w, o, k) ==
    IF k > RunLength(o.kind, o.head) THEN out
    ELSE LET a == Above(out, w)
             px == CASE o.kind = "fill" -> a
                     [] o.kind = "mix" -> Inv(a)
                     [] o.kind = "fom" -> IF o.data[k] THEN Inv(a) ELSE a
                     [] o.kind = "color" -> o.data
                     [] o.kind = "copy" -> o.data[k]
         IN Put(Append(out, px), w, o, k + 1)

-----------------------------------------------------------------------------
(* rdp_bitmap_rle_compress_24                                               *)

RleKinds == {"fill", "mix", "color", "fom"}
NoRuns == [k \in RleKinds |-> 0]

RleStart ==
    [ph |-> "lines", pos |-> 0, temp |-> <<>>, count |-> NoRuns, mask |-> <<>>, last |-> BgPel,
     seen |-> <<>>, order |-> "none", odd |-> FALSE]

\* An order is written; the decoder takes it.  `odd`: one that a client could
\* read otherwise, a run of the first line that goes on below it, or two fills
\* in a row past the first line
Order(e, kind, n, data) ==
    LET w == cd_load.w
        o == [kind |-> kind, head |-> RunHeader(kind, n), data |-> data]
        seen == Put(e.seen, w, o, 1)
    IN IF n = 0 THEN e
       ELSE [e EXCEPT !.pos = @ + o.head.size + PayloadSize(kind, n), !.seen = seen, !.order = kind,
                      !.odd = \/ @
                              \/ kind \in {"fill", "mix", "fom"} /\ Len(e.seen) < w /\ Len(seen) > w
                              \/ kind = "fill" /\ e.order = "fill" /\ Len(e.seen) # w]

Literals(e, n) == [Order(e, "copy", n, SubSeq(e.temp, 1, n)) EXCEPT !.temp = <<>>]

\* A run is worth an order if it is longer than 3 and no other is longer.
Best(e, kind) == e.count[kind] > 3 /\ \A k \in RleKinds : e.count[kind] >= e.count[k]

\* The literals before the run, then the run; all counts start again.
EmitRun_KeepsMask(e, kind) ==
    LET n == e.count[kind]
        lit == Literals(e, Len(e.temp) - n)
    IN IF n > Len(e.temp) THEN [e EXCEPT !.ph = "failed"]
       ELSE [Order(lit, kind, n, IF kind = "color" THEN e.last ELSE e.mask) EXCEPT
                !.count = NoRuns]

EmitRun(e, kind) ==
    LET n == e.count[kind]
        lit == Literals(e, Len(e.temp) - n)
    IN IF n > Len(e.temp) THEN [e EXCEPT !.ph = "failed"]
       ELSE [Order(lit, kind, n, IF kind = "color" THEN e.last ELSE e.mask) EXCEPT
                !.count = NoRuns, !.mask = <<>>]

EndRun(e, kind) ==
    IF e.ph = "failed" THEN e
    ELSE LET f == IF Best(e, kind) THEN EmitRun(e, kind) ELSE e
         IN [f EXCEPT !.count[kind] = 0, !.mask = IF kind = "fom" THEN <<>> ELSE @]

\* Runs that the pixel does not continue end, in this order.
RunsEnd(e, px, a) ==
    LET e1 == IF px # a THEN EndRun(e, "fill") ELSE e
        e2 == IF px # Inv(a) THEN EndRun(e1, "mix") ELSE e1
        e3 == IF px # e.last THEN EndRun(e2, "color") ELSE e2
    IN IF px \notin {a, Inv(a)} THEN EndRun(e3, "fom") ELSE e3

OnePixel(e, px, a) ==
    LET f == RunsEnd(e, px, a)
        one(b) == IF b THEN 1 ELSE 0
        fom == px \in {a, Inv(a)}
    IN IF f.ph = "failed" THEN f
       ELSE [f EXCEPT !.count = [fill |-> @["fill"] + one(px = a), mix |-> @["mix"] + one(px = Inv(a)),
                                 color |-> @["color"] + one(px = e.last), fom |-> @["fom"] + one(fom)],
                      !.mask = IF fom THEN Append(@, px = Inv(a)) ELSE @,
                      !.temp = Append(@, px), !.last = px]

\* "The fill, mix and fom runs cannot cross into the first line."
FirstLineEnds_Not(e) == e

FirstLineEnds(e) == EndRun(EndRun(EndRun(e, "fill"), "mix"), "fom")

\* Whatever order came next, it would not fit.
NoRoom(e) ==
    \A k \in RleKinds : e.pos + 3 * Len(e.temp) - 3 * e.count[k] >= cd_load.cap

\* The flush at the end: the one best run, or literals; then the overflow test
Flush(e) ==
    LET best == {k \in RleKinds : Best(e, k)}
        kind == IF "fill" \in best THEN "fill" ELSE IF "mix" \in best THEN "mix"
                ELSE IF "color" \in best THEN "color" ELSE "fom"
    IN IF best = {} THEN Literals(e, Len(e.temp)) ELSE EmitRun(e, kind)

RleResult_Fits(e) == IF e.ph = "failed" \/ e.pos > cd_load.cap + 3 THEN "failed" ELSE "done"

RleResult(e) == IF e.ph = "failed" \/ e.pos > cd_load.cap THEN "failed" ELSE "done"

LineStart == Len(cd_in) % cd_load.w = 0
LinesLeft ==
    /\ Len(cd_in) < cd_load.w * cd_load.h
    /\ 3 * cd_load.w * (1 + Len(cd_in) \div cd_load.w) < 32768
    /\ LineStart => ~NoRoom(cd)

RlePixel ==
    /\ cd_load.codec = "rle" /\ cd.ph = "lines" /\ LinesLeft
    /\ \E px \in NextInputs(Len(cd_in) + 1) :
        LET e == OnePixel(cd, px, Above(cd_in, cd_load.w))
        IN /\ cd_in' = Append(cd_in, px)
           /\ cd' = IF Len(cd_in) + 1 = cd_load.w THEN FirstLineEnds(e) ELSE e
    /\ UNCHANGED cd_load

RleEnd ==
    /\ cd_load.codec = "rle" /\ cd.ph = "lines" /\ ~LinesLeft
    /\ LET e == Flush(cd) IN cd' = [e EXCEPT !.ph = RleResult(e)]
    /\ UNCHANGED <<cd_in, cd_load>>

-----------------------------------------------------------------------------
(* Planar: each row of a plane, as differences from the row above           *)

\* delta_encode_plane: the difference modulo 256, its sign folded into bit 0
Fold(d) == IF d < 128 THEN 2 * d ELSE 2 * (256 - d) - 1
Unfold(b) == IF b % 2 = 1 THEN 256 - (b \div 2 + 1) ELSE b \div 2

\* PLANAR_CB: run length and number of raw bytes, four bits each
ControlByte(run, raw) == [run |-> run, raw |-> raw]

\* The loops of write_rle_bytes: over the raw bytes, then over the run
RECURSIVE RunBytes_NoRest(_), RunBytes(_), RawBytes(_, _)
RunBytes_NoRest(n) ==
    CASE n = 0 -> <<>>
      [] n > 47 -> <<ControlByte(2, 15)>> \o RunBytes_NoRest(n - 47)
      [] n \in 32 .. 47 -> <<ControlByte(2, n - 32)>>
      [] n \in 16 .. 31 -> <<ControlByte(1, n - 16)>>
      [] n \in 1 .. 15 -> <<ControlByte(n, 0)>>

RunBytes(n) ==
    CASE n = 0 -> <<>>
      [] n > 47 /\ n < 50 -> <<ControlByte(2, 13)>> \o RunBytes(n - 45)
      [] n >= 50 -> <<ControlByte(2, 15)>> \o RunBytes(n - 47)
      [] n \in 32 .. 47 -> <<ControlByte(2, n - 32)>>
      [] n \in 16 .. 31 -> <<ControlByte(1, n - 16)>>
      [] n \in 1 .. 15 -> <<ControlByte(n, 0)>>

RawBytes(raw, run) ==
    CASE raw = 0 -> RunBytes(run)
      [] raw >= 16 -> <<ControlByte(0, 15)>> \o RawBytes(raw - 15, run)
      [] raw \in 1 .. 15 /\ run <= 15 -> <<ControlByte(run, raw)>>
      [] raw \in 1 .. 15 /\ run \in 16 .. 17 -> <<ControlByte(13, raw)>> \o RunBytes(run - 13)
      [] raw \in 1 .. 15 /\ run >= 18 -> <<ControlByte(15, raw)>> \o RunBytes(run - 15)

\* Runs shorter than 3 are literals; lit: the raw bytes of the chunk
write_rle_bytes(lit, raw, run) ==
    [cbs |-> IF run < 3 THEN RawBytes(raw + run, 0) ELSE RawBytes(raw, run),
     lit |-> SubSeq(lit, 1, IF run < 3 THEN raw + run ELSE raw)]

\* decode_plane_rle on one chunk, appended to the row
RECURSIVE ReadChunk(_, _, _)
ReadChunk(row, cbs, lit) ==
    IF cbs = <<>> THEN row
    ELSE LET cb == Head(cbs)
             raw == IF cb.run \in {1, 2} THEN 0 ELSE cb.raw
             run == IF cb.run \in {1, 2} THEN cb.raw + 16 * cb.run ELSE cb.run
             r == row \o SubSeq(lit, 1, raw)
             last == IF r = <<>> THEN 0 ELSE r[Len(r)]
         IN ReadChunk(r \o [i \in 1 .. run |-> last], Tail(cbs), SubSeq(lit, raw + 1, Len(lit)))

PlanarStart == [ph |-> "lines", symbol |-> 0, raw |-> 0, run |-> 0, chunk |-> <<>>, row |-> <<>>, seen |-> <<>>]

WriteChunk(e) ==
    LET c == write_rle_bytes(e.chunk, e.raw, e.run)
    IN [e EXCEPT !.row = ReadChunk(@, c.cbs, c.lit), !.raw = 0, !.run = 0, !.chunk = <<>>]

\* encode_rle_scanline on one byte
OneByte(e, b) ==
    LET match == e.symbol = b
        f == IF e.run = 0 \/ match THEN e
             ELSE IF e.run < 3 THEN [e EXCEPT !.raw = @ + e.run, !.run = 0]
             ELSE WriteChunk(e)
    IN [f EXCEPT !.symbol = b, !.chunk = Append(@, b),
                 !.run = IF match THEN @ + 1 ELSE @, !.raw = IF match THEN @ ELSE @ + 1]

\* The end of a scanline: the rest of it; the decoder adds up the differences.
RowEnds(e) ==
    LET f == IF e.raw + e.run > 0 THEN WriteChunk(e) ELSE e
        w == cd_load.w
        n == Len(e.seen)
        add(i) == IF n < w THEN f.row[i] ELSE (e.seen[n - w + i] + Unfold(f.row[i])) % 256
    IN [f EXCEPT !.symbol = 0, !.row = <<>>,
                 !.ph = IF Len(f.row) = w THEN @ ELSE "failed",
                 !.seen = @ \o [i \in 1 .. Len(f.row) |-> IF i <= w THEN add(i) ELSE 0]]

\* Planes of every kind, or rows of different bytes followed by one run
Bytes ==
    IF ~cd_load.once THEN NextInputs(Len(cd_in) + 1)
    ELSE LET n == Len(cd_in)
         IN IF n > 1 /\ cd_in[n] = cd_in[n - 1] THEN {cd_in[n]}
            ELSE {n + 1} \cup (IF n = 0 THEN {0} ELSE {cd_in[n]})

PlanarByte ==
    /\ cd_load.codec = "planar" /\ cd.ph = "lines" /\ Len(cd_in) < cd_load.w * cd_load.h
    /\ \E b \in Bytes :
        LET n == Len(cd_in)
            d == IF n < cd_load.w THEN b ELSE Fold((b - cd_in[n - cd_load.w + 1]) % 256)
            e == OneByte(cd, d)
        IN /\ cd_in' = Append(cd_in, b)
           /\ cd' = IF (n + 1) % cd_load.w = 0 THEN RowEnds(e) ELSE e
    /\ UNCHANGED cd_load

-----------------------------------------------------------------------------
(* A-law                                                                    *)

SegEnd == <<31, 63, 127, 255, 511, 1023, 2047, 4095>>

\* linear16_to_alaw before its last exclusive or: sign, segment, step
linear16_to_alaw_Shift(lin) ==
    LET down == lin \div 8
        pcm == IF down >= 0 THEN down ELSE -down - 1
        seg == CHOOSE i \in 0 .. 7 : pcm <= SegEnd[i + 1] /\ (i = 0 \/ pcm > SegEnd[i])
    IN [neg |-> lin < 0, seg |-> seg, step |-> (pcm \div 2 ^ seg) % 16]

linear16_to_alaw(lin) ==
    LET down == lin \div 8
        pcm == IF down >= 0 THEN down ELSE -down - 1
        seg == CHOOSE i \in 0 .. 7 : pcm <= SegEnd[i + 1] /\ (i = 0 \/ pcm > SegEnd[i])
    IN [neg |-> lin < 0, seg |-> seg, step |-> (pcm \div 2 ^ (IF seg < 2 THEN 1 ELSE seg)) % 16]

\* The client's decoder (external): the middle of the step
AlawDecode(c) ==
    LET m == IF c.seg = 0 THEN 16 * c.step + 8 ELSE (16 * c.step + 264) * 2 ^ (c.seg - 1)
    IN IF c.neg THEN -m ELSE m

AlawSample ==
    /\ cd_load.codec = "alaw" /\ cd_in = <<>>
    /\ \E s \in NextInputs(1) : cd_in' = <<s>> /\ cd' = [cd EXCEPT !.seen = <<AlawDecode(linear16_to_alaw(s))>>]
    /\ UNCHANGED cd_load

-----------------------------------------------------------------------------

CodecInit ==
    /\ cd_load \in CodecLoads
    /\ cd_in = <<>>
    /\ cd = IF cd_load.codec = "rle" THEN RleStart ELSE PlanarStart

CodecNext == RlePixel \/ RleEnd \/ PlanarByte \/ AlawSample

CodecSpec == CodecInit /\ [][CodecNext]_<<codec_vars, cd_load>>

-----------------------------------------------------------------------------
(* Properties                                                               *)

\* The orders written, with the pixels not yet written behind them, are the
\* picture so far: no run is cut, counted twice or given the wrong colour,
\* whichever runs competed for a pixel (rdp_bitmap_rle_compress_24).
RleFaithful == cd_load.codec = "rle" /\ cd.ph # "failed" => cd.seen \o (IF cd.ph = "done" THEN <<>> ELSE cd.temp) = cd_in

\* Success means the whole picture, also when the encoder gave up for want of
\* room; and it fails only for want of room, since "the RLE stream never
\* expands the raw pixels by more than a few bytes" (send_tile_orders).  Left
\* out: a capacity that the first line fills to the byte (CodecCapWork), which
\* no caller's buffer is.
RleWhole ==
    cd_load.codec = "rle" =>
        /\ cd.ph = "done" => Len(cd_in) = cd_load.w * cd_load.h
        /\ cd.ph = "failed" => cd_load.cap < 3 * cd_load.w * cd_load.h + 3

\* No order has two readings: runs that depend on the line above end with the
\* first line, which has none, and no fill follows a fill, which a client
\* takes for a foreground pixel between them.
OrdersPlain == cd_load.codec = "rle" => ~cd.odd

\* Interleaved RLE is right: the decoded picture is the picture, a success is
\* all of it, and no order can be read in two ways (bitmap_rle.c).
RleRight == RleFaithful /\ RleWhole /\ OrdersPlain

\* Every row of a plane is decoded to itself, also where a run's length falls
\* on one of the escapes of the control byte and where differences wrap.
PlanarFaithful ==
    cd_load.codec = "planar" =>
        cd.ph = "lines" /\ cd.seen = SubSeq(cd_in, 1, Len(cd_in) - (Len(cd_in) % cd_load.w))

\* A sample comes back with its sign and within half a step of its segment.
AlawClose ==
    cd_load.codec = "alaw" /\ cd_in # <<>> =>
        LET s == cd_in[1]
            code == linear16_to_alaw(s)
            d == s - cd.seen[1]
            step == 16 * 2 ^ (IF code.seg < 2 THEN 0 ELSE code.seg - 1)
        IN (IF d < 0 THEN -d ELSE d) <= step \div 2 /\ (s < 0) = (cd.seen[1] < 0)

\* The other coders come back to what went in: planes exactly, samples within
\* half a step (bitmap_planar.c, rdpsnd.c).
CodersClose == PlanarFaithful /\ AlawClose

=============================================================================
