----------------------------- MODULE TileCache -----------------------------
(***************************************************************************)
(* Bitmap updates to a client without the graphics pipeline: a frame is    *)
(* cut into tiles (push_frame_tiled of conn.c) that go out as fast-path    *)
(* bitmaps, in fragments when they are large, or as drawing orders through *)
(* a cache of bitmaps the client keeps (bmpcache.c, order.c), part of it   *)
(* filled from its disk.  Cursor shapes go through a second cache of the   *)
(* client's (RDP_BE_CURSOR in run_proxy).                                  *)
(*                                                                         *)
(* The worker only ever guesses what the client holds; the client          *)
(* (external) applies a FIFO of updates to its caches and its screen.      *)
(***************************************************************************)
EXTENDS Integers, Sequences, FiniteSets, FiniteSetsExt, SequencesExt

CONSTANTS TileLoads,     \* the histories of the instance
          TileCells,     \* cell_slots of bmpcache.c
          TILE,          \* edge of a tile
          TileNil        \* absent

VARIABLES tc,       \* the worker: struct rdp_bmpcache and what it knows
          tc_q,     \* updates under way
          tc_cl,    \* the client
          tc_done,  \* counters of the history; what was last drawn
          tc_load

tile_vars == <<tc, tc_q, tc_cl, tc_done>>

Sum3(f) == f[1] + f[2] + f[3]
NumCells == 3

-----------------------------------------------------------------------------
(* struct rdp_bmpcache                                                      *)

\* layout_cells: no more slots in a cell than the client has there
layout_cells_Ours(max) ==
    [cells |-> TileCells, slot |-> [i \in 0 .. Sum3(TileCells) - 1 |-> TileNil],
     next |-> 0, used |-> 0, ingest |-> <<0, 0, 0>>]

layout_cells(max) ==
    LET cells == [i \in 1 .. NumCells |-> Min({TileCells[i], max[i]})]
    IN [cells |-> cells, slot |-> [i \in 0 .. Sum3(cells) - 1 |-> TileNil],
        next |-> 0, used |-> 0, ingest |-> <<0, 0, 0>>]

Total(c) == Sum3(c.cells)
Offset(c, cell) == CASE cell = 1 -> 0 [] cell = 2 -> c.cells[1] [] cell = 3 -> c.cells[1] + c.cells[2]

slot_to_cell(c, pool) ==
    LET cell == Min({i \in 1 .. NumCells : pool < Offset(c, i) + c.cells[i]})
    IN [cell |-> cell, idx |-> pool - Offset(c, cell)]

\* One key of a list, at the fill cursor of its cell
IngestKey_Counts(c, cell, key) ==
    IF cell > NumCells \/ c.ingest[cell] >= c.cells[cell] THEN c
    ELSE LET pool == Offset(c, cell) + c.ingest[cell]
         IN [c EXCEPT !.used = @ + 1, !.slot[pool] = key, !.ingest[cell] = @ + 1]

IngestKey(c, cell, key) ==
    IF cell > NumCells \/ c.ingest[cell] >= c.cells[cell] THEN c
    ELSE LET pool == Offset(c, cell) + c.ingest[cell]
         IN [c EXCEPT !.used = IF c.slot[pool] = TileNil THEN @ + 1 ELSE @,
                      !.slot[pool] = key, !.ingest[cell] = @ + 1]

\* A PDU of the list: its keys cell by cell; the first restarts the cursors.
rdp_bmpcache_ingest_persistent(c, pdu) ==
    FoldLeft(LAMBDA acc, e : IngestKey(acc, e.cell, e.key),
             IF pdu.first THEN [c EXCEPT !.ingest = <<0, 0, 0>>] ELSE c, pdu.keys)

\* The next free slot from `next` on, else the one at `next`
VictimSlot(c) ==
    IF c.used < Total(c)
    THEN LET free == {d \in 0 .. Total(c) - 1 : c.slot[(c.next + d) % Total(c)] = TileNil}
         IN (c.next + Min(free)) % Total(c)
    ELSE c.next

rdp_bmpcache_lookup_InTurn(c, key) ==
    LET hits == {i \in DOMAIN c.slot : c.slot[i] = key}
        pool == IF hits # {} THEN Min(hits) ELSE c.next
    IN [hit |-> hits # {}, at |-> slot_to_cell(c, pool),
        cache |-> IF hits # {} THEN c
                  ELSE [c EXCEPT !.slot[pool] = key, !.next = (pool + 1) % Total(c),
                                 !.used = IF c.slot[pool] = TileNil THEN @ + 1 ELSE @]]

rdp_bmpcache_lookup(c, key) ==
    LET hits == {i \in DOMAIN c.slot : c.slot[i] = key}
        pool == IF hits # {} THEN Min(hits) ELSE VictimSlot(c)
    IN [hit |-> hits # {}, at |-> slot_to_cell(c, pool),
        cache |-> IF hits # {} THEN c
                  ELSE [c EXCEPT !.slot[pool] = key, !.next = (pool + 1) % Total(c),
                                 !.used = IF @ < Total(c) THEN @ + 1 ELSE @]]

-----------------------------------------------------------------------------
(* Tiles of a frame                                                         *)

\* The pixels of a frame: one colour, or a picture
Pixel(f, x, y) == IF tc_load.plain THEN <<f.look, 0, 0>> ELSE <<f.look, x, y>>

Up(n) == (n + TILE - 1) \div TILE

\* push_frame_tiled: row by row; the last tile of a row or column is cut.
TileRect_Whole(f, i) ==
    [x |-> f.x + (i % Up(f.w)) * TILE, y |-> f.y + (i \div Up(f.w)) * TILE, w |-> TILE, h |-> TILE]

TileRect(f, i) ==
    LET x == (i % Up(f.w)) * TILE
        y == (i \div Up(f.w)) * TILE
    IN [x |-> f.x + x, y |-> f.y + y, w |-> Min({TILE, f.w - x}), h |-> Min({TILE, f.h - y})]

Tile(f, r) ==
    [w |-> r.w, h |-> r.h,
     pix |-> [i \in 1 .. r.w * r.h |-> Pixel(f, r.x + ((i - 1) % r.w), r.y + ((i - 1) \div r.w))]]

TilesOf(f) == [i \in 1 .. Up(f.w) * Up(f.h) |-> LET r == TileRect(f, i - 1)
                                                 IN [at |-> [x |-> r.x, y |-> r.y], tile |-> Tile(f, r)]]

\* A hash of the pixel bytes alone
rdp_bmpcache_key(tile) == tile.pix

\* Cache Bitmap on a miss, then MemBlt, in one update
send_tile_orders(acc, e) ==
    LET found == rdp_bmpcache_lookup(acc.cache, rdp_bmpcache_key(e.tile))
        rdp_order_build_memblt == [at |-> e.at, w |-> e.tile.w, h |-> e.tile.h] @@ found.at
        rdp_order_build_cache_bitmap_v2 == [bitmap |-> e.tile] @@ found.at
    IN [cache |-> found.cache,
        out |-> Append(acc.out, [t |-> "orders", memblt |-> rdp_order_build_memblt,
                                 store |-> IF found.hit THEN TileNil
                                           ELSE rdp_order_build_cache_bitmap_v2])]

\* The body of a tile in slices of at most frag units
Flag_FirstKept(first, last) == IF last THEN "SINGLE" ELSE "FIRST"

Flag(first, last) ==
    CASE first /\ last -> "SINGLE" [] first /\ ~last -> "FIRST"
      [] ~first /\ last -> "LAST" [] ~first /\ ~last -> "NEXT"

SliceEnds(off, size, frag) == off + frag >= size

send_bitmap_fragments(e, frag) ==
    LET size == e.tile.w * e.tile.h
        n == IF \E k \in 0 .. size : SliceEnds(k * frag, size, frag)
             THEN Min({k \in 0 .. size : SliceEnds(k * frag, size, frag)}) + 1 ELSE 0
    IN [k \in 1 .. n |-> [t |-> "bitmap", flag |-> Flag(k = 1, SliceEnds((k - 1) * frag, size, frag)),
                          part |-> SubSeq(e.tile.pix, (k - 1) * frag + 1, Min({k * frag, size})),
                          at |-> e.at, w |-> e.tile.w, h |-> e.tile.h]]

PushTiles(f, cache, frag) ==
    FoldLeft(LAMBDA acc, e :
                IF cache # TileNil THEN send_tile_orders(acc, e)
                ELSE [acc EXCEPT !.out = @ \o send_bitmap_fragments(e, frag)],
             [cache |-> cache, out |-> <<>>], TilesOf(f))

-----------------------------------------------------------------------------
(* Cursors: scaled to fit one PDU, then cached by the client                *)

PtrPacket == 16384          \* pkt[0x4000]
PtrHeader == 6
PROXY_PTR_CACHE_MAX == 32

PtrMaxDim_Advertised(large) == IF large THEN 96 ELSE 32
PtrMaxDim(large) == IF large THEN 60 ELSE 32

\* Shrunk to max with its aspect kept, one side after the other
Shrink(w, h, max) ==
    LET h1 == IF w > max THEN (h * max) \div w ELSE h
        w1 == IF w > max THEN max ELSE w
        w2 == IF h1 > max THEN (w1 * max) \div h1 ELSE w1
        h2 == IF h1 > max THEN max ELSE h1
    IN [w |-> Max({1, w2}), h |-> Max({1, h2})]

ScaledCursor(c, max) ==
    IF c.w <= max /\ c.h <= max THEN c
    ELSE LET d == Shrink(c.w, c.h, max)
         IN [c EXCEPT !.w = d.w, !.h = d.h, !.hx = Min({(c.hx * d.w) \div c.w, d.w - 1}),
                      !.hy = Min({(c.hy * d.h) \div c.h, d.h - 1})]

\* 32 bits a pixel and a padded mask, in one PDU; the hotspot is inside.
rdp_fp_build_pointer_new(idx, c) ==
    [ok |-> PtrHeader + 16 + c.w * 4 * c.h + ((c.w + 15) \div 16) * 2 * c.h <= PtrPacket,
     pdu |-> [t |-> "pointer", idx |-> idx,
              cursor |-> [c EXCEPT !.hx = Min({c.hx, c.w - 1}), !.hy = Min({c.hy, c.h - 1})]]]

-----------------------------------------------------------------------------
(* Worker                                                                   *)

\* rdp_capset_parse_confirm_active and rdp_bmpcache_fit: orders need MemBlt,
\* cells of the client and room in them; and 24 bits a pixel.
AdoptCaps ==
    LET caps == tc_load.caps
        cache_ok == caps.memblt /\ caps.rev2
        rdp_bmpcache_fit == layout_cells(caps.cells)
    IN /\ tc.ph = "confirm"
       /\ tc' = [tc EXCEPT !.ph = "final", !.cache = IF cache_ok THEN rdp_bmpcache_fit ELSE @,
                           !.orders = cache_ok /\ Total(rdp_bmpcache_fit) > 0 /\ caps.bpp = 24,
                           !.ptr_n = IF caps.colour THEN Min({caps.pointers, PROXY_PTR_CACHE_MAX}) ELSE 0]
       /\ UNCHANGED <<tc_q, tc_cl, tc_done, tc_load>>

\* The key lists of the client's finalization, then the session
IngestLists ==
    /\ tc.ph = "final"
    /\ IF tc.lists < Len(tc_load.lists)
       THEN tc' = [tc EXCEPT !.lists = @ + 1,
                             !.cache = rdp_bmpcache_ingest_persistent(@, tc_load.lists[tc.lists + 1])]
       ELSE tc' = [tc EXCEPT !.ph = "proxy"]
    /\ UNCHANGED <<tc_q, tc_cl, tc_done, tc_load>>

InFrame(f, x, y) == x >= f.x /\ x < f.x + f.w /\ y >= f.y /\ y < f.y + f.h
Paint(screen, f) ==
    [p \in DOMAIN screen |-> IF InFrame(f, p[1], p[2]) THEN Pixel(f, p[1], p[2]) ELSE screen[p]]

PushFrame ==
    /\ tc.ph = "proxy" /\ tc_done.frames < tc_load.frames /\ Len(tc_q) <= tc_load.ahead
    /\ \E f \in tc_load.rects, look \in tc_load.looks :
         LET frame == [look |-> look] @@ f
             sent == PushTiles(frame, IF tc.orders THEN tc.cache ELSE TileNil, tc_load.frag)
         IN /\ tc_q' = tc_q \o sent.out
            /\ tc' = IF tc.orders THEN [tc EXCEPT !.cache = sent.cache] ELSE tc
            /\ tc_done' = [tc_done EXCEPT !.frames = @ + 1, !.screen = Paint(@, frame)]
    /\ UNCHANGED <<tc_cl, tc_load>>

\* The write of an update fails: whatever slots were reserved, run_proxy ends.
SendFails ==
    /\ tc.ph = "proxy" /\ tc_load.fails
    /\ \E f \in tc_load.rects, look \in tc_load.looks :
         LET sent == PushTiles([look |-> look] @@ f, tc.cache, tc_load.frag)
         IN tc' = [tc EXCEPT !.ph = "closed", !.cache = IF tc.orders THEN sent.cache ELSE @]
    /\ UNCHANGED <<tc_q, tc_cl, tc_done, tc_load>>

\* RDP_BE_CURSOR without pixels, or for a client without colour pointers: the
\* payload is drained and the pointer stays.
SkipCursor ==
    /\ tc.ph = "proxy" /\ tc_done.cursors < tc_load.cursors
    /\ \E c \in tc_load.shapes : c.w = 0 \/ c.h = 0 \/ ~tc_load.caps.colour
    /\ tc_done' = [tc_done EXCEPT !.cursors = @ + 1]
    /\ UNCHANGED <<tc, tc_q, tc_cl, tc_load>>

\* RDP_BE_CURSOR: the slot the client has it in, or the next one in turn
PushCursor ==
    /\ tc.ph = "proxy" /\ tc_done.cursors < tc_load.cursors /\ tc_load.caps.colour
    /\ \E c \in {x \in tc_load.shapes : x.w > 0 /\ x.h > 0} :
         LET cur == ScaledCursor(c, PtrMaxDim(tc_load.caps.large))
             hits == {i \in 0 .. tc.ptr_n - 1 : tc.ptr[i] = cur}
             slot == IF tc.ptr_n > 0 THEN tc.ptr_next ELSE 0
             new == rdp_fp_build_pointer_new(slot, cur)
         IN /\ tc_done' = [tc_done EXCEPT !.cursors = @ + 1, !.pointer = c]
            /\ tc_q' = IF hits # {} THEN Append(tc_q, [t |-> "cached", idx |-> Min(hits)])
                       ELSE IF new.ok THEN Append(tc_q, new.pdu) ELSE tc_q
            /\ tc' = IF hits = {} /\ new.ok /\ tc.ptr_n > 0
                     THEN [tc EXCEPT !.ptr[slot] = cur, !.ptr_next = (slot + 1) % tc.ptr_n]
                     ELSE tc
    /\ UNCHANGED <<tc_cl, tc_load>>

-----------------------------------------------------------------------------
(* The client (external)                                                    *)

Draw(screen, at, w, h, pix) ==
    [p \in DOMAIN screen |->
        IF p[1] \in at.x .. at.x + w - 1 /\ p[2] \in at.y .. at.y + h - 1
        THEN pix[(p[2] - at.y) * w + (p[1] - at.x) + 1] ELSE screen[p]]

\* Store, if told to, then show what is in the slot; a slot it does not have, or
\* a bitmap of another shape, is an error.
ApplyOrders(cl, u) ==
    LET has(o) == o.idx < tc_load.caps.cells[o.cell]
        at(o) == <<o.cell, o.idx>>
        store == IF u.store = TileNil THEN cl.cells ELSE [cl.cells EXCEPT ![at(u.store)] = u.store.bitmap]
        m == u.memblt
    IN IF ~has(m) \/ (u.store # TileNil /\ ~has(u.store)) THEN [cl EXCEPT !.error = TRUE]
       ELSE LET b == store[at(m)]
            IN IF b = TileNil \/ b.w # m.w \/ b.h # m.h THEN [cl EXCEPT !.error = TRUE]
               ELSE [cl EXCEPT !.cells = store, !.screen = Draw(@, m.at, m.w, m.h, b.pix)]

ApplyBitmap(cl, u) ==
    LET body == IF u.flag \in {"SINGLE", "FIRST"} THEN u.part ELSE cl.body \o u.part
        starts == u.flag \in {"SINGLE", "FIRST"}
        ends == u.flag \in {"SINGLE", "LAST"}
    IN IF starts # (cl.body = <<>>) \/ (ends /\ Len(body) # u.w * u.h) THEN [cl EXCEPT !.error = TRUE]
       ELSE IF ends THEN [cl EXCEPT !.body = <<>>, !.screen = Draw(@, u.at, u.w, u.h, body)]
       ELSE [cl EXCEPT !.body = body]

ClientApplies ==
    /\ tc_q # <<>> /\ ~tc_cl.error
    /\ LET u == Head(tc_q)
       IN tc_cl' = CASE u.t = "orders" -> ApplyOrders(tc_cl, u)
                     [] u.t = "bitmap" -> ApplyBitmap(tc_cl, u)
                     [] u.t = "pointer" -> [tc_cl EXCEPT !.ptr[u.idx] = u.cursor, !.pointer = u.cursor]
                     [] u.t = "cached" -> [tc_cl EXCEPT !.pointer = tc_cl.ptr[u.idx]]
    /\ tc_q' = Tail(tc_q)
    /\ UNCHANGED <<tc, tc_done, tc_load>>

-----------------------------------------------------------------------------

Screen == (0 .. tc_load.w - 1) \X (0 .. tc_load.h - 1)
Unpainted == <<"black", 0, 0>>
MaxIdx == 0 .. 8

\* What the client kept on disk: the bitmaps whose keys it will list
Persisted == [k \in (1 .. NumCells) \X MaxIdx |->
            LET mine == {i \in DOMAIN tc_load.disk : <<tc_load.disk[i].cell, tc_load.disk[i].idx>> = k}
            IN IF mine = {} THEN TileNil ELSE tc_load.disk[Min(mine)].bitmap]

TileInit ==
    /\ tc_load \in TileLoads
    /\ tc = [ph |-> "confirm", cache |-> layout_cells(TileCells), orders |-> FALSE, lists |-> 0,
             ptr_n |-> 0, ptr_next |-> 0, ptr |-> [i \in MaxIdx |-> TileNil]]
    /\ tc_q = <<>>
    /\ tc_cl = [cells |-> Persisted, screen |-> [p \in Screen |-> Unpainted], body |-> <<>>, error |-> FALSE,
                ptr |-> [i \in MaxIdx |-> TileNil], pointer |-> TileNil]
    /\ tc_done = [frames |-> 0, cursors |-> 0, screen |-> [p \in Screen |-> Unpainted], pointer |-> TileNil]

TileNext == AdoptCaps \/ IngestLists \/ PushFrame \/ SendFails \/ SkipCursor \/ PushCursor \/ ClientApplies

TileSpec == TileInit /\ [][TileNext]_<<tile_vars, tc_load>>

-----------------------------------------------------------------------------
(* Properties                                                               *)

\* Types of struct rdp_bmpcache: `used` counts the occupied slots, the cursors
\* stay inside their cells.
TileTypeOK ==
    /\ tc.ph \in {"confirm", "final", "proxy", "closed"}
    /\ tc.cache.used = Cardinality({i \in DOMAIN tc.cache.slot : tc.cache.slot[i] # TileNil})
    /\ Total(tc.cache) > 0 => tc.cache.next \in 0 .. Total(tc.cache) - 1
    /\ \A i \in 1 .. NumCells : tc.cache.ingest[i] \in 0 .. tc.cache.cells[i]

\* The client never has to refuse an update: every slot named in an order is
\* one it allocated and holds a bitmap of that size, and fragments come whole.
ClientAccepts == ~tc_cl.error

\* What the client's cache will hold when the updates under way have arrived
RECURSIVE Arrived(_, _)
Arrived(cells, q) ==
    IF q = <<>> THEN cells
    ELSE Arrived(IF Head(q).t = "orders" /\ Head(q).store # TileNil
                 THEN [cells EXCEPT ![<<Head(q).store.cell, Head(q).store.idx>>] = Head(q).store.bitmap]
                 ELSE cells, Tail(q))

\* The worker's idea of the cache is the client's: each slot it takes for
\* occupied holds, once the updates under way have arrived, the bitmap of that
\* key (bmpcache.c; send_tile_orders: a slot is "never left naming a bitmap the
\* client did not receive").
CachesAgree ==
    tc.orders /\ tc.ph = "proxy" =>
        \A i \in DOMAIN tc.cache.slot :
            tc.cache.slot[i] # TileNil =>
                LET at == slot_to_cell(tc.cache, i)
                    b == Arrived(tc_cl.cells, tc_q)[<<at.cell, at.idx>>]
                IN b # TileNil /\ rdp_bmpcache_key(b) = tc.cache.slot[i]

\* With everything delivered the client's screen is the desktop, pixel by
\* pixel: tiles cover a frame exactly, and each shows its own picture.
ScreenRight == tc.ph = "proxy" /\ tc_q = <<>> => tc_cl.screen = tc_done.screen

\* The pointer on the client's screen is the session's last one, scaled into
\* what fits a PDU, with its hotspot inside.
PointerRight ==
    tc.ph = "proxy" /\ tc_q = <<>> /\ tc_done.pointer # TileNil =>
        LET c == ScaledCursor(tc_done.pointer, PtrMaxDim(tc_load.caps.large))
        IN tc_cl.pointer = [c EXCEPT !.hx = Min({c.hx, c.w - 1}), !.hy = Min({c.hy, c.h - 1})]

\* Worker and client agree on the cache and no order is refused, also with
\* bitmaps from the client's disk and when a send fails (bmpcache.c, order.c).
CachesRight == CachesAgree /\ ClientAccepts

\* What is drawn is what the session has: every pixel, and the pointer.
DrawnRight == ScreenRight /\ PointerRight

\* A bitmap is dropped from the cache only when no slot is free, so none of
\* those the client loaded from its disk goes "while the cache has room"
\* (rdp_bmpcache_lookup).
EvictsWhenFull ==
    [][\A i \in DOMAIN tc.cache.slot :
         tc.ph = "proxy" /\ tc.cache.slot[i] # TileNil /\ tc'.cache.slot[i] # tc.cache.slot[i]
            => TileNil \notin {tc'.cache.slot[j] : j \in DOMAIN tc'.cache.slot}]_tile_vars
=============================================================================
