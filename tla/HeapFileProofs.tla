--------------------------- MODULE HeapFileProofs ---------------------------
(***************************************************************************)
(* Proofs about HeapFile and its directory, for any tables, names, page    *)
(* and row sizes: what the directory holds is read back, records share no  *)
(* byte, the links of a table are complete, its row count is the scan's,   *)
(* undo pointers lead to images, and only rows that fit no page are        *)
(* turned away.                                                            *)
(***************************************************************************)
EXTENDS HeapFile, FiniteSetTheorems, SequenceTheorems, NaturalsInduction,
        WellFoundedInduction, TLAPS

(***************************************************************************)
(* The directory.  Items lie one behind the other in the order in which    *)
(* their tables were made, and each field is where ReadMata looks for it.  *)
(***************************************************************************)
ItemRecs == [first : Nat, rows : Nat, last : Nat, offset : Nat, len : Nat \ {0}, columns : Nat]
MetaCells == [0 .. MetaSize - 1 -> Nat]

ItemStop(item) == item.offset + 1 + item.len + 6 + item.columns

InOrder(dir, n, end, ord) ==
    /\ ord \in [1 .. n -> DOMAIN dir]
    /\ \A t \in DOMAIN dir : \E i \in 1 .. n : ord[i] = t
    /\ \A i \in 1 .. n :
          /\ dir[ord[i]].offset = IF i = 1 THEN ITEMS_OFFSET_BEGIN ELSE ItemStop(dir[ord[i - 1]])
          /\ ITEMS_OFFSET_BEGIN <= dir[ord[i]].offset
          /\ ItemStop(dir[ord[i]]) <= end
    /\ \A i, j \in 1 .. n : i < j => ItemStop(dir[ord[i]]) <= dir[ord[j]].offset
    /\ end = IF n = 0 THEN ITEMS_OFFSET_BEGIN ELSE ItemStop(dir[ord[n]])

Stored(page, t, item) ==
    LET b == item.offset + 1 + item.len
    IN  /\ page[item.offset] = item.len
        /\ page[b] = item.first /\ page[b + 1] = item.rows
        /\ page[b + 2] = t /\ page[b + 3] = item.last /\ page[b + 5] = item.columns

AllStored(page, dir) == \A t \in DOMAIN dir : Stored(page, t, dir[t])

MetaOK(page, dir, n, end) ==
    /\ page \in MetaCells
    /\ \E ord : InOrder(dir, n, end, ord)
    /\ AllStored(page, dir)
    /\ n > 0 => page[1] = n /\ page[2] = end
    /\ end <= MetaSize

ItemsOK(dir) == DOMAIN dir \subseteq Tables /\ dir \in [DOMAIN dir -> ItemRecs]

MetaInv ==
    /\ meta \in MetaCells
    /\ ItemsOK(items) /\ DOMAIN items \subseteq catalog
    /\ last_point \in Nat /\ table_size \in Nat /\ overrun \in BOOLEAN
    /\ ~overrun => MetaOK(meta, items, table_size, last_point)
    /\ ~overrun /\ started = "first" => meta[1] = table_size

-----------------------------------------------------------------------------
(***************************************************************************)
(* The pages.  Extents lie one behind the other; ch gives each table the   *)
(* sequence of its pages.                                                  *)
(***************************************************************************)
Pointers == [page : Nat, slot : Nat]
TableRecs == [offset : Nat, size : Nat \ {0}, del : BOOLEAN, roll : Pointers]
ImageRecs == [offset : Nat, size : Nat \ {0}]
TablePages == [kind : {"table"}, next : Nat, recs : Seq(TableRecs)]
UndoPages == [kind : {"undo"}, free_offset : Nat, recs : Seq(ImageRecs)]
PageSet == {NoPage} \union TablePages \union UndoPages

(* The extents of recs, each with k bytes of its own, fill begin .. end - 1. *)
Packed(recs, k, begin, end) ==
    /\ \A i \in 1 .. Len(recs) :
          /\ recs[i].offset =
                IF i = 1 THEN begin ELSE recs[i - 1].offset + k + recs[i - 1].size
          /\ begin <= recs[i].offset /\ recs[i].offset + k + recs[i].size <= end
    /\ \A i, j \in 1 .. Len(recs) : i < j => recs[i].offset + k + recs[i].size <= recs[j].offset
    /\ end = IF recs = <<>> THEN begin
             ELSE recs[Len(recs)].offset + k + recs[Len(recs)].size

TableOK(pg) ==
    \E end \in Nat : Packed(pg.recs, 0, HeaderSize, end) /\ end + SlotSize * Len(pg.recs) <= PageSize

UndoOK(pg) ==
    Packed(pg.recs, UndoRecordSize, UndoHeaderSize, pg.free_offset) /\ pg.free_offset <= PageSize

PageOK(pg) == (pg.kind = "table" => TableOK(pg)) /\ (pg.kind = "undo" => UndoOK(pg))

(* c is the sequence of pages that the links of a table's item lead through. *)
Links(c, item, pgs) ==
    /\ c \in Seq(PageIds)
    /\ \A i, j \in 1 .. Len(c) : c[i] = c[j] => i = j
    /\ c = <<>> => item.first = INVALID_PAGE_ID /\ item.last = INVALID_PAGE_ID
    /\ c # <<>> => item.first = c[1] /\ item.last = c[Len(c)]
    /\ \A i \in 1 .. Len(c) :
          /\ pgs[c[i]].kind = "table"
          /\ pgs[c[i]].next = IF i = Len(c) THEN INVALID_PAGE_ID ELSE c[i + 1]

Elements(c) == {c[i] : i \in 1 .. Len(c)}

Linked(s, ch) ==
    /\ DOMAIN ch = DOMAIN s.items
    /\ \A t \in DOMAIN ch : Links(ch[t], s.items[t], s.pages)
    /\ \A t, u \in DOMAIN ch : t # u => Elements(ch[t]) \intersect Elements(ch[u]) = {}
    /\ \A p \in PageIds : s.pages[p].kind = "table" => \E t \in DOMAIN ch : p \in Elements(ch[t])

IsImage(pgs, rec) ==
    /\ rec.roll.page \in PageIds /\ pgs[rec.roll.page].kind = "undo"
    /\ \E i \in 1 .. Len(pgs[rec.roll.page].recs) :
          LET img == pgs[rec.roll.page].recs[i]
          IN  img.offset = rec.roll.slot /\ (rec.del => img.size = rec.size)

Rolls(pgs) ==
    \A p \in PageIds : pgs[p].kind = "table" =>
        \A i \in 1 .. Len(pgs[p].recs) :
            LET rec == pgs[p].recs[i]
            IN  (rec.del => rec.roll # Null) /\ (rec.roll # Null => IsImage(pgs, rec))

LiveIn(pgs, c) ==
    {rid \in [page : Elements(c), row : Nat \ {0}] :
        rid.row <= Len(pgs[rid.page].recs) /\ ~pgs[rid.page].recs[rid.row].del}

Counted(s, ch) ==
    \A t \in DOMAIN ch : /\ IsFiniteSet(LiveIn(s.pages, ch[t]))
                         /\ s.items[t].rows = Cardinality(LiveIn(s.pages, ch[t]))

PagesOK(s, ch) ==
    /\ s.pages \in [PageIds -> PageSet]
    /\ \A p \in PageIds : PageOK(s.pages[p])
    /\ s.undo # INVALID_PAGE_ID => s.undo \in PageIds /\ s.undo < s.next /\ s.pages[s.undo].kind = "undo"
    /\ Linked(s, ch)
    /\ Rolls(s.pages)
    /\ Counted(s, ch)

(***************************************************************************)
(* The inductive invariant.  Once an id in use was handed out again        *)
(* nothing is claimed of the pages.                                        *)
(***************************************************************************)
HeapTypeOK ==
    /\ DOMAIN pages = PageIds /\ pages = [p \in PageIds |-> pages[p]]
    /\ next_page_id \in Nat \ {0}
    /\ undo_page_id \in Nat
    /\ started \in {"first", "terminal", "directory"}
    /\ clash \in BOOLEAN

HeapInv ==
    /\ HeapTypeOK
    /\ MetaInv
    /\ GivesUpOnlyOversize
    /\ clash \/ \E ch : PagesOK(Store, ch)
-----------------------------------------------------------------------------
(* A set of naturals has a least element. *)
LEMMA LeastOfSet ==
    ASSUME NEW S, S \subseteq Nat, S # {}
    PROVE  \E m \in S : \A k \in S : m <= k
<1>1. PICK m \in S : \A y \in S : ~(<<y, m>> \in OpToRel(<, Nat))
  BY NatLessThanWellFounded, WFMin
<1>2. ASSUME NEW k \in S PROVE m <= k
  <2>1. k \in Nat /\ m \in Nat
    OBVIOUS
  <2>2. ~(k < m)
    BY <1>1, <2>1 DEF OpToRel
  <2> QED
    BY <2>1, <2>2
<1> QED
  BY <1>2

Agreeing(f, g, a, n) ==
    /\ a <= n => f[a] = g[a]
    /\ \A i \in (a + 1) .. n : f[i - 1] = g[i - 1] => f[i] = g[i]

(* What agrees at the beginning and from each place to the next agrees. *)
LEMMA SameFunctions ==
    ASSUME NEW a \in Nat, NEW n \in Nat, NEW f, NEW g, Agreeing(f, g, a, n)
    PROVE  \A i \in a .. n : f[i] = g[i]
<1> DEFINE S == {i \in a .. n : f[i] # g[i]}
<1> SUFFICES ASSUME S # {} PROVE FALSE
  OBVIOUS
<1>1. S \subseteq Nat
  OBVIOUS
<1>2. PICK m \in S : \A k \in S : m <= k
  <2> HIDE DEF S
  <2> QED
    BY <1>1, LeastOfSet
<1>3. m \in a .. n /\ f[m] # g[m] /\ m # a
  BY DEF Agreeing
<1>4. m \in (a + 1) .. n /\ m - 1 \in a .. n /\ ~(m <= m - 1)
  BY <1>3
<1>5. m - 1 \notin S
  BY <1>2, <1>4
<1> QED
  BY <1>3, <1>4, <1>5 DEF Agreeing

OffsetsOf(f, page, n) ==
    f = [i \in 1 .. n |-> IF i = 1 THEN ITEMS_OFFSET_BEGIN ELSE ItemEnd(page, f[i - 1])]

(* The offsets at which ReadMata finds items are those in the directory. *)
LEMMA OffsetsRead ==
    ASSUME NEW page, NEW dir, NEW n, NEW end, n \in Nat \ {0}, ItemsOK(dir),
           NEW ord, InOrder(dir, n, end, ord), AllStored(page, dir),
           NEW f, OffsetsOf(f, page, n)
    PROVE  \A i \in 1 .. n : f[i] = dir[ord[i]].offset
<1> DEFINE g == [i \in 1 .. n |-> dir[ord[i]].offset]
<1>1. \A i \in 1 .. n : ord[i] \in DOMAIN dir /\ dir[ord[i]] \in ItemRecs
  BY DEF InOrder, ItemsOK
<1>2. f[1] = g[1]
  <2>1. 1 \in 1 .. n
    OBVIOUS
  <2>2. f[1] = ITEMS_OFFSET_BEGIN
    BY <2>1 DEF OffsetsOf
  <2> QED
    BY <2>1, <2>2 DEF InOrder
<1>3. ASSUME NEW i \in 2 .. n, f[i - 1] = g[i - 1] PROVE f[i] = g[i]
  <2>1. i \in 1 .. n /\ i # 1 /\ i - 1 \in 1 .. n
    OBVIOUS
  <2>2. f[i] = ItemEnd(page, dir[ord[i - 1]].offset)
    BY <1>3, <2>1 DEF OffsetsOf
  <2>3. Stored(page, ord[i - 1], dir[ord[i - 1]])
    BY <1>1, <2>1 DEF AllStored
  <2>4. ItemEnd(page, dir[ord[i - 1]].offset) = ItemStop(dir[ord[i - 1]])
    BY <1>1, <2>1, <2>3 DEF Stored, ItemEnd, ItemStop, ItemRecs
  <2>5. dir[ord[i]].offset = ItemStop(dir[ord[i - 1]])
    BY <2>1 DEF InOrder
  <2> QED
    BY <2>1, <2>2, <2>4, <2>5
<1>4. \A i \in 1 .. n : f[i] = g[i]
  <2> HIDE DEF g
  <2>1. \A i \in (1 + 1) .. n : f[i - 1] = g[i - 1] => f[i] = g[i]
    BY ONLY <1>3, n \in Nat
  <2>2. 1 \in Nat /\ n \in Nat
    OBVIOUS
  <2>3. Agreeing(f, g, 1, n)
    BY ONLY <1>2, <2>1 DEF Agreeing
  <2> QED
    BY ONLY <2>2, <2>3, SameFunctions
<1> QED
  BY <1>4

(* What a start reads is what the process before it had in memory. *)
LEMMA DirectoryRead ==
    ASSUME NEW page, NEW dir, NEW n, NEW end, n \in Nat \ {0}, ItemsOK(dir),
           MetaOK(page, dir, n, end)
    PROVE  ReadMata(page) = dir /\ EndOfItems(page) = end
<1>1. PICK ord : InOrder(dir, n, end, ord)
  BY DEF MetaOK
<1>2. /\ page[1] = n
      /\ \A t \in DOMAIN dir : Stored(page, t, dir[t])
  BY DEF MetaOK, AllStored
<1>3. /\ \A i \in 1 .. n : ord[i] \in DOMAIN dir /\ dir[ord[i]] \in ItemRecs
      /\ \A t \in DOMAIN dir : \E i \in 1 .. n : ord[i] = t
  BY <1>1 DEF InOrder, ItemsOK
<1>4. ASSUME NEW i \in 1 .. n
      PROVE  /\ ReadItem(page, dir[ord[i]].offset) = dir[ord[i]]
             /\ page[dir[ord[i]].offset + 1 + page[dir[ord[i]].offset] + 2] = ord[i]
             /\ ItemEnd(page, dir[ord[i]].offset) = ItemStop(dir[ord[i]])
  BY <1>2, <1>3 DEF Stored, ReadItem, ItemRecs, ItemEnd, ItemStop
<1> DEFINE off[i \in 1 .. page[1]] ==
              IF i = 1 THEN ITEMS_OFFSET_BEGIN ELSE ItemEnd(page, off[i - 1])
           id(o) == page[o + 1 + page[o] + 2]
           found == {off[i] : i \in 1 .. page[1]}
<1>5. off = [i \in 1 .. page[1] |->
               IF i = 1 THEN ITEMS_OFFSET_BEGIN ELSE ItemEnd(page, off[i - 1])]
  <2> DEFINE g == [i \in 1 .. n |-> dir[ord[i]].offset]
  <2>1. \A i \in 1 .. n : g[i] = IF i = 1 THEN ITEMS_OFFSET_BEGIN ELSE ItemEnd(page, g[i - 1])
    BY <1>1, <1>3, <1>4 DEF InOrder
  <2>2. g = [i \in 1 .. page[1] |->
               IF i = 1 THEN ITEMS_OFFSET_BEGIN ELSE ItemEnd(page, g[i - 1])]
    BY <1>2, <2>1
  <2> HIDE DEF g
  <2> QED
    BY <2>2
<1>6. ReadMata(page) = [t \in {id(o) : o \in found} |->
                          ReadItem(page, CHOOSE o \in found : id(o) = t)]
  BY DEF ReadMata
<1> HIDE DEF off
<1>7. \A i \in 1 .. n : off[i] = dir[ord[i]].offset
  <2>1. OffsetsOf(off, page, n)
    BY <1>2, <1>5 DEF OffsetsOf
  <2>2. AllStored(page, dir)
    BY <1>2 DEF AllStored
  <2> QED
    BY <1>1, <2>1, <2>2, OffsetsRead
<1>8. found = {dir[t].offset : t \in DOMAIN dir}
  BY <1>2, <1>3, <1>7
<1>9. \A t \in DOMAIN dir : id(dir[t].offset) = t /\ ReadItem(page, dir[t].offset) = dir[t]
  BY <1>3, <1>4
<1> HIDE DEF found, id
<1>10. {id(o) : o \in found} = DOMAIN dir
  BY <1>8, <1>9
<1>11. ASSUME NEW t \in DOMAIN dir PROVE (CHOOSE o \in found : id(o) = t) = dir[t].offset
  <2>1. dir[t].offset \in found /\ id(dir[t].offset) = t
    BY <1>8, <1>9
  <2>2. \A o \in found : id(o) = t => o = dir[t].offset
    BY <1>8, <1>9
  <2> QED
    BY <2>1, <2>2
<1>12. ReadMata(page) = dir
  <2>1. dir = [t \in DOMAIN dir |-> dir[t]]
    BY DEF ItemsOK
  <2>2. \A t \in DOMAIN dir : ReadItem(page, CHOOSE o \in found : id(o) = t) = dir[t]
    BY <1>9, <1>11
  <2> QED
    BY <1>6, <1>10, <2>1, <2>2
<1> DEFINE stop[i \in 0 .. page[1]] ==
              IF i = 0 THEN ITEMS_OFFSET_BEGIN ELSE ItemEnd(page, stop[i - 1])
           h == [i \in 0 .. n |-> IF i = 0 THEN ITEMS_OFFSET_BEGIN ELSE ItemStop(dir[ord[i]])]
<1>13. \A i \in 0 .. n : h[i] = IF i = 0 THEN ITEMS_OFFSET_BEGIN ELSE ItemEnd(page, h[i - 1])
  <2>1. ASSUME NEW i \in 1 .. n PROVE h[i] = ItemEnd(page, h[i - 1])
    <3>1. h[i] = ItemEnd(page, dir[ord[i]].offset)
      BY <1>4
    <3>2. h[i - 1] = dir[ord[i]].offset
      BY <1>1 DEF InOrder
    <3> QED
      BY <3>1, <3>2
  <2>2. \A i \in 0 .. n : i = 0 \/ i \in 1 .. n
    BY n \in Nat \ {0}
  <2>3. h[0] = ITEMS_OFFSET_BEGIN
    BY n \in Nat \ {0}
  <2> HIDE DEF h
  <2>4. \A i \in 1 .. n : i # 0
    OBVIOUS
  <2> QED
    BY ONLY <2>1, <2>2, <2>3, <2>4
<1>14. stop = [i \in 0 .. page[1] |->
                IF i = 0 THEN ITEMS_OFFSET_BEGIN ELSE ItemEnd(page, stop[i - 1])]
  <2>1. h = [i \in 0 .. page[1] |->
               IF i = 0 THEN ITEMS_OFFSET_BEGIN ELSE ItemEnd(page, h[i - 1])]
    BY <1>2, <1>13
  <2> HIDE DEF h
  <2> QED
    BY <2>1
<1>15. EndOfItems(page) = stop[n]
  BY <1>2 DEF EndOfItems
<1> HIDE DEF stop
<1>16. Agreeing(stop, h, 0, n)
  <2>1. stop[0] = h[0]
    BY <1>2, <1>13, <1>14
  <2>2. ASSUME NEW i \in (0 + 1) .. n, stop[i - 1] = h[i - 1] PROVE stop[i] = h[i]
    <3>1. i \in 0 .. n /\ i # 0
      OBVIOUS
    <3>2. stop[i] = ItemEnd(page, stop[i - 1])
      BY <1>2, <1>14, <3>1
    <3>3. h[i] = ItemEnd(page, h[i - 1])
      BY <1>13, <3>1
    <3> QED
      BY <2>2, <3>2, <3>3
  <2> HIDE DEF h
  <2> QED
    BY ONLY <2>1, <2>2 DEF Agreeing
<1>17. stop[n] = h[n]
  <2> HIDE DEF h
  <2>1. \A i \in 0 .. n : stop[i] = h[i]
    BY <1>16, SameFunctions
  <2> QED
    BY <2>1
<1> QED
  BY <1>1, <1>12, <1>15, <1>17 DEF InOrder

-----------------------------------------------------------------------------
(* Updates of the directory. *)

SameLayout(dir2, dir) ==
    /\ DOMAIN dir2 = DOMAIN dir
    /\ \A t \in DOMAIN dir : /\ dir2[t].offset = dir[t].offset
                             /\ dir2[t].len = dir[t].len
                             /\ dir2[t].columns = dir[t].columns

(* Updates in place move no item. *)
LEMMA LayoutKept ==
    ASSUME NEW dir, NEW dir2, NEW n \in Nat, NEW end, NEW ord,
           InOrder(dir, n, end, ord), SameLayout(dir2, dir)
    PROVE  InOrder(dir2, n, end, ord)
<1>1. /\ ord \in [1 .. n -> DOMAIN dir] /\ DOMAIN dir2 = DOMAIN dir
      /\ \A t \in DOMAIN dir : dir2[t].offset = dir[t].offset /\ ItemStop(dir2[t]) = ItemStop(dir[t])
  BY DEF InOrder, SameLayout, ItemStop
<1>2. \A i \in 1 .. n : /\ dir2[ord[i]].offset = dir[ord[i]].offset
                        /\ ItemStop(dir2[ord[i]]) = ItemStop(dir[ord[i]])
  BY <1>1
<1>3. \A i \in 1 .. n : i # 1 => i - 1 \in 1 .. n
  OBVIOUS
<1>4. n # 0 => n \in 1 .. n
  OBVIOUS
<1> HIDE DEF ItemStop
<1> QED
  BY <1>1, <1>2, <1>3, <1>4 DEF InOrder

(* Items of two tables share no cell, and none touches the header. *)
LEMMA ItemsApart ==
    ASSUME NEW dir, NEW n \in Nat, NEW end, NEW ord, InOrder(dir, n, end, ord), ItemsOK(dir),
           NEW t \in DOMAIN dir
    PROVE  /\ ITEMS_OFFSET_BEGIN <= dir[t].offset /\ ItemStop(dir[t]) <= end
           /\ \A u \in DOMAIN dir : u # t =>
                 ItemStop(dir[t]) <= dir[u].offset \/ ItemStop(dir[u]) <= dir[t].offset
<1>1. PICK i \in 1 .. n : ord[i] = t
  BY DEF InOrder
<1>2. ASSUME NEW u \in DOMAIN dir, u # t
      PROVE  ItemStop(dir[t]) <= dir[u].offset \/ ItemStop(dir[u]) <= dir[t].offset
  <2>1. PICK j \in 1 .. n : ord[j] = u
    BY DEF InOrder
  <2>2. i < j \/ j < i
    BY <1>1, <1>2, <2>1
  <2> QED
    BY <1>1, <2>1, <2>2 DEF InOrder
<1> QED
  BY <1>1, <1>2 DEF InOrder

(* One cell is written. *)
LEMMA WriteCell ==
    ASSUME NEW page \in MetaCells, NEW at \in Nat, NEW v \in Nat
    PROVE  /\ Write(page, at, <<v>>) \in MetaCells
           /\ \A i \in 0 .. MetaSize - 1 : Write(page, at, <<v>>)[i] = IF i = at THEN v ELSE page[i]
<1>1. Len(<<v>>) = 1 /\ <<v>>[1] = v
  OBVIOUS
<1>2. \A i \in 0 .. MetaSize - 1 : (i \in at .. at + 1 - 1 <=> i = at) /\ (i = at => i - at + 1 = 1)
  BY MetaSizeAssumption
<1> DEFINE new == [i \in 0 .. MetaSize - 1 |-> IF i = at THEN v ELSE page[i]]
<1>3. Write(page, at, <<v>>) = new
  BY <1>1, <1>2 DEF Write, MetaCells
<1> QED
  BY <1>3 DEF MetaCells

(* The fields that the in-place updates write. *)
NewFields(item, k, v) ==
    [first |-> IF k = 0 THEN v ELSE item.first,
     rows |-> IF k = 1 THEN v ELSE item.rows,
     last |-> IF k = 3 THEN v ELSE item.last,
     offset |-> item.offset, len |-> item.len, columns |-> item.columns]

Updated(dir, t, k, v) == [u \in DOMAIN dir |-> IF u = t THEN NewFields(dir[u], k, v) ELSE dir[u]]

(* An update in place reaches its own field and no other. *)
LEMMA UpdatedInPlace ==
    ASSUME NEW page, NEW dir, NEW n \in Nat, NEW end \in Nat, MetaOK(page, dir, n, end), ItemsOK(dir),
           NEW t \in DOMAIN dir, NEW k \in {0, 1, 3}, NEW v \in Nat, NEW at,
           at = dir[t].offset + 1 + dir[t].len + k
    PROVE  /\ MetaOK(Write(page, at, <<v>>), Updated(dir, t, k, v), n, end)
           /\ ItemsOK(Updated(dir, t, k, v))
           /\ SameLayout(Updated(dir, t, k, v), dir)
<1> DEFINE page2 == Write(page, at, <<v>>)
           dir2 == Updated(dir, t, k, v)
<1>1. PICK ord : InOrder(dir, n, end, ord)
  BY DEF MetaOK
<1>2. /\ page \in MetaCells /\ AllStored(page, dir) /\ end <= MetaSize
      /\ n > 0 => page[1] = n /\ page[2] = end
      /\ DOMAIN dir \subseteq Tables /\ dir \in [DOMAIN dir -> ItemRecs]
      /\ dir[t] \in ItemRecs
  BY DEF MetaOK, ItemsOK
<1>3. at \in Nat
  BY <1>2 DEF ItemRecs
<1>4. /\ page2 \in MetaCells
      /\ \A i \in 0 .. MetaSize - 1 : page2[i] = IF i = at THEN v ELSE page[i]
  <2>1. page \in MetaCells
    BY <1>2
  <2>2. Write(page, at, <<v>>) \in MetaCells
    BY <1>3, <2>1, WriteCell
  <2>3. \A i \in 0 .. MetaSize - 1 : Write(page, at, <<v>>)[i] = IF i = at THEN v ELSE page[i]
    BY <1>3, <2>1, WriteCell
  <2> QED
    BY <2>2, <2>3
<1>5. /\ DOMAIN dir2 = DOMAIN dir
      /\ \A u \in DOMAIN dir : u # t => dir2[u] = dir[u]
      /\ dir2[t] \in ItemRecs
      /\ dir2[t].offset = dir[t].offset /\ dir2[t].len = dir[t].len
      /\ dir2[t].columns = dir[t].columns
      /\ dir2[t].first = IF k = 0 THEN v ELSE dir[t].first
      /\ dir2[t].rows = IF k = 1 THEN v ELSE dir[t].rows
      /\ dir2[t].last = IF k = 3 THEN v ELSE dir[t].last
  BY <1>2 DEF Updated, NewFields, ItemRecs
<1>6. dir2 \in [DOMAIN dir -> ItemRecs]
  <2>1. dir2 = [u \in DOMAIN dir |-> dir2[u]]
    BY <1>2 DEF Updated
  <2>2. \A u \in DOMAIN dir : dir2[u] \in ItemRecs
    BY <1>2, <1>5
  <2> HIDE DEF dir2
  <2> QED
    BY <2>1, <2>2
<1> HIDE DEF page2, dir2
<1>7. SameLayout(dir2, dir) /\ ItemsOK(dir2)
  BY <1>2, <1>5, <1>6 DEF SameLayout, ItemsOK
<1>8. InOrder(dir2, n, end, ord)
  BY <1>1, <1>7, LayoutKept
<1>9. ITEMS_OFFSET_BEGIN <= dir[t].offset /\ ItemStop(dir[t]) <= end
  BY <1>1, ItemsApart
<1>10. at > 3 /\ at < ItemStop(dir[t]) /\ at < MetaSize
  BY <1>2, <1>9, MetaSizeAssumption DEF ItemStop, ItemRecs, ITEMS_OFFSET_BEGIN
<1>11. ASSUME NEW u \in DOMAIN dir PROVE Stored(page2, u, dir2[u])
  <2>1. Stored(page, u, dir[u]) /\ dir[u] \in ItemRecs
    BY <1>2 DEF AllStored
  <2>2. ITEMS_OFFSET_BEGIN <= dir[u].offset /\ ItemStop(dir[u]) <= end
    BY <1>1, ItemsApart
  <2>3. CASE u = t
    BY <1>2, <1>4, <1>5, <1>10, <2>1, <2>2, <2>3, MetaSizeAssumption
       DEF Stored, ItemRecs, ItemStop, ITEMS_OFFSET_BEGIN
  <2>4. CASE u # t
    <3>1. ItemStop(dir[t]) <= dir[u].offset \/ ItemStop(dir[u]) <= dir[t].offset
      BY <1>1, <2>4, ItemsApart
    <3>2. \A i \in dir[u].offset .. ItemStop(dir[u]) - 1 : i \in 0 .. MetaSize - 1 /\ page2[i] = page[i]
      BY <1>2, <1>4, <1>10, <2>1, <2>2, <3>1, MetaSizeAssumption
         DEF ItemRecs, ItemStop, ITEMS_OFFSET_BEGIN
    <3>3. dir2[u] = dir[u]
      BY <1>5, <2>4
    <3> QED
      BY <2>1, <3>2, <3>3 DEF Stored, ItemRecs, ItemStop
  <2> QED
    BY <2>3, <2>4
<1>12. AllStored(page2, dir2)
  BY <1>5, <1>11 DEF AllStored
<1>13. n > 0 => page2[1] = n /\ page2[2] = end
  BY <1>2, <1>4, <1>10, MetaSizeAssumption
<1>14. MetaOK(page2, dir2, n, end)
  BY <1>2, <1>4, <1>8, <1>12, <1>13 DEF MetaOK
<1> QED
  BY <1>7, <1>14 DEF page2, dir2

(* Several cells are written. *)
LEMMA WriteCells ==
    ASSUME NEW page \in MetaCells, NEW at \in Nat, NEW f \in Seq(Nat)
    PROVE  /\ Write(page, at, f) \in MetaCells
           /\ \A i \in 0 .. MetaSize - 1 :
                 Write(page, at, f)[i] =
                    IF at <= i /\ i < at + Len(f) THEN f[i - at + 1] ELSE page[i]
<1>1. Len(f) \in Nat /\ \A j \in 1 .. Len(f) : f[j] \in Nat
  BY LenProperties, ElementOfSeq
<1>2. DOMAIN page = 0 .. MetaSize - 1 /\ \A i \in 0 .. MetaSize - 1 : page[i] \in Nat
  BY DEF MetaCells
<1> DEFINE new == [i \in 0 .. MetaSize - 1 |->
                     IF i \in at .. at + Len(f) - 1 THEN f[i - at + 1] ELSE page[i]]
<1>3. Write(page, at, f) = new
  BY <1>2 DEF Write
<1>4. ASSUME NEW i \in 0 .. MetaSize - 1
      PROVE  /\ i \in at .. at + Len(f) - 1 <=> at <= i /\ i < at + Len(f)
             /\ i \in at .. at + Len(f) - 1 => i - at + 1 \in 1 .. Len(f)
  <2> HIDE DEF new
  <2> QED
    BY <1>1, MetaSizeAssumption
<1>5. \A i \in 0 .. MetaSize - 1 : new[i] \in Nat
  BY <1>1, <1>2, <1>4
<1>6. new \in MetaCells
  BY <1>5 DEF MetaCells
<1>7. \A i \in 0 .. MetaSize - 1 :
         new[i] = IF at <= i /\ i < at + Len(f) THEN f[i - at + 1] ELSE page[i]
  BY <1>4
<1> QED
  BY <1>3, <1>6, <1>7

(* A field repeated. *)
LEMMA RepeatedField ==
    ASSUME NEW n \in Nat, NEW x \in Nat
    PROVE  [i \in 1 .. n |-> x] \in Seq(Nat) /\ Len([i \in 1 .. n |-> x]) = n
OBVIOUS

(* The fields of an item, in the order AddTable writes them. *)
LEMMA FieldsOfItem ==
    ASSUME NEW t \in Nat, NEW item \in ItemRecs
    PROVE  LET f == ItemFields(t, item)
               b == 1 + item.len
           IN  /\ f \in Seq(Nat)
               /\ Len(f) = b + 6 + item.columns
               /\ f[1] = item.len
               /\ f[b + 1] = item.first /\ f[b + 2] = item.rows /\ f[b + 3] = t
               /\ f[b + 4] = item.last /\ f[b + 6] = item.columns
<1> DEFINE l == item.len
           c == item.columns
           A == [i \in 1 .. l |-> t]
           B == <<item.first, item.rows, t, item.last, item.offset, c>>
           C == [i \in 1 .. c |-> t]
<1>1. l \in Nat \ {0} /\ c \in Nat
  BY DEF ItemRecs
<1>2. A \in Seq(Nat) /\ Len(A) = l
  BY <1>1, RepeatedField
<1>3. C \in Seq(Nat) /\ Len(C) = c
  BY <1>1, RepeatedField
<1>4. /\ B \in Seq(Nat) /\ Len(B) = 6
      /\ B[1] = item.first /\ B[2] = item.rows /\ B[3] = t /\ B[4] = item.last /\ B[6] = c
  BY DEF ItemRecs
<1>5. <<l>> \in Seq(Nat) /\ Len(<<l>>) = 1 /\ <<l>>[1] = l
  BY <1>1
<1>6. ItemFields(t, item) = ((<<l>> \o A) \o B) \o C
  BY DEF ItemFields
<1> HIDE DEF A, B, C, l, c
<1> DEFINE X == <<l>> \o A
<1>7. X \in Seq(Nat) /\ Len(X) = 1 + l /\ X[1] = l
  <2>1. /\ X \in Seq(Nat) /\ Len(X) = Len(<<l>>) + Len(A)
        /\ \A i \in 1 .. Len(<<l>>) + Len(A) :
              X[i] = IF i <= Len(<<l>>) THEN <<l>>[i] ELSE A[i - Len(<<l>>)]
    BY <1>2, <1>5, ConcatProperties
  <2> HIDE DEF X
  <2> QED
    BY <1>1, <1>2, <1>5, <2>1
<1> HIDE DEF X
<1> DEFINE Y == X \o B
<1>8. /\ Y \in Seq(Nat) /\ Len(Y) = 1 + l + 6
      /\ Y[1] = l
      /\ \A i \in 1 .. 6 : Y[1 + l + i] = B[i]
  <2>1. /\ Y \in Seq(Nat) /\ Len(Y) = Len(X) + Len(B)
        /\ \A i \in 1 .. Len(X) + Len(B) : Y[i] = IF i <= Len(X) THEN X[i] ELSE B[i - Len(X)]
    BY <1>4, <1>7, ConcatProperties
  <2> HIDE DEF Y
  <2>2. Y[1] = l /\ Len(Y) = 1 + l + 6
    BY <1>1, <1>4, <1>7, <2>1
  <2>3. ASSUME NEW i \in 1 .. 6 PROVE Y[1 + l + i] = B[i]
    <3> DEFINE k == 1 + l + i
    <3>2. k \in 1 .. Len(X) + Len(B) /\ ~(k <= Len(X)) /\ k - Len(X) = i
      BY <1>1, <1>4, <1>7
    <3> HIDE DEF k
    <3>3. Y[k] = B[k - Len(X)]
      BY <2>1, <3>2
    <3>4. Y[k] = B[i]
      BY <3>2, <3>3
    <3> QED
      BY <3>4 DEF k
  <2> QED
    BY <2>1, <2>2, <2>3
<1> HIDE DEF Y
<1> DEFINE Z == Y \o C
<1>9. /\ Z \in Seq(Nat) /\ Len(Z) = 1 + l + 6 + c
      /\ Z[1] = l
      /\ \A i \in 1 .. 6 : Z[1 + l + i] = B[i]
  <2>1. /\ Z \in Seq(Nat) /\ Len(Z) = Len(Y) + Len(C)
        /\ \A i \in 1 .. Len(Y) + Len(C) : Z[i] = IF i <= Len(Y) THEN Y[i] ELSE C[i - Len(Y)]
    BY <1>3, <1>8, ConcatProperties
  <2> HIDE DEF Z
  <2>2. Z[1] = l /\ Len(Z) = 1 + l + 6 + c
    BY <1>1, <1>3, <1>8, <2>1
  <2>3. ASSUME NEW i \in 1 .. 6 PROVE Z[1 + l + i] = B[i]
    <3>1. 1 + l + i \in 1 .. Len(Y) + Len(C) /\ 1 + l + i <= Len(Y)
      <4>1. Len(Y) = 1 + l + 6 /\ Len(C) = c /\ l \in Nat /\ c \in Nat /\ i \in 1 .. 6
        BY <1>1, <1>3, <1>8
      <4> QED
        BY ONLY <4>1
    <3> QED
      BY <1>8, <2>1, <3>1
  <2> QED
    BY <2>1, <2>2, <2>3
<1>10. ItemFields(t, item) = Z
  BY <1>6 DEF X, Y
<1> HIDE DEF Z
<1>11. /\ Z[1 + l + 1] = B[1] /\ Z[1 + l + 2] = B[2] /\ Z[1 + l + 3] = B[3]
       /\ Z[1 + l + 4] = B[4] /\ Z[1 + l + 6] = B[6]
  BY <1>9
<1> QED
  BY <1>4, <1>9, <1>10, <1>11 DEF l, c

(* The directory with one more item at its end. *)
WithItem(dir, t, item) == [u \in DOMAIN dir \union {t} |-> IF u = t THEN item ELSE dir[u]]

(* A new item goes behind all others. *)
LEMMA OrderExtended ==
    ASSUME NEW dir, NEW n \in Nat, NEW end \in Nat, NEW ord, InOrder(dir, n, end, ord), ItemsOK(dir),
           NEW t, t \notin DOMAIN dir, NEW item \in ItemRecs, item.offset = end
    PROVE  \E ord2 : InOrder(WithItem(dir, t, item), n + 1, ItemStop(item), ord2)
<1> DEFINE dir2 == WithItem(dir, t, item)
           ord2 == [i \in 1 .. n + 1 |-> IF i = n + 1 THEN t ELSE ord[i]]
           last == ItemStop(item)
<1>1. last \in Nat /\ end < last /\ item.offset \in Nat
  BY DEF ItemStop, ItemRecs
<1>2. /\ ord \in [1 .. n -> DOMAIN dir]
      /\ \A i \in 1 .. n : /\ ord[i] \in DOMAIN dir /\ ord[i] # t
                           /\ dir[ord[i]].offset \in Nat /\ ItemStop(dir[ord[i]]) \in Nat
  <2>1. ord \in [1 .. n -> DOMAIN dir] /\ \A u \in DOMAIN dir : dir[u] \in ItemRecs
    BY DEF InOrder, ItemsOK
  <2>2. \A x \in ItemRecs : x.offset \in Nat /\ ItemStop(x) \in Nat
    BY DEF ItemRecs, ItemStop
  <2> HIDE DEF ItemStop
  <2> QED
    BY <2>1, <2>2
<1>3. /\ DOMAIN dir2 = DOMAIN dir \union {t}
      /\ dir2[t] = item
      /\ \A u \in DOMAIN dir : dir2[u] = dir[u]
  BY DEF WithItem
<1>4. /\ ord2[n + 1] = t /\ dir2[ord2[n + 1]] = item
      /\ \A i \in 1 .. n : ord2[i] = ord[i] /\ dir2[ord2[i]] = dir[ord[i]]
  BY <1>2, <1>3
<1>5. ord2 \in [1 .. n + 1 -> DOMAIN dir2]
  BY <1>2, <1>3
<1>6. \A u \in DOMAIN dir2 : \E i \in 1 .. n + 1 : ord2[i] = u
  <2>1. \A u \in DOMAIN dir : \E i \in 1 .. n : ord[i] = u
    BY DEF InOrder
  <2>2. \A i \in 1 .. n : i \in 1 .. n + 1
    OBVIOUS
  <2>3. n + 1 \in 1 .. n + 1
    OBVIOUS
  <2> HIDE DEF ord2, dir2
  <2> QED
    BY <1>3, <1>4, <2>1, <2>2, <2>3
<1> HIDE DEF ord2, dir2, last
<1>7. ASSUME NEW i \in 1 .. n + 1
      PROVE  /\ dir2[ord2[i]].offset =
                   IF i = 1 THEN ITEMS_OFFSET_BEGIN ELSE ItemStop(dir2[ord2[i - 1]])
             /\ ITEMS_OFFSET_BEGIN <= dir2[ord2[i]].offset
             /\ ItemStop(dir2[ord2[i]]) <= last
  <2>1. CASE i \in 1 .. n
    <3>1. /\ dir[ord[i]].offset = IF i = 1 THEN ITEMS_OFFSET_BEGIN ELSE ItemStop(dir[ord[i - 1]])
          /\ ITEMS_OFFSET_BEGIN <= dir[ord[i]].offset /\ ItemStop(dir[ord[i]]) <= end
      BY <2>1 DEF InOrder
    <3>2. i # 1 => i - 1 \in 1 .. n
      BY <2>1
    <3>3. dir2[ord2[i]] = dir[ord[i]] /\ (i # 1 => dir2[ord2[i - 1]] = dir[ord[i - 1]])
      BY <1>4, <2>1, <3>2
    <3>4. ItemStop(dir[ord[i]]) <= last
      BY <1>1, <1>2, <2>1, <3>1
    <3> QED
      BY <3>1, <3>3, <3>4
  <2>2. CASE i = n + 1
    <3>1. dir2[ord2[i]] = item
      BY <1>4, <2>2
    <3>2. CASE n = 0
      BY <1>1, <2>2, <3>1, <3>2 DEF InOrder, last, ITEMS_OFFSET_BEGIN
    <3>3. CASE n # 0
      <4>1. n \in 1 .. n /\ i - 1 = n /\ i # 1
        BY <2>2, <3>3
      <4>2. end = ItemStop(dir[ord[n]])
        BY <3>3 DEF InOrder
      <4>3. dir2[ord2[i - 1]] = dir[ord[n]]
        BY <1>4, <4>1
      <4>4. ITEMS_OFFSET_BEGIN <= dir[ord[n]].offset /\ dir[ord[n]] \in ItemRecs
        BY <1>2, <4>1 DEF InOrder, ItemsOK
      <4>5. ITEMS_OFFSET_BEGIN <= end
        BY <4>2, <4>4 DEF ItemStop, ItemRecs, ITEMS_OFFSET_BEGIN
      <4> QED
        BY <1>1, <3>1, <4>1, <4>2, <4>3, <4>5 DEF last
    <3> QED
      BY <3>2, <3>3
  <2> QED
    BY <2>1, <2>2
<1>8. ASSUME NEW i \in 1 .. n + 1, NEW j \in 1 .. n + 1, i < j
      PROVE  ItemStop(dir2[ord2[i]]) <= dir2[ord2[j]].offset
  <2>1. i \in 1 .. n /\ dir2[ord2[i]] = dir[ord[i]]
    BY <1>4, <1>8
  <2>2. CASE j \in 1 .. n
    BY <1>4, <1>8, <2>1, <2>2 DEF InOrder
  <2>3. CASE j = n + 1
    BY <1>4, <2>1, <2>3 DEF InOrder
  <2> QED
    BY <2>2, <2>3
<1>9. last = IF n + 1 = 0 THEN ITEMS_OFFSET_BEGIN ELSE ItemStop(dir2[ord2[n + 1]])
  BY <1>4 DEF last
<1>10. InOrder(dir2, n + 1, last, ord2)
  BY <1>5, <1>6, <1>7, <1>8, <1>9 DEF InOrder
<1> QED
  BY <1>10 DEF dir2, last

(* AddTable, where the item ends inside the page. *)
LEMMA ItemCreated ==
    ASSUME NEW page, NEW dir, NEW n \in Nat, NEW end \in Nat, MetaOK(page, dir, n, end), ItemsOK(dir),
           NEW t \in Tables, t \notin DOMAIN dir, NEW item \in ItemRecs, item.offset = end,
           NEW f, f = ItemFields(t, item), end + Len(f) <= MetaSize
    PROVE  MetaOK(Write(Write(page, end, f), 1, <<n + 1, end + Len(f)>>),
                  WithItem(dir, t, item), n + 1, end + Len(f))
<1> DEFINE page1 == Write(page, end, f)
           last == end + Len(f)
           page2 == Write(page1, 1, <<n + 1, last>>)
           dir2 == WithItem(dir, t, item)
<1>1. PICK ord : InOrder(dir, n, end, ord)
  BY DEF MetaOK
<1>2. page \in MetaCells /\ AllStored(page, dir) /\ t \in Nat /\ end <= MetaSize
  BY TablesAssumption DEF MetaOK
<1>3. /\ f \in Seq(Nat)
      /\ Len(f) = 1 + item.len + 6 + item.columns
      /\ f[1] = item.len
      /\ f[1 + item.len + 1] = item.first /\ f[1 + item.len + 2] = item.rows
      /\ f[1 + item.len + 3] = t
      /\ f[1 + item.len + 4] = item.last /\ f[1 + item.len + 6] = item.columns
  BY <1>2, FieldsOfItem
<1>4. item.len \in Nat \ {0} /\ item.columns \in Nat
  BY DEF ItemRecs
<1>5. last \in Nat /\ last = ItemStop(item) /\ last <= MetaSize /\ last > end
  <2> DEFINE k == Len(f)
             l == item.len
             c == item.columns
  <2>1. k = 1 + l + 6 + c /\ l \in Nat /\ c \in Nat /\ end \in Nat /\ end + k <= MetaSize
    BY <1>3, <1>4
  <2>2. ItemStop(item) = end + 1 + l + 6 + c /\ last = end + k
    BY DEF ItemStop
  <2> HIDE DEF k, l, c, last
  <2> QED
    BY ONLY <2>1, <2>2
<1>6. /\ page1 \in MetaCells
      /\ \A i \in 0 .. MetaSize - 1 :
            page1[i] = IF end <= i /\ i < end + Len(f) THEN f[i - end + 1] ELSE page[i]
  BY <1>2, <1>3, WriteCells
<1>7. <<n + 1, last>> \in Seq(Nat) /\ Len(<<n + 1, last>>) = 2
      /\ <<n + 1, last>>[1] = n + 1 /\ <<n + 1, last>>[2] = last
  BY <1>5
<1> HIDE DEF page1, last
<1>8. /\ page2 \in MetaCells
      /\ \A i \in 0 .. MetaSize - 1 :
            page2[i] = IF 1 <= i /\ i < 1 + 2 THEN <<n + 1, last>>[i - 1 + 1] ELSE page1[i]
  <2> DEFINE g == <<n + 1, last>>
  <2>1. g \in Seq(Nat) /\ Len(g) = 2
    BY <1>7
  <2> HIDE DEF g
  <2>2. /\ Write(page1, 1, g) \in MetaCells
        /\ \A i \in 0 .. MetaSize - 1 :
              Write(page1, 1, g)[i] = IF 1 <= i /\ i < 1 + Len(g) THEN g[i - 1 + 1] ELSE page1[i]
    BY ONLY <1>6, <2>1, 1 \in Nat, WriteCells
  <2> QED
    BY <2>1, <2>2 DEF g
<1> HIDE DEF page2
<1>9. page2[1] = n + 1 /\ page2[2] = last /\ \A i \in 3 .. MetaSize - 1 : page2[i] = page1[i]
  <2>1. 1 \in 0 .. MetaSize - 1 /\ 2 \in 0 .. MetaSize - 1
    BY MetaSizeAssumption
  <2>2. page2[1] = n + 1 /\ page2[2] = last
    BY <1>7, <1>8, <2>1
  <2>3. ASSUME NEW i \in 3 .. MetaSize - 1 PROVE page2[i] = page1[i]
    <3>1. i \in 0 .. MetaSize - 1 /\ ~(i < 1 + 2)
      BY MetaSizeAssumption
    <3> QED
      BY <1>8, <3>1
  <2> QED
    BY <2>2, <2>3
<1>10. ITEMS_OFFSET_BEGIN <= end
  <2>1. CASE n = 0
    BY <1>1, <2>1 DEF InOrder
  <2>2. CASE n # 0
    <3>1. n \in 1 .. n /\ ord[n] \in DOMAIN dir /\ dir[ord[n]] \in ItemRecs
      BY <1>1, <2>2 DEF InOrder, ItemsOK
    <3>2. ITEMS_OFFSET_BEGIN <= dir[ord[n]].offset /\ end = ItemStop(dir[ord[n]])
      BY <1>1, <2>2, <3>1 DEF InOrder
    <3> QED
      BY ONLY <3>1, <3>2, end \in Nat DEF ItemStop, ItemRecs, ITEMS_OFFSET_BEGIN
  <2> QED
    BY <2>1, <2>2
<1>11. \A i \in 3 .. end - 1 : i \in 0 .. MetaSize - 1 /\ page2[i] = page[i]
  <2> SUFFICES ASSUME NEW i \in 3 .. end - 1
               PROVE  i \in 0 .. MetaSize - 1 /\ page2[i] = page[i]
    OBVIOUS
  <2>1. i \in 0 .. MetaSize - 1 /\ i \in 3 .. MetaSize - 1 /\ ~(end <= i)
    BY <1>2, MetaSizeAssumption
  <2> QED
    BY <1>6, <1>9, <2>1
<1>12. ASSUME NEW u \in DOMAIN dir PROVE Stored(page2, u, dir[u])
  <2>1. Stored(page, u, dir[u]) /\ dir[u] \in ItemRecs
    BY <1>2 DEF AllStored, ItemsOK
  <2>2. ITEMS_OFFSET_BEGIN <= dir[u].offset /\ ItemStop(dir[u]) <= end
    BY <1>1, ItemsApart
  <2>3. \A i \in dir[u].offset .. ItemStop(dir[u]) - 1 : i \in 3 .. end - 1
    BY ONLY <2>1, <2>2, end \in Nat DEF ItemRecs, ItemStop, ITEMS_OFFSET_BEGIN
  <2>4. \A i \in dir[u].offset .. ItemStop(dir[u]) - 1 : page2[i] = page[i]
    BY <1>11, <2>3
  <2> QED
    BY ONLY <2>1, <2>4 DEF Stored, ItemRecs, ItemStop
<1>13. Stored(page2, t, item)
  <2>1. \A j \in 1 .. Len(f) : page2[end + j - 1] = f[j]
    <3> SUFFICES ASSUME NEW j \in 1 .. Len(f) PROVE page2[end + j - 1] = f[j]
      OBVIOUS
    <3>1. Len(f) \in Nat
      BY <1>3, <1>4
    <3> DEFINE i == end + j - 1
    <3>2. /\ i \in 3 .. MetaSize - 1 /\ i \in 0 .. MetaSize - 1
          /\ end <= i /\ i < end + Len(f) /\ i - end + 1 = j
      BY <1>5, <1>10, <3>1, MetaSizeAssumption DEF last, ITEMS_OFFSET_BEGIN
    <3> HIDE DEF i
    <3>3. page2[i] = f[i - end + 1]
      BY <1>6, <1>9, <3>2
    <3>4. page2[i] = f[j]
      BY <3>2, <3>3
    <3> QED
      BY <3>4 DEF i
  <2> DEFINE b == end + 1 + item.len
  <2>2. /\ 1 \in 1 .. Len(f) /\ end + 1 - 1 = end
        /\ 1 + item.len + 1 \in 1 .. Len(f) /\ end + (1 + item.len + 1) - 1 = b
        /\ 1 + item.len + 2 \in 1 .. Len(f) /\ end + (1 + item.len + 2) - 1 = b + 1
        /\ 1 + item.len + 3 \in 1 .. Len(f) /\ end + (1 + item.len + 3) - 1 = b + 2
        /\ 1 + item.len + 4 \in 1 .. Len(f) /\ end + (1 + item.len + 4) - 1 = b + 3
        /\ 1 + item.len + 6 \in 1 .. Len(f) /\ end + (1 + item.len + 6) - 1 = b + 5
    <3> DEFINE k == Len(f)
               l == item.len
               c == item.columns
    <3>1. k = 1 + l + 6 + c /\ l \in Nat /\ c \in Nat /\ end \in Nat /\ b = end + 1 + l
      BY <1>3, <1>4
    <3> HIDE DEF k, l, c, b
    <3>2. /\ 1 \in 1 .. k /\ end + 1 - 1 = end
          /\ 1 + l + 1 \in 1 .. k /\ end + (1 + l + 1) - 1 = b
          /\ 1 + l + 2 \in 1 .. k /\ end + (1 + l + 2) - 1 = b + 1
          /\ 1 + l + 3 \in 1 .. k /\ end + (1 + l + 3) - 1 = b + 2
          /\ 1 + l + 4 \in 1 .. k /\ end + (1 + l + 4) - 1 = b + 3
          /\ 1 + l + 6 \in 1 .. k /\ end + (1 + l + 6) - 1 = b + 5
      BY ONLY <3>1
    <3> QED
      BY <3>2 DEF k, l
  <2>3. /\ page2[end + 1 - 1] = f[1]
        /\ page2[end + (1 + item.len + 1) - 1] = f[1 + item.len + 1]
        /\ page2[end + (1 + item.len + 2) - 1] = f[1 + item.len + 2]
        /\ page2[end + (1 + item.len + 3) - 1] = f[1 + item.len + 3]
        /\ page2[end + (1 + item.len + 4) - 1] = f[1 + item.len + 4]
        /\ page2[end + (1 + item.len + 6) - 1] = f[1 + item.len + 6]
    BY <2>1, <2>2
  <2> HIDE DEF b
  <2>4. /\ page2[end] = item.len
        /\ page2[b] = item.first /\ page2[b + 1] = item.rows
        /\ page2[b + 2] = t /\ page2[b + 3] = item.last /\ page2[b + 5] = item.columns
    BY ONLY <1>3, <2>2, <2>3
  <2> QED
    BY <2>4 DEF Stored, b
<1>14. AllStored(page2, dir2)
  BY <1>12, <1>13 DEF AllStored, WithItem
<1>15. \E ord2 : InOrder(dir2, n + 1, last, ord2)
  BY <1>1, <1>5, OrderExtended
<1> QED
  BY <1>5, <1>8, <1>9, <1>14, <1>15 DEF MetaOK, page2, page1, last

(* CREATE TABLE keeps the directory readable. *)
LEMMA MetaOfCreate ==
    ASSUME MetaInv, NEW t \in Tables, CreateTable(t), UNCHANGED started
    PROVE  /\ MetaInv'
           /\ t \notin DOMAIN items /\ items' = WithItem(items, t, NewItem(t))
           /\ NewItem(t).first = INVALID_PAGE_ID /\ NewItem(t).last = INVALID_PAGE_ID
           /\ NewItem(t).rows = 0
<1> DEFINE item == NewItem(t)
           f == ItemFields(t, item)
           end == last_point + Len(f)
           page2 == Write(Write(meta, last_point, f), 1, <<table_size + 1, end>>)
<1>1. /\ meta \in MetaCells /\ ItemsOK(items) /\ DOMAIN items \subseteq catalog
      /\ last_point \in Nat /\ table_size \in Nat
      /\ t \in Nat
  BY TablesAssumption DEF MetaInv
<1>2. item \in ItemRecs /\ item.offset = last_point
  BY <1>1, NameLenAssumption, ColumnsAssumption DEF NewItem, ItemRecs, INVALID_PAGE_ID
<1>3. /\ t \notin catalog /\ catalog' = catalog \union {t}
      /\ items' = WithItem(items, t, item)
      /\ last_point' = end /\ table_size' = table_size + 1
      /\ meta' = page2 /\ overrun' = (overrun \/ end > MetaSize) /\ started' = started
  BY DEF CreateTable, WithItem
<1>4. t \notin DOMAIN items
  BY <1>1, <1>3
<1>5. ItemsOK(items')
  BY <1>1, <1>2, <1>3 DEF ItemsOK, WithItem
<1>6. DOMAIN items' \subseteq catalog'
  BY <1>1, <1>3 DEF WithItem
<1> HIDE DEF item
<1>7. f \in Seq(Nat) /\ Len(f) \in Nat
  BY <1>1, <1>2, FieldsOfItem, LenProperties
<1> HIDE DEF f
<1>8. end \in Nat
  BY <1>1, <1>7
<1>9. page2 \in MetaCells
  <2>1. Write(meta, last_point, f) \in MetaCells
    BY <1>1, <1>7, WriteCells
  <2>2. <<table_size + 1, end>> \in Seq(Nat)
    BY <1>1, <1>8
  <2> QED
    BY <2>1, <2>2, WriteCells
<1>10. ASSUME ~overrun'
       PROVE  MetaOK(meta', items', table_size', last_point') /\ meta'[1] = table_size'
  <2>1. MetaOK(meta, items, table_size, last_point) /\ end <= MetaSize
    <3>1. ~overrun /\ ~(end > MetaSize)
      BY <1>3, <1>10
    <3> QED
      BY <1>8, <3>1, MetaSizeAssumption DEF MetaInv
  <2>2. MetaOK(page2, WithItem(items, t, item), table_size + 1, end)
    BY <1>1, <1>2, <1>4, <2>1, ItemCreated DEF f
  <2>3. page2[1] = table_size + 1
    BY <1>1, <2>2 DEF MetaOK
  <2> QED
    BY <1>3, <2>2, <2>3
<1>11. overrun' \in BOOLEAN
  BY <1>3
<1>12. last_point' \in Nat /\ table_size' \in Nat /\ meta' \in MetaCells
  BY <1>1, <1>3, <1>8, <1>9
<1>13. MetaInv'
  BY <1>5, <1>6, <1>10, <1>11, <1>12 DEF MetaInv
<1> QED
  BY <1>3, <1>4, <1>13 DEF item, NewItem

-----------------------------------------------------------------------------
(* What the steps of a statement make of a store, and of its directory. *)

IsStore(s) == DOMAIN s = {"pages", "next", "undo", "items", "meta"}

DirectoryOK(dir, page) ==
    /\ ItemsOK(dir) /\ SameLayout(dir, items)
    /\ MetaOK(page, dir, table_size, last_point)

StoreOK(s) ==
    /\ IsStore(s)
    /\ DOMAIN s.pages = PageIds /\ s.pages = [p \in PageIds |-> s.pages[p]]
    /\ s.next \in Nat \ {0} /\ s.undo \in Nat
    /\ DirectoryOK(s.items, s.meta)

(* NewPage changes one page and the counter. *)
LEMMA NewPageStore ==
    ASSUME NEW s, StoreOK(s), NEW e
    PROVE  LET r == NewPage(s, e)
           IN  /\ StoreOK(r)
               /\ r.pages = [s.pages EXCEPT ![s.next] = e]
               /\ r.next = s.next + 1 /\ r.undo = s.undo
               /\ r.items = s.items /\ r.meta = s.meta
<1> DEFINE r == NewPage(s, e)
<1>1. /\ r.pages = [s.pages EXCEPT ![s.next] = e]
      /\ r.next = s.next + 1 /\ r.undo = s.undo
      /\ r.items = s.items /\ r.meta = s.meta
      /\ IsStore(r)
  BY DEF StoreOK, IsStore, NewPage
<1> HIDE DEF r
<1>2. DOMAIN r.pages = PageIds /\ r.pages = [p \in PageIds |-> r.pages[p]]
  BY <1>1 DEF StoreOK
<1>3. r.next \in Nat \ {0} /\ r.undo \in Nat
  BY <1>1 DEF StoreOK
<1>4. StoreOK(r)
  BY <1>1, <1>2, <1>3 DEF StoreOK
<1> QED
  BY <1>1, <1>4 DEF r

(* A store with other pages. *)
LEMMA PagesStore ==
    ASSUME NEW s, StoreOK(s), NEW pgs, DOMAIN pgs = PageIds, pgs = [p \in PageIds |-> pgs[p]]
    PROVE  LET r == [s EXCEPT !.pages = pgs]
           IN  /\ StoreOK(r)
               /\ r.pages = pgs /\ r.next = s.next /\ r.undo = s.undo
               /\ r.items = s.items /\ r.meta = s.meta
<1> DEFINE r == [s EXCEPT !.pages = pgs]
<1>1. /\ IsStore(r)
      /\ r.pages = pgs /\ r.next = s.next /\ r.undo = s.undo
      /\ r.items = s.items /\ r.meta = s.meta
  BY DEF StoreOK, IsStore
<1> HIDE DEF r
<1>2. StoreOK(r)
  BY <1>1 DEF StoreOK
<1> QED
  BY <1>1, <1>2 DEF r

FieldSet(r, s, t, k, v) ==
    /\ StoreOK(r)
    /\ r.pages = s.pages /\ r.next = s.next /\ r.undo = s.undo
    /\ r.items = Updated(s.items, t, k, v)

(* The directory after a field was set in memory and on the page. *)
LEMMA DirectorySet ==
    ASSUME MetaInv, NEW dir, NEW page, DirectoryOK(dir, page), NEW t \in DOMAIN items,
           NEW k \in {0, 1, 3}, NEW v \in Nat
    PROVE  /\ items[t].offset + 1 + GetNameLen(page, t) + k \in Nat
           /\ DirectoryOK(Updated(dir, t, k, v),
                          Write(page, items[t].offset + 1 + GetNameLen(page, t) + k, <<v>>))
<1>1. /\ ItemsOK(dir) /\ SameLayout(dir, items) /\ MetaOK(page, dir, table_size, last_point)
      /\ table_size \in Nat /\ last_point \in Nat /\ t \in DOMAIN dir
  BY DEF DirectoryOK, MetaInv, SameLayout
<1>2. Stored(page, t, dir[t]) /\ items[t].offset = dir[t].offset
  BY <1>1 DEF MetaOK, AllStored, SameLayout
<1>3. GetNameLen(page, t) = dir[t].len
  BY <1>2 DEF Stored, GetNameLen
<1> DEFINE at == dir[t].offset + 1 + dir[t].len + k
<1>4. items[t].offset + 1 + GetNameLen(page, t) + k = at
  BY <1>2, <1>3
<1>5. at \in Nat
  <2>1. dir[t].offset \in Nat /\ dir[t].len \in Nat
    BY <1>1 DEF ItemsOK, ItemRecs
  <2> QED
    BY <2>1
<1>6. /\ MetaOK(Write(page, at, <<v>>), Updated(dir, t, k, v), table_size, last_point)
      /\ ItemsOK(Updated(dir, t, k, v))
      /\ SameLayout(Updated(dir, t, k, v), dir)
  BY <1>1, UpdatedInPlace
<1>7. SameLayout(Updated(dir, t, k, v), items)
  BY <1>1, <1>6 DEF SameLayout
<1> HIDE DEF at
<1> QED
  BY <1>4, <1>5, <1>6, <1>7 DEF DirectoryOK

(* SetLast, SetFirst and AddRows set a field of an item, in memory and on page 0. *)
LEMMA FieldStore ==
    ASSUME MetaInv, NEW s, StoreOK(s), NEW t \in DOMAIN items, NEW v \in Nat
    PROVE  /\ FieldSet(SetFirst(s, t, v), s, t, 0, v)
           /\ FieldSet(AddRows(s, t, v), s, t, 1, v)
           /\ FieldSet(SetLast(s, t, v), s, t, 3, v)
<1>1. /\ t \in DOMAIN s.items /\ s.items[t] \in ItemRecs
      /\ s.items \in [DOMAIN s.items -> ItemRecs]
      /\ DirectoryOK(s.items, s.meta)
  BY DEF StoreOK, DirectoryOK, SameLayout, ItemsOK
<1>2. /\ [s.items EXCEPT ![t].first = v] = Updated(s.items, t, 0, v)
      /\ [s.items EXCEPT ![t].rows = v] = Updated(s.items, t, 1, v)
      /\ [s.items EXCEPT ![t].last = v] = Updated(s.items, t, 3, v)
  <2>1. /\ [s.items[t] EXCEPT !.first = v] = NewFields(s.items[t], 0, v)
        /\ [s.items[t] EXCEPT !.rows = v] = NewFields(s.items[t], 1, v)
        /\ [s.items[t] EXCEPT !.last = v] = NewFields(s.items[t], 3, v)
    BY <1>1 DEF NewFields, ItemRecs
  <2> QED
    BY <1>1, <2>1 DEF Updated
<1> DEFINE at(k) == items[t].offset + 1 + GetNameLen(s.meta, t) + k
<1>3. ASSUME NEW k \in {0, 1, 3}
      PROVE  at(k) \in Nat /\ DirectoryOK(Updated(s.items, t, k, v), Write(s.meta, at(k), <<v>>))
  BY <1>1, DirectorySet
<1>4. items[t].offset + 1 + GetNameLen(s.meta, t) = at(0)
  <2>1. items[t].offset \in Nat /\ GetNameLen(s.meta, t) \in Nat
    <3>1. items[t] \in ItemRecs /\ items[t].offset = s.items[t].offset
      BY <1>1 DEF MetaInv, ItemsOK, DirectoryOK, SameLayout
    <3>2. Stored(s.meta, t, s.items[t])
      BY <1>1 DEF DirectoryOK, MetaOK, AllStored
    <3> QED
      BY <1>1, <3>1, <3>2 DEF Stored, GetNameLen, ItemRecs
  <2> QED
    BY <2>1
<1> DEFINE first == SetFirst(s, t, v)
           rows == AddRows(s, t, v)
           last == SetLast(s, t, v)
<1>5. /\ IsStore(first) /\ first.pages = s.pages /\ first.next = s.next /\ first.undo = s.undo
      /\ first.items = [s.items EXCEPT ![t].first = v]
      /\ first.meta = Write(s.meta, items[t].offset + 1 + GetNameLen(s.meta, t), <<v>>)
  BY DEF StoreOK, IsStore, SetFirst, UpdateTableFirstId
<1>6. /\ IsStore(rows) /\ rows.pages = s.pages /\ rows.next = s.next /\ rows.undo = s.undo
      /\ rows.items = [s.items EXCEPT ![t].rows = v]
      /\ rows.meta = Write(s.meta, at(1), <<v>>)
  BY DEF StoreOK, IsStore, AddRows, UpdateTableRows
<1>7. /\ IsStore(last) /\ last.pages = s.pages /\ last.next = s.next /\ last.undo = s.undo
      /\ last.items = [s.items EXCEPT ![t].last = v]
      /\ last.meta = Write(s.meta, at(3), <<v>>)
  BY DEF StoreOK, IsStore, SetLast, UpdateTableLastId
<1> HIDE DEF at, first, rows, last
<1>8. FieldSet(first, s, t, 0, v)
  BY <1>2, <1>3, <1>4, <1>5 DEF FieldSet, StoreOK
<1>9. FieldSet(rows, s, t, 1, v)
  BY <1>2, <1>3, <1>6 DEF FieldSet, StoreOK
<1>10. FieldSet(last, s, t, 3, v)
  BY <1>2, <1>3, <1>7 DEF FieldSet, StoreOK
<1> QED
  BY <1>8, <1>9, <1>10 DEF first, rows, last

-----------------------------------------------------------------------------
(* The steps of a statement, as changes of the fields of a store. *)

(* AllocateAndLinkNewPage. *)
LEMMA LinkNewPageStore ==
    ASSUME MetaInv, NEW s, StoreOK(s), NEW t \in DOMAIN items
    PROVE  LET r == LinkNewPage(s, t)
           IN  /\ StoreOK(r)
               /\ r.pages = [[s.pages EXCEPT ![s.next] = EmptyTablePage]
                               EXCEPT ![s.items[t].last].next = s.next]
               /\ r.next = s.next + 1 /\ r.undo = s.undo
               /\ r.items = Updated(s.items, t, 3, s.next)
<1> DEFINE new == NewPage(s, EmptyTablePage)
           pgs == [[s.pages EXCEPT ![s.next] = EmptyTablePage]
                     EXCEPT ![s.items[t].last].next = s.next]
           mid == [new EXCEPT !.pages[s.items[t].last].next = s.next]
           r == SetLast(mid, t, s.next)
<1>1. /\ StoreOK(new) /\ new.pages = [s.pages EXCEPT ![s.next] = EmptyTablePage]
      /\ new.next = s.next + 1 /\ new.undo = s.undo /\ new.items = s.items
  BY NewPageStore
<1>2. s.next \in Nat
  BY DEF StoreOK
<1> HIDE DEF new
<1>3. /\ IsStore(mid) /\ mid.pages = pgs /\ mid.next = new.next /\ mid.undo = new.undo
      /\ mid.items = new.items /\ mid.meta = new.meta
  BY <1>1 DEF StoreOK, IsStore
<1>4. DOMAIN pgs = PageIds /\ pgs = [p \in PageIds |-> pgs[p]]
  BY DEF StoreOK
<1> HIDE DEF mid, pgs
<1>5. StoreOK(mid)
  BY <1>1, <1>3, <1>4 DEF StoreOK
<1>6. FieldSet(r, mid, t, 3, s.next)
  BY <1>2, <1>5, FieldStore
<1>7. LinkNewPage(s, t) = r
  BY DEF LinkNewPage, new, mid
<1> HIDE DEF r
<1> QED
  BY <1>1, <1>3, <1>6, <1>7 DEF FieldSet, pgs

(* The first page of a table. *)
LEMMA OpenLastPageStore ==
    ASSUME MetaInv, NEW s, StoreOK(s), NEW t \in DOMAIN items, s.items[t].last = INVALID_PAGE_ID
    PROVE  LET r == OpenLastPage(s, t)
           IN  /\ StoreOK(r)
               /\ r.pages = [s.pages EXCEPT ![s.next] = EmptyTablePage]
               /\ r.next = s.next + 1 /\ r.undo = s.undo
               /\ r.items = IF s.items[t].first = INVALID_PAGE_ID
                            THEN Updated(Updated(s.items, t, 3, s.next), t, 0, s.next)
                            ELSE Updated(s.items, t, 3, s.next)
<1> DEFINE page == NewPage(s, EmptyTablePage)
           new == SetLast(page, t, s.next)
           both == SetFirst(new, t, s.next)
<1>1. /\ StoreOK(page) /\ page.pages = [s.pages EXCEPT ![s.next] = EmptyTablePage]
      /\ page.next = s.next + 1 /\ page.undo = s.undo /\ page.items = s.items
  BY NewPageStore
<1>2. s.next \in Nat /\ t \in DOMAIN s.items
  BY DEF StoreOK, DirectoryOK, SameLayout
<1> HIDE DEF page
<1>3. FieldSet(new, page, t, 3, s.next)
  BY <1>1, <1>2, FieldStore
<1>4. new.items[t].first = s.items[t].first
  BY <1>1, <1>2, <1>3 DEF FieldSet, Updated, NewFields
<1> HIDE DEF new
<1>5. StoreOK(new)
  BY <1>3 DEF FieldSet
<1>6. FieldSet(both, new, t, 0, s.next)
  BY <1>2, <1>5, FieldStore
<1>7. OpenLastPage(s, t) = IF s.items[t].first = INVALID_PAGE_ID THEN both ELSE new
  BY <1>4 DEF OpenLastPage, new, page
<1> HIDE DEF both
<1> QED
  BY <1>1, <1>3, <1>6, <1>7 DEF FieldSet

(* A row is placed and counted. *)
LEMMA PlaceRowStore ==
    ASSUME MetaInv, NEW s, StoreOK(s), NEW t \in DOMAIN items, NEW size, NEW roll
    PROVE  LET r == PlaceRow(s, t, size, roll)
           IN  /\ StoreOK(r)
               /\ r.pages = [s.pages EXCEPT ![s.items[t].last] = InsertTuple(@, size, roll)]
               /\ r.next = s.next /\ r.undo = s.undo
               /\ r.items = Updated(s.items, t, 1, s.items[t].rows + 1)
<1> DEFINE pgs == [s.pages EXCEPT ![s.items[t].last] = InsertTuple(@, size, roll)]
           mid == [s EXCEPT !.pages[s.items[t].last] = InsertTuple(@, size, roll)]
           r == AddRows(mid, t, s.items[t].rows + 1)
<1>1. s.items[t].rows + 1 \in Nat
  <2>1. s.items[t] \in ItemRecs
    BY DEF StoreOK, DirectoryOK, SameLayout, ItemsOK
  <2> QED
    BY <2>1 DEF ItemRecs
<1>2. /\ IsStore(mid) /\ mid.pages = pgs /\ mid.next = s.next /\ mid.undo = s.undo
      /\ mid.items = s.items /\ mid.meta = s.meta
  BY DEF StoreOK, IsStore
<1>3. DOMAIN pgs = PageIds /\ pgs = [p \in PageIds |-> pgs[p]]
  BY DEF StoreOK
<1> HIDE DEF mid, pgs
<1>4. StoreOK(mid)
  BY <1>2, <1>3 DEF StoreOK
<1>5. FieldSet(r, mid, t, 1, s.items[t].rows + 1)
  BY <1>1, <1>4, FieldStore
<1>6. PlaceRow(s, t, size, roll) = r
  BY DEF PlaceRow, mid
<1> HIDE DEF r
<1> QED
  BY <1>2, <1>5, <1>6 DEF FieldSet, pgs

RowsAfterDelete(s, t) == IF s.items[t].rows > 0 THEN s.items[t].rows - 1 ELSE 0

Marked(rec, roll) == [rec EXCEPT !.del = TRUE, !.roll = roll]

RemovalOf(r, s, t, rid) ==
    /\ StoreOK(r)
    /\ r.pages = [[s.pages EXCEPT ![s.undo] = AppendRecord(@, RowSize(rid))]
                    EXCEPT ![rid.page].recs[rid.row] = Marked(@, UndoPointer(s))]
    /\ r.next = s.next /\ r.undo = s.undo
    /\ r.items = Updated(s.items, t, 1, RowsAfterDelete(s, t))

(* The image of a row is saved, and the row is marked and counted off. *)
LEMMA RemovedStore ==
    ASSUME MetaInv, NEW s, StoreOK(s), NEW t \in DOMAIN items, NEW rid
    PROVE  RemovalOf(Removed(s, t, rid), s, t, rid)
<1> DEFINE one == SaveImage(s, RowSize(rid))
           pgs1 == [s.pages EXCEPT ![s.undo] = AppendRecord(@, RowSize(rid))]
           pgs == [pgs1 EXCEPT ![rid.page].recs[rid.row] = Marked(@, UndoPointer(s))]
           mid == [one EXCEPT !.pages[rid.page].recs[rid.row] =
                                 [@ EXCEPT !.del = TRUE, !.roll = UndoPointer(s)]]
           r == AddRows(mid, t, RowsAfterDelete(s, t))
<1>1. RowsAfterDelete(s, t) \in Nat
  <2>1. s.items[t] \in ItemRecs
    BY DEF StoreOK, DirectoryOK, SameLayout, ItemsOK
  <2> QED
    BY <2>1 DEF ItemRecs, RowsAfterDelete
<1>2. /\ IsStore(one) /\ one.pages = pgs1 /\ one.next = s.next /\ one.undo = s.undo
      /\ one.items = s.items /\ one.meta = s.meta
  BY DEF StoreOK, IsStore, SaveImage
<1> HIDE DEF one
<1>3. /\ IsStore(mid) /\ mid.pages = pgs /\ mid.next = s.next /\ mid.undo = s.undo
      /\ mid.items = s.items /\ mid.meta = s.meta
  BY <1>2 DEF IsStore, Marked
<1>4. DOMAIN pgs = PageIds /\ pgs = [p \in PageIds |-> pgs[p]]
  BY DEF StoreOK
<1> HIDE DEF mid, pgs
<1>5. StoreOK(mid)
  BY <1>3, <1>4 DEF StoreOK
<1>6. FieldSet(r, mid, t, 1, RowsAfterDelete(s, t))
  BY <1>1, <1>5, FieldStore
<1>7. Removed(s, t, rid) = r
  BY <1>2 DEF Removed, MarkDelete, mid, one, RowsAfterDelete
<1> HIDE DEF r
<1> QED
  BY <1>3, <1>6, <1>7 DEF FieldSet, pgs, RemovalOf

FreshUndo(x) == [NewPage(x, EmptyUndoPage) EXCEPT !.undo = x.next]

(* A new page of the undo log. *)
LEMMA FreshUndoStore ==
    ASSUME NEW s, StoreOK(s)
    PROVE  LET r == FreshUndo(s)
           IN  /\ StoreOK(r)
               /\ r.pages = [s.pages EXCEPT ![s.next] = EmptyUndoPage]
               /\ r.next = s.next + 1 /\ r.undo = s.next
               /\ r.items = s.items
<1> DEFINE new == NewPage(s, EmptyUndoPage)
           r == [new EXCEPT !.undo = s.next]
<1>1. /\ StoreOK(new) /\ new.pages = [s.pages EXCEPT ![s.next] = EmptyUndoPage]
      /\ new.next = s.next + 1 /\ new.undo = s.undo /\ new.items = s.items
  BY NewPageStore
<1>2. s.next \in Nat
  BY DEF StoreOK
<1> HIDE DEF new
<1>3. /\ IsStore(r) /\ r.pages = new.pages /\ r.next = new.next /\ r.undo = s.next
      /\ r.items = new.items /\ r.meta = new.meta
  BY <1>1 DEF StoreOK, IsStore
<1> HIDE DEF r
<1>4. StoreOK(r)
  BY <1>1, <1>2, <1>3 DEF StoreOK
<1>5. FreshUndo(s) = r
  BY DEF FreshUndo, r, new
<1> QED
  BY <1>1, <1>3, <1>4, <1>5

(* AppendUndoRecord's choice of the page. *)
LEMMA UndoPageCases ==
    ASSUME NEW s, NEW size
    PROVE  LET current == IF s.undo = INVALID_PAGE_ID THEN FreshUndo(s) ELSE s
           IN  UndoPage(s, size) = IF UndoFits(current, size) THEN current ELSE FreshUndo(current)
BY DEF UndoPage, FreshUndo, UndoFits

-----------------------------------------------------------------------------
(* Extents on a page. *)

(* One more extent, behind the last one. *)
LEMMA PackedAppend ==
    ASSUME NEW T, T \subseteq [offset : Nat, size : Nat \ {0}] \union TableRecs, NEW recs \in Seq(T),
           NEW k \in Nat, NEW begin \in Nat, NEW end \in Nat, Packed(recs, k, begin, end),
           NEW rec \in T, rec.offset = end
    PROVE  Packed(Append(recs, rec), k, begin, end + k + rec.size)
<1> DEFINE n == Len(recs)
           q == Append(recs, rec)
<1>1. \A x \in T : x.offset \in Nat /\ x.size \in Nat
  BY DEF TableRecs
<1>2. /\ n \in Nat /\ Len(q) = n + 1 /\ q[n + 1] = rec /\ \A i \in 1 .. n : q[i] = recs[i]
      /\ \A i \in 1 .. n : recs[i] \in T
      /\ q # <<>> /\ (recs = <<>> <=> n = 0)
  BY EmptySeq
<1>3. \A i \in 1 .. n : recs[i].offset \in Nat /\ recs[i].size \in Nat
  BY <1>1, <1>2
<1>4. rec.offset \in Nat /\ rec.size \in Nat
  BY <1>1
<1>5. /\ \A i \in 1 .. n :
            /\ recs[i].offset =
                  IF i = 1 THEN begin ELSE recs[i - 1].offset + k + recs[i - 1].size
            /\ begin <= recs[i].offset /\ recs[i].offset + k + recs[i].size <= end
      /\ \A i, j \in 1 .. n : i < j => recs[i].offset + k + recs[i].size <= recs[j].offset
      /\ end = IF n = 0 THEN begin ELSE recs[n].offset + k + recs[n].size
  BY <1>2 DEF Packed
<1>6. begin <= end
  BY <1>2, <1>3, <1>5
<1> HIDE DEF n, q
<1>7. ASSUME NEW i \in 1 .. n + 1
      PROVE  /\ q[i].offset = IF i = 1 THEN begin ELSE q[i - 1].offset + k + q[i - 1].size
             /\ begin <= q[i].offset /\ q[i].offset + k + q[i].size <= end + k + rec.size
  <2>1. CASE i \in 1 .. n
    <3>1. q[i] = recs[i] /\ (i # 1 => q[i - 1] = recs[i - 1])
      BY <1>2, <2>1
    <3>2. /\ recs[i].offset \in Nat /\ recs[i].size \in Nat
          /\ recs[i].offset = IF i = 1 THEN begin ELSE recs[i - 1].offset + k + recs[i - 1].size
          /\ begin <= recs[i].offset /\ recs[i].offset + k + recs[i].size <= end
      BY <1>3, <1>5, <2>1
    <3>3. q[i].offset = IF i = 1 THEN begin ELSE q[i - 1].offset + k + q[i - 1].size
      BY ONLY <3>1, <3>2
    <3>4. begin <= q[i].offset /\ q[i].offset + k + q[i].size <= end + k + rec.size
      <4> DEFINE a == recs[i].offset
                 b == recs[i].size
                 c == rec.size
      <4>1. q[i].offset = a /\ q[i].size = b
        BY ONLY <3>1
      <4>2. /\ a \in Nat /\ b \in Nat /\ c \in Nat /\ begin <= a /\ a + k + b <= end
            /\ k \in Nat /\ end \in Nat /\ begin \in Nat
        BY <1>4, <3>2
      <4> HIDE DEF a, b, c
      <4>3. begin <= a /\ a + k + b <= end + k + c
        BY ONLY <4>2
      <4> QED
        BY ONLY <4>1, <4>3 DEF c
    <3> QED
      BY ONLY <3>3, <3>4
  <2>2. CASE i = n + 1
    <3>1. q[i] = rec /\ (i # 1 => q[i - 1] = recs[i - 1] /\ i - 1 = n /\ n # 0)
      BY <1>2, <2>2
    <3>2. q[i].offset = end /\ q[i].size = rec.size
      BY ONLY <3>1, rec.offset = end
    <3>3. CASE i = 1
      <4>1. n = 0
        BY ONLY <1>2, <2>2, <3>3
      <4>2. end = begin
        BY ONLY <1>5, <4>1
      <4> QED
        BY ONLY <1>4, <1>6, <3>2, <3>3, <4>2, begin \in Nat, end \in Nat, k \in Nat
    <3>4. CASE i # 1
      <4>1. q[i - 1] = recs[n] /\ n # 0
        BY ONLY <3>1, <3>4
      <4>2. end = q[i - 1].offset + k + q[i - 1].size
        BY ONLY <1>5, <4>1
      <4> QED
        BY ONLY <1>4, <1>6, <3>2, <3>4, <4>2, begin \in Nat, end \in Nat, k \in Nat
    <3> QED
      BY ONLY <3>3, <3>4
  <2> QED
    BY <1>2, <2>1, <2>2
<1>8. ASSUME NEW i \in 1 .. n + 1, NEW j \in 1 .. n + 1, i < j
      PROVE  q[i].offset + k + q[i].size <= q[j].offset
  <2>1. i \in 1 .. n /\ q[i] = recs[i]
    BY <1>2, <1>8
  <2>2. (j \in 1 .. n /\ q[j] = recs[j]) \/ q[j] = rec
    BY <1>2
  <2> QED
    BY <1>5, <1>8, <2>1, <2>2
<1>9. end + k + rec.size = q[n + 1].offset + k + q[n + 1].size
  BY <1>2
<1> QED
  BY <1>2, <1>7, <1>8, <1>9 DEF Packed, q

(* Only offsets and sizes count. *)
LEMMA PackedSame ==
    ASSUME NEW recs, NEW recs2, NEW k, NEW begin, NEW end, Packed(recs, k, begin, end),
           Len(recs) \in Nat, Len(recs2) = Len(recs), recs2 = <<>> <=> recs = <<>>,
           recs # <<>> => Len(recs) \in 1 .. Len(recs),
           \A i \in 1 .. Len(recs) : recs2[i].offset = recs[i].offset /\ recs2[i].size = recs[i].size
    PROVE  Packed(recs2, k, begin, end)
<1>1. \A i \in 1 .. Len(recs) : i # 1 => i - 1 \in 1 .. Len(recs)
  OBVIOUS
<1> DEFINE n == Len(recs)
<1>2. /\ \A i \in 1 .. n :
            /\ recs[i].offset = IF i = 1 THEN begin ELSE recs[i - 1].offset + k + recs[i - 1].size
            /\ begin <= recs[i].offset /\ recs[i].offset + k + recs[i].size <= end
      /\ \A i, j \in 1 .. n : i < j => recs[i].offset + k + recs[i].size <= recs[j].offset
      /\ end = IF recs = <<>> THEN begin ELSE recs[n].offset + k + recs[n].size
  BY DEF Packed
<1>3. /\ \A i \in 1 .. n : i # 1 => i - 1 \in 1 .. n
      /\ \A i \in 1 .. n : recs2[i].offset = recs[i].offset /\ recs2[i].size = recs[i].size
      /\ Len(recs2) = n /\ (recs2 = <<>> <=> recs = <<>>) /\ (recs # <<>> => n \in 1 .. n)
  BY <1>1
<1> HIDE DEF n
<1>4. ASSUME NEW i \in 1 .. n
      PROVE  /\ recs2[i].offset = IF i = 1 THEN begin ELSE recs2[i - 1].offset + k + recs2[i - 1].size
             /\ begin <= recs2[i].offset /\ recs2[i].offset + k + recs2[i].size <= end
  BY ONLY <1>2, <1>3, <1>4
<1>5. \A i, j \in 1 .. n : i < j => recs2[i].offset + k + recs2[i].size <= recs2[j].offset
  BY ONLY <1>2, <1>3
<1>6. end = IF recs2 = <<>> THEN begin ELSE recs2[n].offset + k + recs2[n].size
  BY ONLY <1>2, <1>3
<1> QED
  BY ONLY <1>3, <1>4, <1>5, <1>6 DEF Packed

UsedOf(f, recs) ==
    f = [i \in 0 .. Len(recs) |-> IF i = 0 THEN 0 ELSE f[i - 1] + SlotSize + recs[i].size]

(* What the constructor adds up is the slots and the extents. *)
LEMMA UsedIsPacked ==
    ASSUME NEW recs \in Seq(TableRecs), NEW end \in Nat, Packed(recs, 0, HeaderSize, end)
    PROVE  UsedSize(recs) = end - HeaderSize + SlotSize * Len(recs)
<1> DEFINE n == Len(recs)
           stop == [i \in 0 .. n |-> IF i = 0 THEN HeaderSize ELSE recs[i].offset + recs[i].size]
           g == [i \in 0 .. n |-> stop[i] - HeaderSize + SlotSize * i]
           used[i \in 0 .. Len(recs)] == IF i = 0 THEN 0 ELSE used[i - 1] + SlotSize + recs[i].size
<1> HIDE DEF used
<1>1. n \in Nat /\ SlotSize \in Nat /\ HeaderSize \in Nat /\ (recs = <<>> <=> n = 0)
  BY EmptySeq, PageSizeAssumption
<1>2. \A i \in 1 .. n : recs[i].offset \in Nat /\ recs[i].size \in Nat
  <2>1. \A i \in 1 .. n : recs[i] \in TableRecs
    OBVIOUS
  <2> QED
    BY <2>1 DEF TableRecs
<1>3. /\ \A i \in 1 .. n : stop[i] = stop[i - 1] + recs[i].size /\ stop[i - 1] \in Nat
      /\ stop[0] = HeaderSize /\ stop[n] = end /\ \A i \in 0 .. n : stop[i] \in Nat
  <2>1. /\ \A i \in 1 .. n : recs[i].offset = IF i = 1 THEN HeaderSize
                                              ELSE recs[i - 1].offset + 0 + recs[i - 1].size
        /\ end = IF n = 0 THEN HeaderSize ELSE recs[n].offset + 0 + recs[n].size
    BY <1>1 DEF Packed
  <2> HIDE DEF n
  <2>2. \A i \in 1 .. n : stop[i - 1] = recs[i].offset
    <3> SUFFICES ASSUME NEW i \in 1 .. n PROVE stop[i - 1] = recs[i].offset
      OBVIOUS
    <3>1. CASE i = 1
      BY ONLY <1>1, <2>1, <3>1
    <3>2. CASE i # 1
      <4>1. i - 1 \in 1 .. n /\ i - 1 # 0 /\ i - 1 \in 0 .. n
        BY ONLY <1>1, <3>2, i \in 1 .. n
      <4>2. stop[i - 1] = recs[i - 1].offset + recs[i - 1].size
        BY ONLY <4>1
      <4>3. recs[i].offset = recs[i - 1].offset + 0 + recs[i - 1].size
        BY ONLY <2>1, <3>2, i \in 1 .. n
      <4>4. recs[i - 1].offset \in Nat
        BY ONLY <1>2, <4>1
      <4> QED
        BY ONLY <4>2, <4>3, <4>4
    <3> QED
      BY ONLY <3>1, <3>2
  <2>3. \A i \in 1 .. n : stop[i] = recs[i].offset + recs[i].size /\ stop[i] \in Nat
    BY <1>1, <1>2
  <2>4. stop[0] = HeaderSize /\ stop[0] \in Nat
    BY <1>1
  <2>5. stop[n] = end
    BY <1>1, <1>2, <2>1
  <2> HIDE DEF stop
  <2>6. \A i \in 1 .. n : stop[i - 1] \in Nat
    BY <1>2, <2>2
  <2>7. \A i \in 1 .. n : stop[i] = stop[i - 1] + recs[i].size
    BY ONLY <2>2, <2>3
  <2>8. ASSUME NEW i \in 0 .. n PROVE stop[i] \in Nat
    <3>1. i = 0 \/ i \in 1 .. n
      BY ONLY <1>1, <2>8
    <3> QED
      BY ONLY <2>3, <2>4, <3>1
  <2> QED
    BY ONLY <2>4, <2>5, <2>6, <2>7, <2>8
<1> HIDE DEF n, stop
<1>4. \A i \in 0 .. n : g[i] = IF i = 0 THEN 0 ELSE g[i - 1] + SlotSize + recs[i].size
  <2>1. ASSUME NEW i \in 1 .. n PROVE g[i] = g[i - 1] + SlotSize + recs[i].size
    <3> DEFINE a == stop[i - 1]
               b == recs[i].size
               x == SlotSize * (i - 1)
    <3>1. g[i] = stop[i] - HeaderSize + SlotSize * i /\ g[i - 1] = a - HeaderSize + x
      BY <1>1
    <3>2. stop[i] = a + b /\ a \in Nat /\ b \in Nat
      BY <1>2, <1>3
    <3>3. SlotSize * i = x + SlotSize /\ x \in Nat
      <4>1. i \in Nat /\ i - 1 \in Nat /\ i = (i - 1) + 1
        BY <1>1
      <4> QED
        BY ONLY <1>1, <4>1
    <3> HIDE DEF a, b, x, g
    <3>4. g[i] = g[i - 1] + SlotSize + b
      BY ONLY <1>1, <3>1, <3>2, <3>3
    <3> QED
      BY ONLY <3>4 DEF b
  <2>2. g[0] = 0
    <3>1. g[0] = HeaderSize - HeaderSize + SlotSize * 0
      BY <1>1, <1>3
    <3> QED
      BY ONLY <1>1, <3>1
  <2> HIDE DEF g
  <2> QED
    BY <1>1, <2>1, <2>2
<1>5. UsedOf(g, recs)
  BY <1>4 DEF UsedOf, n
<1>6. UsedOf(used, recs)
  <2>1. used = CHOOSE f : f = [i \in 0 .. Len(recs) |-> IF i = 0 THEN 0 ELSE f[i - 1] + SlotSize + recs[i].size]
    BY DEF used
  <2> QED
    BY <1>5, <2>1 DEF UsedOf
<1>7. g[n] = end - HeaderSize + SlotSize * n
  BY <1>1, <1>3
<1> HIDE DEF g
<1>8. \A i \in 0 .. n : used[i] = g[i]
  <2>1. \A i \in 0 .. n : /\ used[i] = IF i = 0 THEN 0 ELSE used[i - 1] + SlotSize + recs[i].size
                          /\ g[i] = IF i = 0 THEN 0 ELSE g[i - 1] + SlotSize + recs[i].size
    BY <1>5, <1>6 DEF UsedOf, n
  <2>2. Agreeing(used, g, 0, n)
    BY <1>1, <2>1 DEF Agreeing
  <2> QED
    BY <1>1, <2>2, SameFunctions
<1>9. UsedSize(recs) = used[n]
  BY DEF UsedSize, used, n
<1>10. used[n] = g[n]
  BY <1>1, <1>8
<1> QED
  BY <1>7, <1>9, <1>10 DEF n

(* New pages. *)
LEMMA EmptyPages ==
    /\ EmptyTablePage \in TablePages /\ TableOK(EmptyTablePage)
    /\ EmptyUndoPage \in UndoPages /\ UndoOK(EmptyUndoPage)
    /\ UsedSize(<<>>) = 0
<1>1. HeaderSize \in Nat /\ UndoHeaderSize \in Nat /\ SlotSize \in Nat /\ PageSize \in Nat
      /\ HeaderSize <= PageSize /\ UndoHeaderSize <= PageSize
  BY PageSizeAssumption
<1>2. <<>> \in Seq(TableRecs) /\ <<>> \in Seq(ImageRecs) /\ Len(<<>>) = 0
  OBVIOUS
<1>3. Packed(<<>>, 0, HeaderSize, HeaderSize) /\ Packed(<<>>, UndoRecordSize, UndoHeaderSize, UndoHeaderSize)
  BY <1>1, <1>2 DEF Packed
<1>4. HeaderSize + SlotSize * 0 <= PageSize
  BY <1>1
<1>5. UsedSize(<<>>) = HeaderSize - HeaderSize + SlotSize * 0
  BY <1>1, <1>2, <1>3, UsedIsPacked
<1>6. UsedSize(<<>>) = 0
  BY ONLY <1>1, <1>5
<1>7. EmptyTablePage \in TablePages /\ EmptyUndoPage \in UndoPages
  BY <1>1, <1>2 DEF EmptyTablePage, EmptyUndoPage, TablePages, UndoPages, INVALID_PAGE_ID
<1>8. TableOK(EmptyTablePage)
  <2>1. EmptyTablePage.recs = <<>>
    BY DEF EmptyTablePage
  <2> QED
    BY <1>1, <1>2, <1>3, <1>4, <2>1 DEF TableOK
<1>9. UndoOK(EmptyUndoPage)
  <2>1. EmptyUndoPage.recs = <<>> /\ EmptyUndoPage.free_offset = UndoHeaderSize
    BY DEF EmptyUndoPage
  <2> QED
    BY <1>1, <1>3, <2>1 DEF UndoOK
<1> QED
  BY <1>6, <1>7, <1>8, <1>9

NewRec(offset, size, roll) == [offset |-> offset, size |-> size, del |-> FALSE, roll |-> roll]

(* InsertTuple puts the record behind the others, and it fits. *)
LEMMA InsertTupleOK ==
    ASSUME NEW pg \in TablePages, TableOK(pg), NEW size \in Nat \ {0}, NEW roll \in Pointers,
           CanInsert(pg, size)
    PROVE  LET q == InsertTuple(pg, size, roll)
           IN  /\ q \in TablePages /\ TableOK(q) /\ q.next = pg.next
               /\ \E o \in Nat : q.recs = Append(pg.recs, NewRec(o, size, roll))
<1> DEFINE n == Len(pg.recs)
           q == InsertTuple(pg, size, roll)
<1>1. pg.recs \in Seq(TableRecs) /\ n \in Nat /\ (pg.recs = <<>> <=> n = 0)
  BY EmptySeq DEF TablePages
<1>2. PICK end \in Nat : Packed(pg.recs, 0, HeaderSize, end) /\ end + SlotSize * n <= PageSize
  BY DEF TableOK
<1>3. UsedSize(pg.recs) = end - HeaderSize + SlotSize * n
  BY <1>1, <1>2, UsedIsPacked
<1>4. PageSize \in Nat /\ HeaderSize \in Nat /\ SlotSize \in Nat
  BY PageSizeAssumption
<1>5. size + SlotSize <= PageSize - HeaderSize - (end - HeaderSize + SlotSize * n)
  BY <1>3 DEF CanInsert, FreeSize
<1>6. (IF n = 0 THEN HeaderSize ELSE pg.recs[n].offset + pg.recs[n].size) = end
  <2>1. end = IF n = 0 THEN HeaderSize ELSE pg.recs[n].offset + 0 + pg.recs[n].size
    BY <1>1, <1>2 DEF Packed
  <2>2. n # 0 => pg.recs[n].offset \in Nat /\ pg.recs[n].size \in Nat
    <3>1. n # 0 => pg.recs[n] \in TableRecs
      BY <1>1
    <3> QED
      BY <3>1 DEF TableRecs
  <2> QED
    BY <2>1, <2>2
<1> DEFINE rec == NewRec(end, size, roll)
<1>7. rec \in TableRecs /\ rec.offset = end /\ rec.size = size
  BY <1>2 DEF NewRec, TableRecs
<1>8. q = [pg EXCEPT !.recs = Append(@, rec)]
  BY <1>6 DEF InsertTuple, NewRec
<1> HIDE DEF rec, q
<1>9. q.recs = Append(pg.recs, rec) /\ q.next = pg.next /\ q \in TablePages
  <2>1. Append(pg.recs, rec) \in Seq(TableRecs)
    BY <1>1, <1>7
  <2> QED
    BY <1>8, <2>1 DEF TablePages
<1>10. Len(q.recs) = n + 1
  BY <1>1, <1>7, <1>9
<1>11. Packed(q.recs, 0, HeaderSize, end + 0 + size)
  <2>1. Packed(Append(pg.recs, rec), 0, HeaderSize, end + 0 + rec.size)
    BY <1>1, <1>2, <1>4, <1>7, PackedAppend
  <2> QED
    BY <1>7, <1>9, <2>1
<1>12. end + 0 + size + SlotSize * (n + 1) <= PageSize /\ end + 0 + size \in Nat
  <2> DEFINE x == SlotSize * n
  <2>1. x \in Nat /\ SlotSize * (n + 1) = x + SlotSize
    BY <1>1, <1>4
  <2>2. size + SlotSize <= PageSize - HeaderSize - (end - HeaderSize + x)
    BY <1>5
  <2> HIDE DEF x, n
  <2>3. end + 0 + size + (x + SlotSize) <= PageSize
    BY <1>4, <2>1, <2>2
  <2> QED
    BY <2>1, <2>3
<1>13. TableOK(q)
  BY <1>10, <1>11, <1>12 DEF TableOK
<1>14. InsertTuple(pg, size, roll) = q
  BY DEF q
<1> QED
  BY <1>9, <1>13, <1>14 DEF rec

(* The append to an undo page. *)
LEMMA AppendRecordOK ==
    ASSUME NEW pg \in UndoPages, UndoOK(pg), NEW size \in Nat \ {0}, UndoHasSpaceFor(pg, size)
    PROVE  LET q == AppendRecord(pg, size)
           IN  /\ q \in UndoPages /\ UndoOK(q)
               /\ q.recs = Append(pg.recs, [offset |-> pg.free_offset, size |-> size])
<1> DEFINE q == AppendRecord(pg, size)
           rec == [offset |-> pg.free_offset, size |-> size]
<1>1. pg.recs \in Seq(ImageRecs) /\ pg.free_offset \in Nat
  BY DEF UndoPages
<1>2. PageSize \in Nat /\ UndoRecordSize \in Nat /\ UndoHeaderSize \in Nat
  BY PageSizeAssumption
<1>3. rec \in ImageRecs /\ rec.offset = pg.free_offset /\ rec.size = size
  BY <1>1 DEF ImageRecs
<1>4. q = [pg EXCEPT !.free_offset = @ + UndoRecordSize + size, !.recs = Append(@, rec)]
  BY DEF AppendRecord
<1> HIDE DEF rec, q
<1>5. /\ q.recs = Append(pg.recs, rec) /\ q.free_offset = pg.free_offset + UndoRecordSize + size
      /\ q \in UndoPages
  <2>1. Append(pg.recs, rec) \in Seq(ImageRecs) /\ pg.free_offset + UndoRecordSize + size \in Nat
    BY <1>1, <1>2, <1>3
  <2> QED
    BY <1>4, <2>1 DEF UndoPages
<1>6. Packed(q.recs, UndoRecordSize, UndoHeaderSize, pg.free_offset + UndoRecordSize + rec.size)
  <2>1. ImageRecs \subseteq [offset : Nat, size : Nat \ {0}] \union TableRecs
    BY DEF ImageRecs
  <2>2. Packed(pg.recs, UndoRecordSize, UndoHeaderSize, pg.free_offset)
    BY DEF UndoOK
  <2> QED
    <3>1. Packed(Append(pg.recs, rec), UndoRecordSize, UndoHeaderSize,
                 pg.free_offset + UndoRecordSize + rec.size)
      BY ONLY <1>1, <1>2, <1>3, <2>1, <2>2, PackedAppend
    <3> QED
      BY ONLY <1>5, <3>1
<1>7. UndoOK(q)
  BY <1>3, <1>5, <1>6 DEF UndoOK, UndoHasSpaceFor
<1> QED
  BY <1>5, <1>7 DEF q, rec

MarkedPage(pg, row, roll) == [pg EXCEPT !.recs[row] = Marked(@, roll)]

(* The mark moves no record. *)
LEMMA MarkedPageOK ==
    ASSUME NEW pg \in TablePages, TableOK(pg), NEW row \in 1 .. Len(pg.recs), NEW roll \in Pointers
    PROVE  LET q == MarkedPage(pg, row, roll)
           IN  /\ q \in TablePages /\ TableOK(q) /\ q.next = pg.next
               /\ Len(q.recs) = Len(pg.recs)
               /\ \A i \in 1 .. Len(pg.recs) : i # row => q.recs[i] = pg.recs[i]
               /\ q.recs[row].del /\ q.recs[row].roll = roll
               /\ q.recs[row].size = pg.recs[row].size
<1> DEFINE q == MarkedPage(pg, row, roll)
           n == Len(pg.recs)
<1>1. pg.recs \in Seq(TableRecs) /\ n \in Nat /\ (pg.recs = <<>> <=> n = 0)
      /\ pg.recs[row] \in TableRecs
  BY EmptySeq DEF TablePages
<1>2. /\ Marked(pg.recs[row], roll) \in TableRecs
      /\ Marked(pg.recs[row], roll).del /\ Marked(pg.recs[row], roll).roll = roll
      /\ Marked(pg.recs[row], roll).size = pg.recs[row].size
      /\ Marked(pg.recs[row], roll).offset = pg.recs[row].offset
  BY <1>1 DEF Marked, TableRecs
<1> DEFINE m == Marked(pg.recs[row], roll)
           recs2 == [pg.recs EXCEPT ![row] = m]
<1>3. q = [pg EXCEPT !.recs = recs2]
  BY DEF MarkedPage
<1> HIDE DEF m, q
<1>4. recs2 \in Seq(TableRecs) /\ Len(recs2) = n /\ recs2[row] = m
      /\ \A i \in 1 .. n : i # row => recs2[i] = pg.recs[i]
  BY <1>1, <1>2 DEF m
<1> HIDE DEF recs2
<1>5. q \in TablePages /\ q.next = pg.next /\ q.recs = recs2
  BY <1>3, <1>4 DEF TablePages
<1>6. PICK end \in Nat : Packed(pg.recs, 0, HeaderSize, end) /\ end + SlotSize * n <= PageSize
  BY DEF TableOK
<1>7. Packed(recs2, 0, HeaderSize, end)
  <2>1. recs2 = <<>> <=> pg.recs = <<>>
    BY <1>1, <1>4, EmptySeq
  <2>2. \A i \in 1 .. n : recs2[i].offset = pg.recs[i].offset /\ recs2[i].size = pg.recs[i].size
    BY <1>2, <1>4 DEF m
  <2>3. pg.recs # <<>> => n \in 1 .. n
    BY <1>1
  <2> QED
    BY <1>1, <1>4, <1>6, <2>1, <2>2, <2>3, PackedSame
<1>8. TableOK(q)
  BY <1>4, <1>5, <1>6, <1>7 DEF TableOK
<1> QED
  BY <1>2, <1>4, <1>5, <1>8 DEF q, m

-----------------------------------------------------------------------------
(* The scan follows the links. *)

Min2(a, b) == IF a <= b THEN a ELSE b
Pre(c, m) == [i \in 1 .. Min2(m, Len(c)) |-> c[i]]

PrefixFacts(c, m) ==
    /\ m >= Len(c) => Pre(c, m) = c
    /\ m < Len(c) => Pre(c, m + 1) = Append(Pre(c, m), c[m + 1])
    /\ m > 0 /\ c # <<>> => Pre(c, m) # <<>> /\ Last(Pre(c, m)) = c[Min2(m, Len(c))]

(* The beginnings of a sequence. *)
LEMMA BeginningsOf ==
    ASSUME NEW S, NEW c \in Seq(S), NEW m \in Nat
    PROVE  PrefixFacts(c, m)
<1> DEFINE l == Min2(m, Len(c))
<1>1. /\ Len(c) \in Nat /\ l \in Nat /\ l <= Len(c) /\ (c = <<>> <=> Len(c) = 0)
      /\ c = [i \in 1 .. Len(c) |-> c[i]] /\ \A i \in 1 .. Len(c) : c[i] \in S
  BY EmptySeq, LenProperties DEF Min2
<1>2. Pre(c, m) \in Seq(S) /\ Len(Pre(c, m)) = l /\ \A i \in 1 .. l : Pre(c, m)[i] = c[i]
  <2>1. Pre(c, m) \in [1 .. l -> S]
    BY <1>1 DEF Pre
  <2> QED
    BY <1>1, <2>1 DEF Pre
<1>3. m >= Len(c) => Pre(c, m) = c
  BY <1>1 DEF Pre, Min2
<1>4. ASSUME m < Len(c) PROVE Pre(c, m + 1) = Append(Pre(c, m), c[m + 1])
  <2>1. l = m /\ Min2(m + 1, Len(c)) = m + 1
    BY <1>1, <1>4 DEF Min2
  <2>2. Append(Pre(c, m), c[m + 1]) = [i \in 1 .. m + 1 |-> IF i <= m THEN Pre(c, m)[i] ELSE c[m + 1]]
    BY <1>1, <1>2, <1>4, <2>1
  <2>3. Pre(c, m + 1) = [i \in 1 .. m + 1 |-> c[i]]
    BY <2>1 DEF Pre
  <2>4. \A i \in 1 .. m + 1 : c[i] = IF i <= m THEN Pre(c, m)[i] ELSE c[m + 1]
    BY <1>2, <2>1
  <2> QED
    BY <2>2, <2>3, <2>4
<1>5. ASSUME m > 0, c # <<>> PROVE Pre(c, m) # <<>> /\ Last(Pre(c, m)) = c[l]
  <2>1. l \in 1 .. l
    BY <1>1, <1>5 DEF Min2
  <2> QED
    BY <1>2, <2>1, EmptySeq DEF Last
<1> QED
  BY ONLY <1>3, <1>4, <1>5 DEF PrefixFacts, l

WalkStep(c) == IF c = <<>> \/ pages[Last(c)].next = INVALID_PAGE_ID THEN c
               ELSE Append(c, pages[Last(c)].next)

WalkOf(f, t) ==
    f = [n \in 0 .. MaxPages |->
           IF n = 0
           THEN IF items[t].first = INVALID_PAGE_ID THEN <<>> ELSE <<items[t].first>>
           ELSE WalkStep(f[n - 1])]

(* A table has no more pages than there are. *)
LEMMA ChainBound ==
    ASSUME NEW c \in Seq(PageIds), \A i, j \in 1 .. Len(c) : c[i] = c[j] => i = j
    PROVE  Len(c) <= MaxPages
<1>1. Len(c) \in Nat /\ MaxPages \in Nat /\ c \in [1 .. Len(c) -> PageIds]
  BY MaxPagesAssumption
<1>2. /\ IsFiniteSet(1 .. Len(c)) /\ Cardinality(1 .. Len(c)) = Len(c)
      /\ IsFiniteSet(PageIds) /\ Cardinality(PageIds) = MaxPages
  <2>1. 1 \in Int /\ Len(c) \in Int /\ MaxPages \in Int
    BY <1>1
  <2>2. IsFiniteSet(1 .. Len(c)) /\ Cardinality(1 .. Len(c)) = IF 1 > Len(c) THEN 0 ELSE Len(c) - 1 + 1
    BY ONLY <2>1, FS_Interval
  <2>3. IsFiniteSet(1 .. MaxPages) /\ Cardinality(1 .. MaxPages) = IF 1 > MaxPages THEN 0 ELSE MaxPages - 1 + 1
    BY ONLY <2>1, FS_Interval
  <2> DEFINE k == Len(c)
             x == Cardinality(1 .. Len(c))
             y == Cardinality(1 .. MaxPages)
  <2>4. k \in Nat /\ x = IF 1 > k THEN 0 ELSE k - 1 + 1
    BY <1>1, <2>2
  <2>5. y = IF 1 > MaxPages THEN 0 ELSE MaxPages - 1 + 1
    BY <2>3
  <2> HIDE DEF k, x, y
  <2>6. x = k /\ y = MaxPages
    BY ONLY <1>1, <2>4, <2>5
  <2> QED
    BY <2>2, <2>3, <2>6 DEF k, x, y, PageIds
<1>3. ASSUME Len(c) > MaxPages PROVE FALSE
  <2>1. \E x, y \in 1 .. Len(c) : x # y /\ c[x] = c[y]
    BY <1>1, <1>2, <1>3, FS_PigeonHole
  <2> QED
    BY <2>1
<1> QED
  BY <1>1, <1>3

(* TableIterator visits the pages of the chain, in its order. *)
LEMMA ChainIsLinks ==
    ASSUME NEW t, NEW c, Links(c, items[t], pages)
    PROVE  Chain(t) = c
<1> DEFINE w == [n \in 0 .. MaxPages |-> Pre(c, n + 1)]
           walk[n \in 0 .. MaxPages] ==
              IF n = 0
              THEN IF items[t].first = INVALID_PAGE_ID THEN <<>> ELSE <<items[t].first>>
              ELSE LET p == walk[n - 1]
                   IN  IF p = <<>> \/ pages[Last(p)].next = INVALID_PAGE_ID THEN p
                       ELSE Append(p, pages[Last(p)].next)
<1> HIDE DEF walk
<1>1. /\ MaxPages \in Nat /\ c \in Seq(PageIds) /\ Len(c) \in Nat /\ (c = <<>> <=> Len(c) = 0)
      /\ Len(c) <= MaxPages
      /\ \A i \in 1 .. Len(c) : c[i] # INVALID_PAGE_ID
  <2>1. MaxPages \in Nat /\ c \in Seq(PageIds) /\ Len(c) \in Nat /\ (c = <<>> <=> Len(c) = 0)
    BY MaxPagesAssumption, EmptySeq DEF Links
  <2>2. Len(c) <= MaxPages
    BY <2>1, ChainBound DEF Links
  <2>3. \A i \in 1 .. Len(c) : c[i] # INVALID_PAGE_ID
    <3>1. \A i \in 1 .. Len(c) : c[i] \in PageIds
      BY <2>1
    <3> QED
      BY <2>1, <3>1 DEF INVALID_PAGE_ID, PageIds
  <2> QED
    BY <2>1, <2>2, <2>3
<1>11. \A m \in Nat : PrefixFacts(c, m)
  BY <1>1, BeginningsOf
<1>2. w[0] = IF items[t].first = INVALID_PAGE_ID THEN <<>> ELSE <<items[t].first>>
  <2>1. w[0] = Pre(c, 1)
    BY <1>1
  <2>2. CASE c = <<>>
    <3>1. Pre(c, 1) = c
      BY <1>1, <1>11, <2>2 DEF PrefixFacts
    <3> QED
      BY <2>1, <2>2, <3>1 DEF Links
  <2>3. CASE c # <<>>
    <3>1. items[t].first = c[1] /\ c[1] # INVALID_PAGE_ID
      BY <1>1, <2>3 DEF Links
    <3>2. Pre(c, 1) = [i \in 1 .. 1 |-> c[i]]
      BY <1>1, <2>3 DEF Pre, Min2
    <3>3. Pre(c, 1) = <<c[1]>>
      BY <3>2
    <3> QED
      BY <2>1, <3>1, <3>3
  <2> QED
    BY <2>2, <2>3
<1>3. ASSUME NEW n \in 1 .. MaxPages PROVE w[n] = WalkStep(w[n - 1])
  <2>1. w[n] = Pre(c, n + 1) /\ w[n - 1] = Pre(c, n) /\ n \in Nat
    BY <1>1
  <2>2. CASE c = <<>>
    <3>1. Pre(c, n + 1) = <<>> /\ Pre(c, n) = <<>>
      BY <1>1, <2>1, <1>11, <2>2 DEF PrefixFacts
    <3> QED
      BY <2>1, <3>1 DEF WalkStep
  <2>3. CASE c # <<>> /\ n >= Len(c)
    <3>1. Pre(c, n + 1) = c /\ Pre(c, n) = c
      BY <1>1, <2>1, <1>11, <2>3 DEF PrefixFacts
    <3>2. pages[Last(c)].next = INVALID_PAGE_ID
      BY <1>1, <2>3 DEF Links, Last
    <3> QED
      BY <2>1, <3>1, <3>2 DEF WalkStep
  <2>4. CASE c # <<>> /\ n < Len(c)
    <3>1. /\ Pre(c, n) # <<>> /\ Last(Pre(c, n)) = c[Min2(n, Len(c))]
          /\ Pre(c, n + 1) = Append(Pre(c, n), c[n + 1])
      BY <1>1, <2>1, <1>11, <2>4 DEF PrefixFacts
    <3>2. Min2(n, Len(c)) = n /\ n \in 1 .. Len(c) /\ n # Len(c) /\ n + 1 \in 1 .. Len(c)
      BY <1>1, <2>4 DEF Min2
    <3>3. pages[c[n]].next = c[n + 1] /\ c[n + 1] # INVALID_PAGE_ID
      BY <1>1, <3>2 DEF Links
    <3> QED
      BY <2>1, <3>1, <3>2, <3>3 DEF WalkStep
  <2> QED
    BY <1>1, <2>2, <2>3, <2>4
<1>4. WalkOf(w, t)
  <2>1. \A n \in 0 .. MaxPages : n # 0 => n \in 1 .. MaxPages
    BY <1>1
  <2> QED
    BY <1>2, <1>3, <2>1 DEF WalkOf
<1>5. w[MaxPages] = c
  <2>1. w[MaxPages] = Pre(c, MaxPages + 1) /\ MaxPages + 1 \in Nat /\ MaxPages + 1 >= Len(c)
    BY <1>1
  <2> QED
    BY <1>11, <2>1 DEF PrefixFacts
<1> HIDE DEF w
<1>6. WalkOf(walk, t)
  <2>1. walk = CHOOSE f : f = [n \in 0 .. MaxPages |->
              IF n = 0
              THEN IF items[t].first = INVALID_PAGE_ID THEN <<>> ELSE <<items[t].first>>
              ELSE LET p == f[n - 1]
                   IN  IF p = <<>> \/ pages[Last(p)].next = INVALID_PAGE_ID THEN p
                       ELSE Append(p, pages[Last(p)].next)]
    BY DEF walk
  <2> QED
    BY <1>4, <2>1 DEF WalkOf, WalkStep
<1>7. \A n \in 0 .. MaxPages : walk[n] = w[n]
  <2>1. walk[0] = w[0]
    BY <1>1, <1>4, <1>6 DEF WalkOf
  <2>4. ASSUME NEW f, WalkOf(f, t), NEW n \in 1 .. MaxPages PROVE f[n] = WalkStep(f[n - 1])
    <3>1. n \in 0 .. MaxPages /\ n # 0
      BY <1>1
    <3> QED
      BY ONLY <2>4, <3>1 DEF WalkOf
  <2>2. \A n \in 1 .. MaxPages : walk[n] = WalkStep(walk[n - 1]) /\ w[n] = WalkStep(w[n - 1])
    BY ONLY <1>4, <1>6, <2>4
  <2>3. Agreeing(walk, w, 0, MaxPages)
    BY <1>1, <2>1, <2>2 DEF Agreeing
  <2> QED
    BY <1>1, <2>3, SameFunctions
<1>8. Chain(t) = walk[MaxPages]
  BY DEF Chain, walk
<1> QED
  BY <1>1, <1>5, <1>7, <1>8

-----------------------------------------------------------------------------
(***************************************************************************)
(* The steps of a statement and the pages.  A page is free when no link    *)
(* and no undo pointer names it; hi is the last id the statement hands     *)
(* out, and the ids up to it are free unless one of them is in use.        *)
(***************************************************************************)
NoRoll(pgs, p) ==
    \A q \in PageIds : pgs[q].kind = "table" =>
        \A i \in 1 .. Len(pgs[q].recs) : pgs[q].recs[i].roll.page # p

Free(s, ch, p) == NoRoll(s.pages, p) /\ \A t \in DOMAIN ch : p \notin Elements(ch[t])

Avail(s, ch, hi) == \A p \in s.next .. hi : Free(s, ch, p)

Good(s, ch, hi) == PagesOK(s, ch) /\ Avail(s, ch, hi)

SameLinks(pgs, pgs2, S) == \A p \in S : pgs2[p].kind = pgs[p].kind /\ pgs2[p].next = pgs[p].next
OthersKept(pgs, pgs2, n) ==
    \A p \in PageIds : p # n => pgs2[p].kind = pgs[p].kind /\ pgs2[p].recs = pgs[p].recs
SameRows(pgs, pgs2, S) == \A p \in S : pgs2[p].recs = pgs[p].recs

(* The kind of a page tells its form. *)
LEMMA Kinds ==
    ASSUME NEW pg \in PageSet
    PROVE  (pg.kind = "table" => pg \in TablePages) /\ (pg.kind = "undo" => pg \in UndoPages)
BY DEF PageSet, NoPage, TablePages, UndoPages

(* A new page takes no image away and has no pointers. *)
LEMMA RollsKept ==
    ASSUME NEW pgs, NEW pgs2, NEW n, Rolls(pgs), NoRoll(pgs, n),
           OthersKept(pgs, pgs2, n),
           pgs2[n].kind = "table" => pgs2[n].recs = <<>>
    PROVE  Rolls(pgs2) /\ \A p : NoRoll(pgs, p) => NoRoll(pgs2, p)
<1>1. ASSUME NEW p \in PageIds, pgs2[p].kind = "table", NEW i \in 1 .. Len(pgs2[p].recs)
      PROVE  p # n /\ pgs[p].kind = "table" /\ pgs2[p].recs = pgs[p].recs
  BY <1>1 DEF OthersKept
<1>2. ASSUME NEW p \in PageIds, pgs2[p].kind = "table", NEW i \in 1 .. Len(pgs2[p].recs)
      PROVE  LET rec == pgs2[p].recs[i]
             IN  (rec.del => rec.roll # Null) /\ (rec.roll # Null => IsImage(pgs2, rec))
  <2> DEFINE rec == pgs[p].recs[i]
  <2>1. pgs[p].kind = "table" /\ pgs2[p].recs = pgs[p].recs /\ i \in 1 .. Len(pgs[p].recs)
    BY <1>1, <1>2
  <2>2. (rec.del => rec.roll # Null) /\ (rec.roll # Null => IsImage(pgs, rec)) /\ rec.roll.page # n
    BY <2>1 DEF Rolls, NoRoll
  <2>3. pgs2[p].recs[i] = rec
    BY <2>1
  <2> HIDE DEF rec
  <2>4. IsImage(pgs, rec) => IsImage(pgs2, rec)
    BY <2>2 DEF IsImage, OthersKept
  <2> QED
    BY <2>2, <2>3, <2>4
<1>3. Rolls(pgs2)
  BY <1>2 DEF Rolls
<1>4. \A p : NoRoll(pgs, p) => NoRoll(pgs2, p)
  BY <1>1 DEF NoRoll
<1> QED
  BY <1>3, <1>4

(* Links look at kinds and links only. *)
LEMMA LinksKept ==
    ASSUME NEW c, NEW item, NEW item2, NEW pgs, NEW pgs2, Links(c, item, pgs),
           item2.first = item.first, item2.last = item.last,
           SameLinks(pgs, pgs2, Elements(c))
    PROVE  Links(c, item2, pgs2)
BY DEF Links, Elements, SameLinks

(* A page without rows, or one with the same, has no live row of its own. *)
LEMMA LiveKept ==
    ASSUME NEW c, NEW c2, NEW n, NEW pgs, NEW pgs2,
           Elements(c2) \subseteq Elements(c) \union {n}, Elements(c) \subseteq Elements(c2),
           n \notin Elements(c),
           SameRows(pgs, pgs2, Elements(c)),
           n \in Elements(c2) => pgs2[n].recs = <<>>
    PROVE  LiveIn(pgs2, c2) = LiveIn(pgs, c)
<1>1. ASSUME NEW rid \in LiveIn(pgs2, c2) PROVE rid \in LiveIn(pgs, c)
  <2>1. /\ rid \in [page : Elements(c2), row : Nat \ {0}]
        /\ rid.row <= Len(pgs2[rid.page].recs) /\ ~pgs2[rid.page].recs[rid.row].del
    BY DEF LiveIn
  <2>2. rid.page # n
    <3>1. rid.page \in Elements(c2) /\ rid.row \in Nat \ {0} /\ Len(<<>>) = 0
      BY <2>1
    <3> QED
      BY <2>1, <3>1
  <2>3. rid.page \in Elements(c) /\ rid \in [page : Elements(c), row : Nat \ {0}]
    BY <2>1, <2>2
  <2> QED
    BY <2>1, <2>3 DEF LiveIn, SameRows
<1>2. ASSUME NEW rid \in LiveIn(pgs, c) PROVE rid \in LiveIn(pgs2, c2)
  BY DEF LiveIn, SameRows
<1> QED
  BY <1>1, <1>2

(* A new page of the undo log. *)
LEMMA FreshUndoPages ==
    ASSUME NEW s, NEW ch, NEW hi \in 0 .. MaxPages, Good(s, ch, hi), s.next \in Nat \ {0}, s.next <= hi,
           NEW r, r.pages = [s.pages EXCEPT ![s.next] = EmptyUndoPage],
           r.next = s.next + 1, r.undo = s.next, r.items = s.items
    PROVE  Good(r, ch, hi)
<1> DEFINE n == s.next
<1>1. /\ s.pages \in [PageIds -> PageSet] /\ \A p \in PageIds : PageOK(s.pages[p])
      /\ s.undo # INVALID_PAGE_ID => s.undo \in PageIds /\ s.undo < n /\ s.pages[s.undo].kind = "undo"
      /\ Linked(s, ch) /\ Rolls(s.pages) /\ Counted(s, ch)
  BY DEF Good, PagesOK
<1>2. n \in PageIds /\ n # INVALID_PAGE_ID /\ n < n + 1
  BY MaxPagesAssumption DEF PageIds, INVALID_PAGE_ID
<1>3. Free(s, ch, n)
  BY DEF Good, Avail
<1>4. /\ r.pages[n] = EmptyUndoPage /\ \A p \in PageIds : p # n => r.pages[p] = s.pages[p]
      /\ EmptyUndoPage.kind = "undo"
  BY <1>1, <1>2 DEF EmptyUndoPage
<1>5. r.pages \in [PageIds -> PageSet] /\ \A p \in PageIds : PageOK(r.pages[p])
  BY <1>1, <1>2, <1>4, EmptyPages DEF PageSet, PageOK
<1> HIDE DEF n
<1>6. Rolls(r.pages) /\ \A p : NoRoll(s.pages, p) => NoRoll(r.pages, p)
  <2>1. OthersKept(s.pages, r.pages, n)
    BY <1>4 DEF OthersKept
  <2> QED
    BY <1>1, <1>3, <1>4, <2>1, RollsKept DEF Free
<1>7. \A t \in DOMAIN ch : n \notin Elements(ch[t]) /\ Elements(ch[t]) \subseteq PageIds
  <2>1. \A t \in DOMAIN ch : ch[t] \in Seq(PageIds)
    BY <1>1 DEF Linked, Links
  <2> QED
    BY <1>3, <2>1 DEF Free, Elements
<1>8. Linked(r, ch)
  <2>1. \A t \in DOMAIN ch : Links(ch[t], r.items[t], r.pages)
    <3> SUFFICES ASSUME NEW t \in DOMAIN ch PROVE Links(ch[t], r.items[t], r.pages)
      OBVIOUS
    <3>1. Links(ch[t], s.items[t], s.pages)
      BY <1>1 DEF Linked
    <3>2. SameLinks(s.pages, r.pages, Elements(ch[t]))
      BY <1>4, <1>7 DEF SameLinks
    <3> QED
      BY <3>1, <3>2, LinksKept
  <2>2. \A p \in PageIds : r.pages[p].kind = "table" => p # n /\ s.pages[p].kind = "table"
    BY <1>4
  <2> QED
    BY <1>1, <2>1, <2>2 DEF Linked
<1>9. Counted(r, ch)
  <2>1. ASSUME NEW t \in DOMAIN ch PROVE LiveIn(r.pages, ch[t]) = LiveIn(s.pages, ch[t])
    <3>1. SameRows(s.pages, r.pages, Elements(ch[t]))
      BY <1>4, <1>7 DEF SameRows
    <3> QED
      BY <1>7, <3>1, LiveKept
  <2> QED
    BY <1>1, <2>1 DEF Counted
<1>10. PagesOK(r, ch)
  <2>1. r.undo \in PageIds /\ r.undo < r.next /\ r.pages[r.undo].kind = "undo"
    BY <1>2, <1>4 DEF n
  <2> QED
    BY <1>5, <1>6, <1>8, <1>9, <2>1 DEF PagesOK
<1>11. Avail(r, ch, hi)
  <2>1. ASSUME NEW p \in r.next .. hi PROVE Free(s, ch, p)
    <3>1. p \in s.next .. hi
      OBVIOUS
    <3> QED
      BY <3>1 DEF Good, Avail
  <2> QED
    BY <1>6, <2>1 DEF Avail, Free
<1> QED
  BY <1>10, <1>11 DEF Good

GrownPages(pgs, c, n) ==
    [p \in PageIds |->
        IF p = n THEN EmptyTablePage
        ELSE IF c # <<>> /\ p = c[Len(c)] THEN [pgs[p] EXCEPT !.next = n] ELSE pgs[p]]

GrownItems(r, s, t, c, n) ==
    /\ DOMAIN r.items = DOMAIN s.items
    /\ \A u \in DOMAIN s.items : u # t => r.items[u] = s.items[u]
    /\ r.items[t].last = n /\ r.items[t].rows = s.items[t].rows
    /\ r.items[t].first = IF c = <<>> THEN n ELSE s.items[t].first

(* What a new page at the end of a chain does to the other pages. *)
LEMMA GrownPagesOK ==
    ASSUME NEW pgs \in [PageIds -> PageSet], \A p \in PageIds : PageOK(pgs[p]),
           NEW c \in Seq(PageIds), c # <<>> => pgs[c[Len(c)]].kind = "table",
           NEW n \in PageIds, NEW q, q = GrownPages(pgs, c, n)
    PROVE  /\ q \in [PageIds -> PageSet] /\ \A p \in PageIds : PageOK(q[p])
           /\ q[n] = EmptyTablePage /\ EmptyTablePage.kind = "table"
           /\ EmptyTablePage.recs = <<>> /\ EmptyTablePage.next = INVALID_PAGE_ID
           /\ \A p \in PageIds : p # n => q[p].kind = pgs[p].kind /\ q[p].recs = pgs[p].recs
           /\ \A p \in PageIds : p # n =>
                 q[p].next = IF c # <<>> /\ p = c[Len(c)] THEN n ELSE pgs[p].next
<1>1. /\ EmptyTablePage.kind = "table" /\ EmptyTablePage.recs = <<>>
      /\ EmptyTablePage.next = INVALID_PAGE_ID
  BY DEF EmptyTablePage
<1>2. ASSUME NEW p \in PageIds
      PROVE  /\ q[p] \in PageSet /\ PageOK(q[p])
             /\ p # n => q[p].kind = pgs[p].kind /\ q[p].recs = pgs[p].recs
             /\ p # n => q[p].next = IF c # <<>> /\ p = c[Len(c)] THEN n ELSE pgs[p].next
  <2>1. CASE p = n
    <3>1. q[p] = EmptyTablePage
      BY <2>1 DEF GrownPages
    <3> QED
      BY <1>1, <2>1, <3>1, EmptyPages DEF PageSet, PageOK
  <2>2. CASE p # n /\ c # <<>> /\ p = c[Len(c)]
    <3>1. q[p] = [pgs[p] EXCEPT !.next = n]
      BY <2>2 DEF GrownPages
    <3>2. pgs[p] \in TablePages /\ TableOK(pgs[p])
      BY <2>2, Kinds DEF PageOK
    <3>3. n \in Nat
      BY MaxPagesAssumption DEF PageIds
    <3>4. q[p] \in TablePages /\ q[p].kind = pgs[p].kind /\ q[p].recs = pgs[p].recs /\ q[p].next = n
          /\ q[p].kind = "table"
      BY <3>1, <3>2, <3>3 DEF TablePages
    <3>5. TableOK(q[p])
      BY <3>2, <3>4 DEF TableOK
    <3> QED
      BY <2>2, <3>4, <3>5 DEF PageSet, PageOK
  <2>3. CASE p # n /\ ~(c # <<>> /\ p = c[Len(c)])
    <3>1. q[p] = pgs[p]
      BY <2>3 DEF GrownPages
    <3> QED
      BY <2>3, <3>1
  <2> QED
    BY <2>1, <2>2, <2>3
<1>3. q \in [PageIds -> PageSet]
  BY <1>2 DEF GrownPages
<1>4. q[n] = EmptyTablePage
  BY DEF GrownPages
<1> QED
  BY <1>1, <1>2, <1>3, <1>4

LinkSet(pgs, q, c, n) ==
    \A p \in Elements(c) : /\ q[p].kind = pgs[p].kind
                           /\ q[p].next = IF p = c[Len(c)] THEN n ELSE pgs[p].next

(* The links after a page was put at the end. *)
LEMMA GrownLinks ==
    ASSUME NEW c, NEW item, NEW item2, NEW pgs, NEW q, NEW n \in PageIds, Links(c, item, pgs),
           n \notin Elements(c), item2.last = n, item2.first = IF c = <<>> THEN n ELSE item.first,
           q[n].kind = "table", q[n].next = INVALID_PAGE_ID,
           LinkSet(pgs, q, c, n)
    PROVE  Links(Append(c, n), item2, q)
<1> DEFINE k == Len(c)
           d == Append(c, n)
<1>1. c \in Seq(PageIds) /\ k \in Nat /\ (c = <<>> <=> k = 0)
  BY EmptySeq DEF Links
<1>2. /\ d \in Seq(PageIds) /\ Len(d) = k + 1 /\ d[k + 1] = n /\ \A i \in 1 .. k : d[i] = c[i]
      /\ d # <<>>
  <2>1. d \in Seq(PageIds) /\ Len(d) = k + 1 /\ d[k + 1] = n /\ \A i \in 1 .. k : d[i] = c[i]
    BY <1>1
  <2>2. k + 1 # 0
    BY <1>1
  <2> HIDE DEF d, k
  <2>3. d # <<>>
    BY <2>1, <2>2, EmptySeq
  <2> QED
    BY <2>1, <2>3
<1>3. \A i \in 1 .. k : c[i] \in Elements(c) /\ c[i] # n
  BY DEF Elements
<1>4. \A i, j \in 1 .. k : c[i] = c[j] => i = j
  BY DEF Links
<1>5. /\ c # <<>> => item.first = c[1]
      /\ \A i \in 1 .. k : /\ pgs[c[i]].kind = "table"
                           /\ i # k => pgs[c[i]].next = c[i + 1]
  BY DEF Links
<1>6. \A i \in 1 .. k : /\ q[c[i]].kind = pgs[c[i]].kind
                        /\ q[c[i]].next = IF c[i] = c[k] THEN n ELSE pgs[c[i]].next
  BY <1>3 DEF LinkSet
<1> HIDE DEF k, d
<1>7. \A i, j \in 1 .. k + 1 : d[i] = d[j] => i = j
  BY <1>1, <1>2, <1>3, <1>4
<1>8. item2.first = d[1] /\ item2.last = d[k + 1]
  <2>1. CASE k = 0
    BY <1>1, <1>2, <2>1
  <2>2. CASE k # 0
    BY <1>1, <1>2, <1>5, <2>2
  <2> QED
    BY <2>1, <2>2
<1>9. ASSUME NEW i \in 1 .. k + 1
      PROVE  q[d[i]].kind = "table" /\ q[d[i]].next = IF i = k + 1 THEN INVALID_PAGE_ID ELSE d[i + 1]
  <2>1. CASE i = k + 1
    BY <1>2, <2>1
  <2>2. CASE i = k /\ k # 0
    <3>1. i \in 1 .. k /\ d[i] = c[i] /\ d[i + 1] = n /\ i # k + 1
      BY <1>1, <1>2, <2>2
    <3> QED
      BY <1>5, <1>6, <2>2, <3>1
  <2>3. CASE i \in 1 .. k - 1
    <3>1. i \in 1 .. k /\ k \in 1 .. k /\ i + 1 \in 1 .. k /\ i # k /\ i # k + 1
      BY <1>1, <2>3
    <3>2. d[i] = c[i] /\ d[i + 1] = c[i + 1] /\ c[i] # c[k]
      BY <1>2, <1>4, <3>1
    <3> QED
      BY <1>5, <1>6, <3>1, <3>2
  <2> QED
    BY <1>1, <2>1, <2>2, <2>3
<1> QED
  BY <1>2, <1>7, <1>8, <1>9 DEF Links, d

(* A table gets a page: its first one, or one linked behind its last. *)
LEMMA ChainGrown ==
    ASSUME NEW s, NEW ch, NEW hi \in 0 .. MaxPages, Good(s, ch, hi), s.next \in Nat \ {0}, s.next <= hi,
           NEW t \in DOMAIN ch,
           NEW r, r.pages = GrownPages(s.pages, ch[t], s.next), GrownItems(r, s, t, ch[t], s.next),
           r.next = s.next + 1, r.undo = s.undo
    PROVE  Good(r, [ch EXCEPT ![t] = Append(ch[t], s.next)], hi)
<1> DEFINE n == s.next
           c == ch[t]
           d == Append(c, n)
           ch2 == [ch EXCEPT ![t] = d]
<1>1. /\ s.pages \in [PageIds -> PageSet] /\ \A p \in PageIds : PageOK(s.pages[p])
      /\ s.undo # INVALID_PAGE_ID => s.undo \in PageIds /\ s.undo < n /\ s.pages[s.undo].kind = "undo"
      /\ Linked(s, ch) /\ Rolls(s.pages) /\ Counted(s, ch)
  BY DEF Good, PagesOK
<1>2. n \in PageIds /\ n < n + 1
  BY MaxPagesAssumption DEF PageIds
<1>3. Free(s, ch, n)
  BY DEF Good, Avail
<1>4. Links(c, s.items[t], s.pages) /\ c \in Seq(PageIds) /\ Len(c) \in Nat
      /\ (c # <<>> => Len(c) \in 1 .. Len(c))
  <2>1. Links(c, s.items[t], s.pages)
    BY <1>1 DEF Linked
  <2>2. c \in Seq(PageIds)
    BY <2>1 DEF Links
  <2>3. Len(c) \in Nat /\ (c = <<>> <=> Len(c) = 0)
    BY <2>2, EmptySeq
  <2> QED
    BY <2>1, <2>2, <2>3
<1>5. c # <<>> => s.pages[c[Len(c)]].kind = "table" /\ c[Len(c)] \in Elements(c)
  BY <1>4 DEF Links, Elements
<1>6. \A u \in DOMAIN ch : n \notin Elements(ch[u]) /\ Elements(ch[u]) \subseteq PageIds
  <2>1. \A u \in DOMAIN ch : ch[u] \in Seq(PageIds)
    BY <1>1 DEF Linked, Links
  <2> QED
    BY <1>3, <2>1 DEF Free, Elements
<1>7. /\ r.pages \in [PageIds -> PageSet] /\ \A p \in PageIds : PageOK(r.pages[p])
      /\ r.pages[n].kind = "table" /\ r.pages[n].recs = <<>> /\ r.pages[n].next = INVALID_PAGE_ID
      /\ \A p \in PageIds : p # n => r.pages[p].kind = s.pages[p].kind /\ r.pages[p].recs = s.pages[p].recs
      /\ \A p \in PageIds : p # n =>
            r.pages[p].next = IF c # <<>> /\ p = c[Len(c)] THEN n ELSE s.pages[p].next
  <2> HIDE DEF n, c
  <2>1. r.pages = GrownPages(s.pages, c, n)
    BY DEF n, c
  <2> QED
    BY <1>1, <1>2, <1>4, <1>5, <2>1, GrownPagesOK
<1>8. /\ DOMAIN ch2 = DOMAIN ch /\ ch2[t] = d /\ \A u \in DOMAIN ch : u # t => ch2[u] = ch[u]
  OBVIOUS
<1>9. Elements(d) = Elements(c) \union {n}
  <2>1. Len(d) = Len(c) + 1 /\ d[Len(c) + 1] = n /\ \A i \in 1 .. Len(c) : d[i] = c[i]
    BY <1>2, <1>4
  <2> HIDE DEF d, c
  <2>2. \A x : x \in Elements(d) <=> x \in Elements(c) \/ x = n
    BY <1>4, <2>1 DEF Elements
  <2> QED
    BY <2>2
<1> HIDE DEF n, c, d, ch2
<1>10. c = ch[t] /\ n = s.next
  BY DEF c, n
<1>11. ASSUME NEW u \in DOMAIN ch, u # t
       PROVE  Links(ch[u], r.items[u], r.pages) /\ LiveIn(r.pages, ch[u]) = LiveIn(s.pages, ch[u])
  <2>1. Links(ch[u], s.items[u], s.pages) /\ r.items[u] = s.items[u]
        /\ Elements(ch[u]) \intersect Elements(c) = {}
    BY <1>1, <1>10, <1>11 DEF Linked, GrownItems
  <2>2. SameLinks(s.pages, r.pages, Elements(ch[u]))
    BY <1>5, <1>6, <1>7, <2>1 DEF SameLinks
  <2>3. SameRows(s.pages, r.pages, Elements(ch[u]))
    BY <1>6, <1>7 DEF SameRows
  <2>4. Links(ch[u], r.items[u], r.pages)
    BY <2>1, <2>2, LinksKept
  <2>5. LiveIn(r.pages, ch[u]) = LiveIn(s.pages, ch[u])
    BY <1>6, <2>3, LiveKept
  <2> QED
    BY <2>4, <2>5
<1>12. Links(d, r.items[t], r.pages)
  <2>1. r.items[t].last = n /\ r.items[t].first = IF c = <<>> THEN n ELSE s.items[t].first
    BY <1>10 DEF GrownItems
  <2>2. \A p \in Elements(c) : p \in PageIds /\ p # n /\ c # <<>>
    BY <1>4, <1>6, <1>10 DEF Elements
  <2>3. LinkSet(s.pages, r.pages, c, n)
    BY <1>7, <2>2 DEF LinkSet
  <2>4. n \notin Elements(c)
    BY <2>2
  <2>5. Links(Append(c, n), r.items[t], r.pages)
    BY <1>2, <1>4, <1>7, <2>1, <2>3, <2>4, GrownLinks
  <2> QED
    BY <2>5 DEF d
<1>13. LiveIn(r.pages, d) = LiveIn(s.pages, c)
  <2>1. SameRows(s.pages, r.pages, Elements(c)) /\ n \notin Elements(c)
    BY <1>6, <1>7, <1>10 DEF SameRows
  <2>2. Elements(d) \subseteq Elements(c) \union {n} /\ Elements(c) \subseteq Elements(d)
    BY <1>9
  <2> QED
    BY <1>7, <2>1, <2>2, LiveKept
<1>14. Rolls(r.pages) /\ \A p : NoRoll(s.pages, p) => NoRoll(r.pages, p)
  <2>1. OthersKept(s.pages, r.pages, n)
    BY <1>7 DEF OthersKept
  <2> QED
    BY <1>1, <1>3, <1>7, <2>1, RollsKept DEF Free
<1>15. Linked(r, ch2)
  <2>1. DOMAIN ch2 = DOMAIN r.items
    BY <1>1, <1>8 DEF Linked, GrownItems
  <2>2. \A u \in DOMAIN ch2 : Links(ch2[u], r.items[u], r.pages)
    BY <1>8, <1>11, <1>12
  <2>3. \A u, v \in DOMAIN ch2 : u # v => Elements(ch2[u]) \intersect Elements(ch2[v]) = {}
    <3>1. \A u, v \in DOMAIN ch : u # v => Elements(ch[u]) \intersect Elements(ch[v]) = {}
      BY <1>1 DEF Linked
    <3>2. \A u \in DOMAIN ch : u # t => Elements(ch[u]) \intersect Elements(d) = {}
      BY <1>6, <1>9, <1>10, <3>1
    <3> QED
      BY <1>8, <3>1, <3>2
  <2>4. ASSUME NEW p \in PageIds, r.pages[p].kind = "table" PROVE \E u \in DOMAIN ch2 : p \in Elements(ch2[u])
    <3>1. CASE p = n
      BY <1>8, <1>9, <3>1
    <3>2. CASE p # n
      <4>1. PICK u \in DOMAIN ch : p \in Elements(ch[u])
        BY <1>1, <1>7, <2>4, <3>2 DEF Linked
      <4> QED
        BY <1>8, <1>9, <1>10, <4>1
    <3> QED
      BY <3>1, <3>2
  <2> QED
    BY <2>1, <2>2, <2>3, <2>4 DEF Linked
<1>16. Counted(r, ch2)
  <2>1. ASSUME NEW u \in DOMAIN ch
        PROVE  LiveIn(r.pages, ch2[u]) = LiveIn(s.pages, ch[u]) /\ r.items[u].rows = s.items[u].rows
    <3>1. u \in DOMAIN s.items
      BY <1>1 DEF Linked
    <3> QED
      BY <1>8, <1>10, <1>11, <1>13, <3>1 DEF GrownItems
  <2> QED
    BY <1>1, <1>8, <2>1 DEF Counted
<1>17. PagesOK(r, ch2)
  <2>1. r.undo # INVALID_PAGE_ID => r.undo \in PageIds /\ r.undo < r.next /\ r.pages[r.undo].kind = "undo"
    <3> SUFFICES ASSUME r.undo # INVALID_PAGE_ID
                 PROVE  r.undo \in PageIds /\ r.undo < r.next /\ r.pages[r.undo].kind = "undo"
      OBVIOUS
    <3>1. r.undo \in PageIds /\ r.undo < n /\ s.pages[r.undo].kind = "undo"
      BY <1>1
    <3>2. r.undo # n /\ r.undo < r.next
      BY <1>2, <1>10, <3>1 DEF PageIds
    <3> QED
      BY <1>7, <3>1, <3>2
  <2> QED
    BY <1>7, <1>14, <1>15, <1>16, <2>1 DEF PagesOK
<1>18. Avail(r, ch2, hi)
  <2>1. ASSUME NEW p \in r.next .. hi PROVE Free(r, ch2, p)
    <3>1. p \in s.next .. hi /\ p # n
      BY <1>10
    <3>2. Free(s, ch, p)
      BY <3>1 DEF Good, Avail
    <3> QED
      BY <1>8, <1>9, <1>10, <1>14, <3>1, <3>2 DEF Free
  <2> QED
    BY <2>1 DEF Avail
<1>19. ch2 = [ch EXCEPT ![t] = Append(ch[t], s.next)]
  BY DEF ch2, d, c, n
<1> QED
  BY <1>17, <1>18, <1>19 DEF Good

OneMore(more, set, x) == more = set \union {x} /\ x \notin set

(* A record that is put on a page of a table is one more live row. *)
LEMMA LiveAdded ==
    ASSUME NEW c, NEW pgs, NEW pgs2, NEW l \in Elements(c), pgs[l].recs \in Seq(TableRecs),
           NEW rec \in TableRecs, ~rec.del, pgs2[l].recs = Append(pgs[l].recs, rec),
           SameRows(pgs, pgs2, Elements(c) \ {l})
    PROVE  OneMore(LiveIn(pgs2, c), LiveIn(pgs, c), [page |-> l, row |-> Len(pgs[l].recs) + 1])
<1> DEFINE n == Len(pgs[l].recs)
           new == [page |-> l, row |-> n + 1]
<1>1. n \in Nat
  OBVIOUS
<1>2. /\ Len(pgs2[l].recs) = n + 1 /\ pgs2[l].recs[n + 1] = rec
      /\ \A i \in 1 .. n : pgs2[l].recs[i] = pgs[l].recs[i]
  OBVIOUS
<1> HIDE DEF n
<1>3. new \in LiveIn(pgs2, c)
  BY <1>1, <1>2 DEF LiveIn
<1>4. new \notin LiveIn(pgs, c)
  <2>1. new.page = l /\ new.row = n + 1 /\ ~(n + 1 <= n)
    BY <1>1
  <2> QED
    BY <2>1 DEF LiveIn, n
<1>5. ASSUME NEW rid \in LiveIn(pgs, c) PROVE rid \in LiveIn(pgs2, c)
  <2>1. /\ rid \in [page : Elements(c), row : Nat \ {0}]
        /\ rid.row <= Len(pgs[rid.page].recs) /\ ~pgs[rid.page].recs[rid.row].del
    BY DEF LiveIn
  <2>2. CASE rid.page = l
    <3>1. rid.row \in 1 .. n /\ rid.row <= n + 1
      BY <1>1, <2>1, <2>2 DEF n
    <3> QED
      BY <1>2, <2>1, <2>2, <3>1 DEF LiveIn
  <2>3. CASE rid.page # l
    BY <2>1, <2>3 DEF LiveIn, SameRows
  <2> QED
    BY <2>2, <2>3
<1>6. ASSUME NEW rid \in LiveIn(pgs2, c), rid # new PROVE rid \in LiveIn(pgs, c)
  <2>1. /\ rid \in [page : Elements(c), row : Nat \ {0}]
        /\ rid.row <= Len(pgs2[rid.page].recs) /\ ~pgs2[rid.page].recs[rid.row].del
    BY DEF LiveIn
  <2>2. CASE rid.page = l
    <3>1. rid.row # n + 1
      BY <1>6, <2>1, <2>2
    <3>2. rid.row \in 1 .. n /\ rid.row <= n
      BY <1>1, <1>2, <2>1, <2>2, <3>1
    <3> QED
      BY <1>2, <2>1, <2>2, <3>2 DEF LiveIn, n
  <2>3. CASE rid.page # l
    BY <2>1, <2>3 DEF LiveIn, SameRows
  <2> QED
    BY <2>2, <2>3
<1>7. LiveIn(pgs2, c) = LiveIn(pgs, c) \union {new}
  <2> HIDE DEF new
  <2> QED
    BY <1>3, <1>5, <1>6
<1> QED
  BY <1>4, <1>7 DEF n, OneMore

(* A record that is marked is one live row less. *)
LEMMA LiveRemoved ==
    ASSUME NEW c, NEW pgs, NEW pgs2, NEW rid \in LiveIn(pgs, c),
           Len(pgs2[rid.page].recs) = Len(pgs[rid.page].recs), Len(pgs[rid.page].recs) \in Nat,
           pgs2[rid.page].recs[rid.row].del,
           \A i \in 1 .. Len(pgs[rid.page].recs) :
              i # rid.row => pgs2[rid.page].recs[i] = pgs[rid.page].recs[i],
           SameRows(pgs, pgs2, Elements(c) \ {rid.page})
    PROVE  LiveIn(pgs2, c) = LiveIn(pgs, c) \ {rid}
<1> DEFINE n == Len(pgs[rid.page].recs)
<1>1. rid \in [page : Elements(c), row : Nat \ {0}] /\ rid.row \in 1 .. n
  BY DEF LiveIn
<1>2. rid \notin LiveIn(pgs2, c)
  BY DEF LiveIn
<1>3. ASSUME NEW x \in [page : Elements(c), row : Nat \ {0}], x # rid
      PROVE  x \in LiveIn(pgs, c) <=> x \in LiveIn(pgs2, c)
  <2>1. CASE x.page = rid.page
    <3>1. x.row # rid.row
      BY <1>1, <1>3, <2>1
    <3>2. x.row <= n => x.row \in 1 .. n
      OBVIOUS
    <3> QED
      BY <2>1, <3>1, <3>2 DEF LiveIn
  <2>2. CASE x.page # rid.page
    BY <2>2 DEF LiveIn, SameRows
  <2> QED
    BY <2>1, <2>2
<1>4. /\ LiveIn(pgs, c) \subseteq [page : Elements(c), row : Nat \ {0}]
      /\ LiveIn(pgs2, c) \subseteq [page : Elements(c), row : Nat \ {0}]
  BY DEF LiveIn
<1> QED
  BY <1>2, <1>3, <1>4

HasImage(pgs, roll) ==
    /\ roll.page \in PageIds /\ pgs[roll.page].kind = "undo"
    /\ \E i \in 1 .. Len(pgs[roll.page].recs) : pgs[roll.page].recs[i].offset = roll.slot

(* A row is placed on the last page of its table. *)
LEMMA RowPlaced ==
    ASSUME NEW s, NEW ch, NEW hi \in 0 .. MaxPages, Good(s, ch, hi), s.next \in Nat \ {0},
           NEW t \in DOMAIN ch, ch[t] # <<>>, NEW l, l = s.items[t].last, s.items \in [DOMAIN s.items -> ItemRecs],
           NEW size \in Nat \ {0}, NEW roll \in Pointers, CanInsert(s.pages[l], size),
           roll.page < s.next, roll # Null => HasImage(s.pages, roll),
           NEW r, r.pages = [s.pages EXCEPT ![l] = InsertTuple(@, size, roll)],
           r.next = s.next, r.undo = s.undo, r.items = Updated(s.items, t, 1, s.items[t].rows + 1)
    PROVE  Good(r, ch, hi)
<1> DEFINE c == ch[t]
<1>1. /\ s.pages \in [PageIds -> PageSet] /\ \A p \in PageIds : PageOK(s.pages[p])
      /\ s.undo # INVALID_PAGE_ID => s.undo \in PageIds /\ s.undo < s.next /\ s.pages[s.undo].kind = "undo"
      /\ Linked(s, ch) /\ Rolls(s.pages) /\ Counted(s, ch)
  BY DEF Good, PagesOK
<1>2. /\ l \in Elements(c) /\ l \in PageIds /\ s.pages[l].kind = "table" /\ t \in DOMAIN s.items
  <2>1. Links(c, s.items[t], s.pages) /\ t \in DOMAIN s.items
    BY <1>1 DEF Linked
  <2>2. c \in Seq(PageIds) /\ l = c[Len(c)]
    BY <2>1 DEF Links
  <2>3. Len(c) \in 1 .. Len(c)
    BY <2>2, EmptySeq
  <2> QED
    BY <2>1, <2>2, <2>3 DEF Links, Elements
<1>3. s.pages[l] \in TablePages /\ TableOK(s.pages[l]) /\ s.pages[l].recs \in Seq(TableRecs)
  <2>1. s.pages[l] \in TablePages /\ TableOK(s.pages[l])
    BY <1>1, <1>2, Kinds DEF PageOK
  <2> QED
    BY <2>1 DEF TablePages
<1>4. /\ r.pages[l] = InsertTuple(s.pages[l], size, roll)
      /\ \A p \in PageIds : p # l => r.pages[p] = s.pages[p]
      /\ DOMAIN r.pages = PageIds
  BY <1>1, <1>2
<1>5. PICK o \in Nat : /\ r.pages[l].recs = Append(s.pages[l].recs, NewRec(o, size, roll))
                       /\ r.pages[l] \in TablePages /\ TableOK(r.pages[l])
                       /\ r.pages[l].next = s.pages[l].next
  <2> DEFINE pg == s.pages[l]
             q == InsertTuple(pg, size, roll)
  <2>1. pg \in TablePages /\ TableOK(pg) /\ CanInsert(pg, size) /\ size \in Nat \ {0} /\ roll \in Pointers
    BY <1>3
  <2>2. r.pages[l] = q
    BY <1>4
  <2> HIDE DEF pg
  <2>3. /\ q \in TablePages /\ TableOK(q) /\ q.next = pg.next
        /\ \E o \in Nat : q.recs = Append(pg.recs, NewRec(o, size, roll))
    BY ONLY <2>1, InsertTupleOK
  <2> HIDE DEF q
  <2> QED
    BY ONLY <2>2, <2>3 DEF pg
<1> DEFINE rec == NewRec(o, size, roll)
           n == Len(s.pages[l].recs)
<1>6. rec \in TableRecs /\ ~rec.del /\ rec.roll = roll
  BY DEF NewRec, TableRecs
<1>7. /\ r.pages[l].kind = "table" /\ n \in Nat /\ Len(r.pages[l].recs) = n + 1
      /\ r.pages[l].recs[n + 1] = rec
      /\ \A i \in 1 .. n : r.pages[l].recs[i] = s.pages[l].recs[i]
  <2> DEFINE a == s.pages[l].recs
             b == r.pages[l].recs
  <2>1. a \in Seq(TableRecs) /\ b = Append(a, rec) /\ rec \in TableRecs
    BY <1>3, <1>5, <1>6
  <2> HIDE DEF a, b, rec
  <2>2. /\ Len(a) \in Nat /\ Len(b) = Len(a) + 1 /\ b[Len(a) + 1] = rec
        /\ \A i \in 1 .. Len(a) : b[i] = a[i]
    BY ONLY <2>1
  <2>3. r.pages[l].kind = "table"
    BY <1>5 DEF TablePages
  <2> QED
    BY ONLY <2>2, <2>3 DEF a, b
<1> HIDE DEF rec, n
<1>18. ASSUME NEW p \in PageIds, NEW i \in 1 .. Len(r.pages[p].recs), ~(p = l /\ i = n + 1)
       PROVE  i \in 1 .. Len(s.pages[p].recs) /\ r.pages[p].recs[i] = s.pages[p].recs[i]
  <2>1. CASE p # l
    <3>1. r.pages[p] = s.pages[p]
      BY ONLY <1>4, <2>1
    <3> QED
      BY ONLY <3>1, <1>18
  <2>2. CASE p = l
    <3>1. i \in 1 .. n + 1 /\ i # n + 1
      BY ONLY <1>7, <1>18, <2>2
    <3>2. i \in 1 .. n
      BY ONLY <1>7, <3>1
    <3> QED
      BY ONLY <1>7, <2>2, <3>2 DEF n
  <2> QED
    BY ONLY <2>1, <2>2
<1>8. r.pages \in [PageIds -> PageSet] /\ \A p \in PageIds : PageOK(r.pages[p])
  <2>1. \A p \in PageIds : r.pages[p] \in PageSet /\ PageOK(r.pages[p])
    <3>1. r.pages[l] \in PageSet /\ PageOK(r.pages[l])
      BY ONLY <1>5, <1>7 DEF PageSet, PageOK
    <3>2. \A p \in PageIds : s.pages[p] \in PageSet /\ PageOK(s.pages[p])
      BY <1>1
    <3> QED
      BY ONLY <1>4, <3>1, <3>2
  <2> QED
    BY <1>4, <2>1
<1>9. \A p \in PageIds : r.pages[p].kind = s.pages[p].kind /\ r.pages[p].next = s.pages[p].next
  BY ONLY <1>2, <1>4, <1>5, <1>7
<1>10. \A u \in DOMAIN ch : Elements(ch[u]) \subseteq PageIds
  <2>1. \A u \in DOMAIN ch : ch[u] \in Seq(PageIds)
    BY <1>1 DEF Linked, Links
  <2> QED
    BY <2>1 DEF Elements
<1>11. /\ DOMAIN r.items = DOMAIN s.items
       /\ \A u \in DOMAIN s.items : r.items[u].first = s.items[u].first /\ r.items[u].last = s.items[u].last
       /\ \A u \in DOMAIN s.items : u # t => r.items[u].rows = s.items[u].rows
       /\ r.items[t].rows = s.items[t].rows + 1
  BY ONLY <1>2, r.items = Updated(s.items, t, 1, s.items[t].rows + 1) DEF Updated, NewFields
<1>12. Linked(r, ch)
  <2>1. ASSUME NEW u \in DOMAIN ch PROVE Links(ch[u], r.items[u], r.pages)
    <3>1. Links(ch[u], s.items[u], s.pages) /\ u \in DOMAIN s.items
      BY <1>1 DEF Linked
    <3>2. SameLinks(s.pages, r.pages, Elements(ch[u]))
      BY <1>9, <1>10 DEF SameLinks
    <3>3. r.items[u].first = s.items[u].first /\ r.items[u].last = s.items[u].last
      BY <1>11, <3>1
    <3> QED
      BY <3>1, <3>2, <3>3, LinksKept
  <2> QED
    BY <1>1, <1>9, <1>11, <2>1 DEF Linked
<1>13. ASSUME NEW x, IsImage(s.pages, x) PROVE IsImage(r.pages, x)
  <2>1. x.roll.page # l
    BY <1>2, <1>13 DEF IsImage
  <2> QED
    BY ONLY <1>4, <1>13, <2>1 DEF IsImage
<1>14. Rolls(r.pages)
  <2>1. ASSUME NEW p \in PageIds, r.pages[p].kind = "table", NEW i \in 1 .. Len(r.pages[p].recs)
        PROVE  LET x == r.pages[p].recs[i]
               IN  (x.del => x.roll # Null) /\ (x.roll # Null => IsImage(r.pages, x))
    <3>1. CASE p = l /\ i = n + 1
      <4>1. r.pages[p].recs[i] = rec
        BY <1>7, <3>1
      <4>2. roll # Null => IsImage(r.pages, rec)
        <5> SUFFICES ASSUME roll # Null PROVE IsImage(r.pages, rec)
          OBVIOUS
        <5>1. roll.page # l /\ HasImage(s.pages, roll)
          BY <1>2 DEF HasImage
        <5> QED
          BY <1>4, <1>6, <5>1 DEF HasImage, IsImage
      <4> QED
        BY <1>6, <4>1, <4>2
    <3>2. CASE ~(p = l /\ i = n + 1)
      <4>1. i \in 1 .. Len(s.pages[p].recs) /\ r.pages[p].recs[i] = s.pages[p].recs[i]
        BY ONLY <1>18, <2>1, <3>2
      <4>2. s.pages[p].kind = "table"
        BY <1>9, <2>1
      <4>3. LET x == s.pages[p].recs[i]
            IN  (x.del => x.roll # Null) /\ (x.roll # Null => IsImage(s.pages, x))
        BY <1>1, <4>1, <4>2 DEF Rolls
      <4> QED
        BY <1>13, <4>1, <4>3
    <3> QED
      BY <3>1, <3>2
  <2> QED
    BY <2>1 DEF Rolls
<1>15. Counted(r, ch)
  <2>1. ASSUME NEW u \in DOMAIN ch, u # t
        PROVE  LiveIn(r.pages, ch[u]) = LiveIn(s.pages, ch[u]) /\ r.items[u].rows = s.items[u].rows
    <3>1. l \notin Elements(ch[u]) /\ u \in DOMAIN s.items
      BY <1>1, <1>2, <2>1 DEF Linked
    <3>2. SameRows(s.pages, r.pages, Elements(ch[u]))
      BY <1>4, <1>10, <3>1 DEF SameRows
    <3>3. LiveIn(r.pages, ch[u]) = LiveIn(s.pages, ch[u])
      BY ONLY <3>1, <3>2, LiveKept
    <3>4. r.items[u].rows = s.items[u].rows
      BY ONLY <1>11, <2>1, <3>1
    <3> QED
      BY ONLY <3>3, <3>4
  <2>2. IsFiniteSet(LiveIn(s.pages, c)) /\ s.items[t].rows = Cardinality(LiveIn(s.pages, c))
    BY <1>1 DEF Counted
  <2> DEFINE new == [page |-> l, row |-> Len(s.pages[l].recs) + 1]
  <2>3. LiveIn(r.pages, c) = LiveIn(s.pages, c) \union {new} /\ new \notin LiveIn(s.pages, c)
    <3>1. SameRows(s.pages, r.pages, Elements(c) \ {l})
      BY <1>4, <1>10 DEF SameRows
    <3>2. r.pages[l].recs = Append(s.pages[l].recs, rec)
      BY <1>5 DEF rec
    <3> DEFINE A == s.pages
               B == r.pages
    <3>3. /\ l \in Elements(c) /\ A[l].recs \in Seq(TableRecs) /\ rec \in TableRecs /\ ~rec.del
          /\ B[l].recs = Append(A[l].recs, rec) /\ SameRows(A, B, Elements(c) \ {l})
      BY <1>2, <1>3, <1>6, <3>1, <3>2
    <3>4. new = [page |-> l, row |-> Len(A[l].recs) + 1]
      OBVIOUS
    <3> HIDE DEF c, A, B, new
    <3>6. OneMore(LiveIn(B, c), LiveIn(A, c), [page |-> l, row |-> Len(A[l].recs) + 1])
      BY ONLY <3>3, LiveAdded
    <3>5. LiveIn(B, c) = LiveIn(A, c) \union {new} /\ new \notin LiveIn(A, c)
      BY ONLY <3>4, <3>6 DEF OneMore
    <3> QED
      BY ONLY <3>5 DEF A, B
  <2> HIDE DEF new
  <2>4. IsFiniteSet(LiveIn(r.pages, c)) /\ Cardinality(LiveIn(r.pages, c)) = Cardinality(LiveIn(s.pages, c)) + 1
    BY <2>2, <2>3, FS_AddElement
  <2>5. r.items[t].rows = Cardinality(LiveIn(r.pages, c))
    BY <1>11, <2>2, <2>4
  <2> QED
    BY <1>1, <2>1, <2>4, <2>5 DEF Counted
<1>16. PagesOK(r, ch)
  <2>1. r.undo # INVALID_PAGE_ID => r.undo \in PageIds /\ r.undo < r.next /\ r.pages[r.undo].kind = "undo"
    BY <1>1, <1>9
  <2> QED
    BY <1>8, <1>12, <1>14, <1>15, <2>1 DEF PagesOK
<1>17. Avail(r, ch, hi)
  <2>1. ASSUME NEW p \in s.next .. hi PROVE NoRoll(r.pages, p)
    <3>1. NoRoll(s.pages, p) /\ p # roll.page
      <4>1. NoRoll(s.pages, p)
        BY DEF Good, Avail, Free
      <4>2. roll.page \in Nat
        BY DEF Pointers
      <4> QED
        BY <4>1, <4>2
    <3>2. ASSUME NEW q \in PageIds, r.pages[q].kind = "table", NEW i \in 1 .. Len(r.pages[q].recs)
          PROVE  r.pages[q].recs[i].roll.page # p
      <4>1. CASE q = l /\ i = n + 1
        BY <1>6, <1>7, <3>1, <4>1
      <4>2. CASE ~(q = l /\ i = n + 1)
        <5>1. i \in 1 .. Len(s.pages[q].recs) /\ r.pages[q].recs[i] = s.pages[q].recs[i]
          BY ONLY <1>18, <3>2, <4>2
        <5>2. s.pages[q].kind = "table"
          BY <1>9, <3>2
        <5> QED
          BY ONLY <3>1, <5>1, <5>2, q \in PageIds DEF NoRoll
      <4> QED
        BY <4>1, <4>2
    <3> QED
      BY <3>2 DEF NoRoll
  <2> QED
    BY <2>1 DEF Good, Avail, Free
<1> QED
  BY <1>16, <1>17 DEF Good

RemovedPages(pgs, undo, size, rid, ptr) ==
    [[pgs EXCEPT ![undo] = AppendRecord(@, size)]
       EXCEPT ![rid.page].recs[rid.row] = Marked(@, ptr)]

(* A row's image is saved, and the row is marked. *)
TakesRow(r, s, ch, hi, t, rid, size, ptr) ==
    /\ hi \in 0 .. MaxPages /\ Good(s, ch, hi) /\ s.next \in Nat \ {0}
    /\ t \in DOMAIN ch /\ rid \in LiveIn(s.pages, ch[t])
    /\ size = s.pages[rid.page].recs[rid.row].size
    /\ s.undo # INVALID_PAGE_ID /\ UndoFits(s, size)
    /\ s.items \in [DOMAIN s.items -> ItemRecs] /\ ptr = UndoPointer(s)
    /\ r.pages = RemovedPages(s.pages, s.undo, size, rid, ptr)
    /\ r.next = s.next /\ r.undo = s.undo
    /\ r.items = Updated(s.items, t, 1, RowsAfterDelete(s, t))

LEMMA RowRemoved ==
    ASSUME NEW r, NEW s, NEW ch, NEW hi, NEW t, NEW rid, NEW size, NEW ptr,
           TakesRow(r, s, ch, hi, t, rid, size, ptr)
    PROVE  /\ Good(r, ch, hi)
           /\ HasImage(r.pages, ptr) /\ ptr \in Pointers /\ ptr.page < s.next
<1> SUFFICES ASSUME hi \in 0 .. MaxPages, Good(s, ch, hi), s.next \in Nat \ {0},
                    t \in DOMAIN ch, rid \in LiveIn(s.pages, ch[t]),
                    size = s.pages[rid.page].recs[rid.row].size,
                    s.undo # INVALID_PAGE_ID, UndoFits(s, size),
                    s.items \in [DOMAIN s.items -> ItemRecs], ptr = UndoPointer(s),
                    r.pages = RemovedPages(s.pages, s.undo, size, rid, ptr),
                    r.next = s.next, r.undo = s.undo,
                    r.items = Updated(s.items, t, 1, RowsAfterDelete(s, t))
             PROVE  /\ Good(r, ch, hi)
                    /\ HasImage(r.pages, ptr) /\ ptr \in Pointers /\ ptr.page < s.next
  BY DEF TakesRow
<1> DEFINE c == ch[t]
           u0 == s.undo
           l == rid.page
           row == rid.row
<1>1. /\ s.pages \in [PageIds -> PageSet] /\ \A p \in PageIds : PageOK(s.pages[p])
      /\ u0 \in PageIds /\ u0 < s.next /\ s.pages[u0].kind = "undo"
      /\ Linked(s, ch) /\ Rolls(s.pages) /\ Counted(s, ch)
  BY DEF Good, PagesOK
<1>2. \A u \in DOMAIN ch : Elements(ch[u]) \subseteq PageIds
  <2>1. \A u \in DOMAIN ch : ch[u] \in Seq(PageIds)
    BY ONLY <1>1 DEF Linked, Links
  <2> QED
    BY ONLY <2>1 DEF Elements
<1>3. /\ l \in Elements(c) /\ l \in PageIds /\ s.pages[l].kind = "table" /\ t \in DOMAIN s.items
      /\ row \in Nat \ {0} /\ row <= Len(s.pages[l].recs)
  <2>1. /\ rid \in [page : Elements(c), row : Nat \ {0}] /\ row <= Len(s.pages[l].recs)
    BY DEF LiveIn
  <2>2. Links(c, s.items[t], s.pages) /\ t \in DOMAIN s.items
    BY <1>1 DEF Linked
  <2>3. \A p \in Elements(c) : s.pages[p].kind = "table"
    BY ONLY <2>2 DEF Links, Elements
  <2>4. Elements(c) \subseteq PageIds
    BY <1>2
  <2> QED
    BY ONLY <2>1, <2>2, <2>3, <2>4
<1>4. l # u0
  BY <1>1, <1>3
<1>5. /\ s.pages[l] \in TablePages /\ TableOK(s.pages[l]) /\ s.pages[l].recs \in Seq(TableRecs)
      /\ s.pages[u0] \in UndoPages /\ UndoOK(s.pages[u0]) /\ s.pages[u0].recs \in Seq(ImageRecs)
      /\ s.pages[u0].free_offset \in Nat
  <2>1. s.pages[l] \in TablePages /\ TableOK(s.pages[l])
    BY <1>1, <1>3, Kinds DEF PageOK
  <2>2. s.pages[u0] \in UndoPages /\ UndoOK(s.pages[u0])
    BY <1>1, Kinds DEF PageOK
  <2> QED
    BY <2>1, <2>2 DEF TablePages, UndoPages
<1>6. row \in 1 .. Len(s.pages[l].recs) /\ Len(s.pages[l].recs) \in Nat /\ size \in Nat \ {0}
  <2>1. Len(s.pages[l].recs) \in Nat
    BY ONLY <1>5
  <2>2. row \in 1 .. Len(s.pages[l].recs)
    BY ONLY <1>3, <2>1
  <2>3. s.pages[l].recs[row] \in TableRecs
    BY ONLY <1>5, <2>2
  <2>4. size = s.pages[l].recs[row].size
    OBVIOUS
  <2> QED
    BY ONLY <2>1, <2>2, <2>3, <2>4 DEF TableRecs
<1>7. ptr \in Pointers /\ ptr.page = u0 /\ ptr.slot = s.pages[u0].free_offset /\ ptr # Null
  <2>1. u0 \in Nat /\ u0 # INVALID_PAGE_ID
    <3>1. u0 # INVALID_PAGE_ID
      OBVIOUS
    <3> QED
      BY ONLY <1>1, <3>1, MaxPagesAssumption DEF PageIds
  <2>2. ptr = UndoPointer(s)
    OBVIOUS
  <2> QED
    BY ONLY <1>5, <2>1, <2>2 DEF UndoPointer, Pointers, Null
<1>8. /\ r.pages[u0] = AppendRecord(s.pages[u0], size)
      /\ r.pages[l] = MarkedPage(s.pages[l], row, ptr)
      /\ \A p \in PageIds : p # u0 /\ p # l => r.pages[p] = s.pages[p]
      /\ DOMAIN r.pages = PageIds
  BY <1>1, <1>3, <1>4 DEF MarkedPage, RemovedPages
<1> HIDE DEF u0, l, row, c
<1>9. /\ r.pages[u0] \in UndoPages /\ UndoOK(r.pages[u0]) /\ r.pages[u0].kind = "undo"
      /\ r.pages[u0].recs = Append(s.pages[u0].recs, [offset |-> s.pages[u0].free_offset, size |-> size])
  <2> DEFINE pg == s.pages[u0]
             q == AppendRecord(pg, size)
  <2>1. pg \in UndoPages /\ UndoOK(pg) /\ size \in Nat \ {0} /\ UndoHasSpaceFor(pg, size)
    BY <1>5, <1>6 DEF UndoFits, u0
  <2>2. r.pages[u0] = q
    BY <1>8
  <2> HIDE DEF pg
  <2>3. /\ q \in UndoPages /\ UndoOK(q)
        /\ q.recs = Append(pg.recs, [offset |-> pg.free_offset, size |-> size])
    BY ONLY <2>1, AppendRecordOK
  <2> HIDE DEF q
  <2>4. q.kind = "undo"
    BY ONLY <2>3 DEF UndoPages
  <2> QED
    BY ONLY <2>2, <2>3, <2>4 DEF pg
<1>10. /\ r.pages[l] \in TablePages /\ TableOK(r.pages[l]) /\ r.pages[l].next = s.pages[l].next
       /\ r.pages[l].kind = "table" /\ Len(r.pages[l].recs) = Len(s.pages[l].recs)
       /\ \A i \in 1 .. Len(s.pages[l].recs) : i # row => r.pages[l].recs[i] = s.pages[l].recs[i]
       /\ r.pages[l].recs[row].del /\ r.pages[l].recs[row].roll = ptr
       /\ r.pages[l].recs[row].size = size
  <2> DEFINE pg == s.pages[l]
             q == MarkedPage(pg, row, ptr)
  <2>1. pg \in TablePages /\ TableOK(pg) /\ row \in 1 .. Len(pg.recs) /\ ptr \in Pointers
    BY <1>5, <1>6, <1>7
  <2>2. r.pages[l] = q /\ size = pg.recs[row].size
    BY <1>8 DEF l, row
  <2> HIDE DEF pg
  <2>3. /\ q \in TablePages /\ TableOK(q) /\ q.next = pg.next
        /\ Len(q.recs) = Len(pg.recs)
        /\ \A i \in 1 .. Len(pg.recs) : i # row => q.recs[i] = pg.recs[i]
        /\ q.recs[row].del /\ q.recs[row].roll = ptr
        /\ q.recs[row].size = pg.recs[row].size
    BY ONLY <2>1, MarkedPageOK
  <2> HIDE DEF q
  <2>4. q.kind = "table"
    BY ONLY <2>3 DEF TablePages
  <2> QED
    BY ONLY <2>2, <2>3, <2>4 DEF pg
<1>11. r.pages \in [PageIds -> PageSet] /\ \A p \in PageIds : PageOK(r.pages[p])
  <2>1. r.pages[l] \in PageSet /\ PageOK(r.pages[l])
    BY ONLY <1>10 DEF PageSet, PageOK
  <2>2. r.pages[u0] \in PageSet /\ PageOK(r.pages[u0])
    BY ONLY <1>9 DEF PageSet, PageOK
  <2>3. \A p \in PageIds : s.pages[p] \in PageSet /\ PageOK(s.pages[p])
    BY <1>1
  <2>4. \A p \in PageIds : r.pages[p] \in PageSet /\ PageOK(r.pages[p])
    BY ONLY <1>8, <2>1, <2>2, <2>3
  <2>5. r.pages = RemovedPages(s.pages, s.undo, size, rid, ptr)
    OBVIOUS
  <2> QED
    BY ONLY <1>8, <2>4, <2>5 DEF RemovedPages
<1>12. /\ \A p \in PageIds : r.pages[p].kind = s.pages[p].kind
       /\ \A p \in PageIds : p # u0 => r.pages[p].next = s.pages[p].next
  <2>1. s.pages[u0].kind = "undo" /\ s.pages[l].kind = "table"
    BY <1>1, <1>3
  <2> QED
    BY ONLY <1>8, <1>9, <1>10, <2>1
<1>13. /\ DOMAIN r.items = DOMAIN s.items
       /\ \A v \in DOMAIN s.items : r.items[v].first = s.items[v].first /\ r.items[v].last = s.items[v].last
       /\ \A v \in DOMAIN s.items : v # t => r.items[v].rows = s.items[v].rows
       /\ r.items[t].rows = RowsAfterDelete(s, t)
  <2>1. r.items = Updated(s.items, t, 1, RowsAfterDelete(s, t)) /\ t \in DOMAIN s.items
    BY <1>3
  <2> QED
    BY ONLY <2>1 DEF Updated, NewFields
<1>14. \A v \in DOMAIN ch : u0 \notin Elements(ch[v])
  <2>1. ASSUME NEW v \in DOMAIN ch PROVE \A p \in Elements(ch[v]) : s.pages[p].kind = "table"
    <3>1. Links(ch[v], s.items[v], s.pages)
      BY <1>1 DEF Linked
    <3> QED
      BY ONLY <3>1 DEF Links, Elements
  <2> QED
    BY <1>1, <2>1
<1>15. Linked(r, ch)
  <2>1. ASSUME NEW v \in DOMAIN ch PROVE Links(ch[v], r.items[v], r.pages)
    <3>1. Links(ch[v], s.items[v], s.pages) /\ v \in DOMAIN s.items
      BY <1>1 DEF Linked
    <3>2. SameLinks(s.pages, r.pages, Elements(ch[v]))
      BY ONLY <1>2, <1>12, <1>14, v \in DOMAIN ch DEF SameLinks
    <3>3. r.items[v].first = s.items[v].first /\ r.items[v].last = s.items[v].last
      BY ONLY <1>13, <3>1
    <3> QED
      BY ONLY <3>1, <3>2, <3>3, LinksKept
  <2>2. Linked(s, ch)
    BY <1>1
  <2> QED
    BY ONLY <1>12, <1>13, <2>1, <2>2 DEF Linked
<1>16. HasImage(r.pages, ptr) /\ \A x : x.roll = ptr /\ x.size = size => IsImage(r.pages, x)
  <2> DEFINE a == s.pages[u0].recs
             b == r.pages[u0].recs
             img == [offset |-> s.pages[u0].free_offset, size |-> size]
  <2>1. a \in Seq(ImageRecs) /\ img \in ImageRecs /\ b = Append(a, img)
    BY <1>5, <1>6, <1>9 DEF ImageRecs
  <2>2. img.offset = ptr.slot /\ img.size = size
    BY <1>7
  <2> HIDE DEF a, b, img
  <2>3. Len(a) + 1 \in 1 .. Len(b) /\ b[Len(a) + 1] = img
    BY ONLY <2>1
  <2>4. ptr.page \in PageIds /\ ptr.page = u0 /\ r.pages[u0].kind = "undo"
    BY <1>1, <1>7, <1>9
  <2>5. \E i \in 1 .. Len(b) : b[i].offset = ptr.slot /\ b[i].size = size
    BY ONLY <2>2, <2>3
  <2> QED
    BY ONLY <2>4, <2>5 DEF b, HasImage, IsImage
<1>17. ASSUME NEW x, IsImage(s.pages, x) PROVE IsImage(r.pages, x)
  <2>1. CASE x.roll.page = u0
    <3> DEFINE a == s.pages[u0].recs
               b == r.pages[u0].recs
    <3>1. /\ a \in Seq(ImageRecs)
          /\ \E img \in ImageRecs : b = Append(a, img)
      BY <1>5, <1>6, <1>9 DEF ImageRecs
    <3> HIDE DEF a, b
    <3>2. \A i \in 1 .. Len(a) : i \in 1 .. Len(b) /\ b[i] = a[i]
      BY ONLY <3>1
    <3>3. PICK i \in 1 .. Len(a) : a[i].offset = x.roll.slot /\ (x.del => a[i].size = x.size)
      BY ONLY <1>17, <2>1 DEF IsImage, a
    <3>4. i \in 1 .. Len(b) /\ b[i].offset = x.roll.slot /\ (x.del => b[i].size = x.size)
      BY ONLY <3>2, <3>3
    <3>5. x.roll.page \in PageIds
      BY ONLY <1>17 DEF IsImage
    <3> QED
      BY ONLY <1>9, <2>1, <3>4, <3>5 DEF IsImage, b
  <2>2. CASE x.roll.page # u0
    <3>1. x.roll.page # l /\ x.roll.page \in PageIds
      <4>1. s.pages[l].kind = "table"
        BY <1>3
      <4> QED
        BY ONLY <1>17, <4>1 DEF IsImage
    <3>2. r.pages[x.roll.page] = s.pages[x.roll.page]
      BY ONLY <1>8, <2>2, <3>1
    <3> QED
      BY ONLY <1>17, <3>2 DEF IsImage
  <2> QED
    BY ONLY <2>1, <2>2
<1>18. ASSUME NEW p \in PageIds, r.pages[p].kind = "table", NEW i \in 1 .. Len(r.pages[p].recs),
              ~(p = l /\ i = row)
       PROVE  /\ s.pages[p].kind = "table" /\ i \in 1 .. Len(s.pages[p].recs)
              /\ r.pages[p].recs[i] = s.pages[p].recs[i]
  <2>1. p # u0 /\ s.pages[p].kind = "table"
    BY ONLY <1>9, <1>12, <1>18
  <2>2. CASE p # l
    <3>1. r.pages[p] = s.pages[p]
      BY ONLY <1>8, <2>1, <2>2, p \in PageIds
    <3> QED
      BY ONLY <1>18, <2>1, <3>1
  <2>3. CASE p = l
    BY ONLY <1>10, <1>18, <2>1, <2>3
  <2> QED
    BY ONLY <2>2, <2>3
<1>19. Rolls(r.pages)
  <2>1. ASSUME NEW p \in PageIds, r.pages[p].kind = "table", NEW i \in 1 .. Len(r.pages[p].recs)
        PROVE  LET x == r.pages[p].recs[i]
               IN  (x.del => x.roll # Null) /\ (x.roll # Null => IsImage(r.pages, x))
    <3>1. CASE p = l /\ i = row
      BY ONLY <1>7, <1>10, <1>16, <3>1
    <3>2. CASE ~(p = l /\ i = row)
      <4>1. /\ s.pages[p].kind = "table" /\ i \in 1 .. Len(s.pages[p].recs)
            /\ r.pages[p].recs[i] = s.pages[p].recs[i]
        BY ONLY <1>18, <2>1, <3>2
      <4>2. Rolls(s.pages)
        BY <1>1
      <4>3. LET x == s.pages[p].recs[i]
            IN  (x.del => x.roll # Null) /\ (x.roll # Null => IsImage(s.pages, x))
        BY ONLY <4>1, <4>2, p \in PageIds DEF Rolls
      <4> QED
        BY ONLY <1>17, <4>1, <4>3
    <3> QED
      BY ONLY <3>1, <3>2
  <2> QED
    BY ONLY <2>1 DEF Rolls
<1>20. Counted(r, ch)
  <2>1. ASSUME NEW v \in DOMAIN ch, v # t
        PROVE  LiveIn(r.pages, ch[v]) = LiveIn(s.pages, ch[v]) /\ r.items[v].rows = s.items[v].rows
    <3>1. l \notin Elements(ch[v]) /\ v \in DOMAIN s.items
      BY <1>1, <1>3, <2>1 DEF Linked, c
    <3>2. SameRows(s.pages, r.pages, Elements(ch[v]))
      BY ONLY <1>2, <1>8, <1>14, <3>1, v \in DOMAIN ch DEF SameRows
    <3>3. u0 \notin Elements(ch[v])
      BY <1>14
    <3>4. LiveIn(r.pages, ch[v]) = LiveIn(s.pages, ch[v])
      BY ONLY <3>2, <3>3, LiveKept
    <3> QED
      BY ONLY <1>13, <2>1, <3>1, <3>4
  <2> DEFINE L == LiveIn(s.pages, c)
             M == LiveIn(r.pages, c)
  <2>2. IsFiniteSet(L) /\ s.items[t].rows = Cardinality(L) /\ rid \in L
    BY <1>1 DEF Counted, c
  <2>3. M = L \ {rid}
    <3> DEFINE A == s.pages
               B == r.pages
               n == Len(A[rid.page].recs)
    <3>1. SameRows(A, B, Elements(c) \ {rid.page})
      <4>1. Elements(c) \subseteq PageIds /\ u0 \notin Elements(c)
        BY <1>2, <1>14 DEF c
      <4> QED
        BY ONLY <1>8, <4>1 DEF SameRows, l
    <3>2. /\ Len(B[rid.page].recs) = n /\ n \in Nat /\ B[rid.page].recs[rid.row].del
          /\ \A i \in 1 .. n : i # rid.row => B[rid.page].recs[i] = A[rid.page].recs[i]
      BY ONLY <1>6, <1>10 DEF l, row
    <3>3. rid \in LiveIn(A, c)
      BY <2>2
    <3> HIDE DEF A, B
    <3>4. LiveIn(B, c) = LiveIn(A, c) \ {rid}
      BY ONLY <3>1, <3>2, <3>3, LiveRemoved
    <3> QED
      BY ONLY <3>4 DEF A, B
  <2> HIDE DEF L, M
  <2>4. IsFiniteSet(M) /\ Cardinality(M) = Cardinality(L) - 1
    BY ONLY <2>2, <2>3, FS_RemoveElement
  <2>5. Cardinality(L) \in Nat /\ Cardinality(M) \in Nat
    BY ONLY <2>2, <2>4, FS_CardinalityType
  <2>6. r.items[t].rows = Cardinality(M)
    BY ONLY <1>13, <2>2, <2>4, <2>5 DEF RowsAfterDelete
  <2>7. Counted(s, ch)
    BY <1>1
  <2> QED
    BY ONLY <2>1, <2>4, <2>6, <2>7 DEF Counted, M, c
<1>21. PagesOK(r, ch)
  <2>1. r.undo \in PageIds /\ r.undo < r.next /\ r.pages[r.undo].kind = "undo"
    BY <1>1, <1>9 DEF u0
  <2> QED
    BY ONLY <1>11, <1>15, <1>19, <1>20, <2>1 DEF PagesOK
<1>22. Avail(r, ch, hi)
  <2>1. ASSUME NEW p \in s.next .. hi PROVE Free(s, ch, p) /\ NoRoll(r.pages, p)
    <3>1. Free(s, ch, p) /\ p # ptr.page
      <4>1. Free(s, ch, p)
        BY DEF Good, Avail
      <4>2. ptr.page \in Nat /\ ptr.page < s.next
        BY <1>1, <1>7 DEF Pointers
      <4>3. s.next \in Nat /\ hi \in Nat /\ p \in s.next .. hi
        BY ONLY s.next \in Nat \ {0}, hi \in 0 .. MaxPages, p \in s.next .. hi, MaxPagesAssumption
      <4>4. p # ptr.page
        BY ONLY <4>2, <4>3
      <4> QED
        BY ONLY <4>1, <4>4
    <3>2. ASSUME NEW q \in PageIds, r.pages[q].kind = "table", NEW i \in 1 .. Len(r.pages[q].recs)
          PROVE  r.pages[q].recs[i].roll.page # p
      <4>1. CASE q = l /\ i = row
        BY ONLY <1>10, <3>1, <4>1
      <4>2. CASE ~(q = l /\ i = row)
        <5>1. /\ s.pages[q].kind = "table" /\ i \in 1 .. Len(s.pages[q].recs)
              /\ r.pages[q].recs[i] = s.pages[q].recs[i]
          BY ONLY <1>18, <3>2, <4>2
        <5> QED
          BY ONLY <3>1, <5>1, q \in PageIds DEF Free, NoRoll
      <4> QED
        BY ONLY <4>1, <4>2
    <3> QED
      BY ONLY <3>1, <3>2 DEF NoRoll
  <2>2. r.next = s.next
    OBVIOUS
  <2> QED
    BY ONLY <2>1, <2>2 DEF Avail, Free
<1>23. ptr.page < s.next
  BY <1>1, <1>7
<1> QED
  BY ONLY <1>7, <1>16, <1>21, <1>22, <1>23 DEF Good

-----------------------------------------------------------------------------
(* The parts of a statement, on the directory and on the pages. *)

KeepsImages(r, s) ==
    \A roll : HasImage(s.pages, roll) /\ roll.page < s.next => HasImage(r.pages, roll)

(* The statement's pages so far are good, if it hands out no id past hi. *)
GoodAfter(r, s, ch, t, hi) ==
    \E ch2 : /\ Good(r, ch2, hi) /\ DOMAIN ch2 = DOMAIN ch /\ ch2[t] # <<>>
             /\ KeepsImages(r, s)

(* A page that is added to a table. *)
LEMMA GrownStore ==
    ASSUME NEW s, NEW ch, NEW hi \in 0 .. MaxPages, Good(s, ch, hi), s.next \in Nat \ {0}, s.next <= hi,
           NEW t \in DOMAIN ch,
           NEW r, r.pages = GrownPages(s.pages, ch[t], s.next), GrownItems(r, s, t, ch[t], s.next),
           r.next = s.next + 1, r.undo = s.undo
    PROVE  GoodAfter(r, s, ch, t, hi)
<1> DEFINE n == s.next
           c == ch[t]
           ch2 == [ch EXCEPT ![t] = Append(c, n)]
<1>1. Good(r, ch2, hi)
  BY ChainGrown
<1>2. DOMAIN ch2 = DOMAIN ch /\ ch2[t] = Append(c, n)
  OBVIOUS
<1>3. Links(c, s.items[t], s.pages) /\ s.pages \in [PageIds -> PageSet] /\ \A p \in PageIds : PageOK(s.pages[p])
  BY DEF Good, PagesOK, Linked
<1>4. n \in PageIds /\ n \in Nat /\ c \in Seq(PageIds)
  BY <1>3, MaxPagesAssumption DEF PageIds, Links
<1>5. ch2[t] # <<>>
  <2>1. Len(Append(c, n)) # 0
    BY ONLY <1>4
  <2>2. Append(c, n) \in Seq(PageIds)
    BY ONLY <1>4
  <2> QED
    BY ONLY <1>2, <2>1, <2>2, EmptySeq
<1>6. c # <<>> => s.pages[c[Len(c)]].kind = "table"
  <2> HIDE DEF c
  <2> SUFFICES ASSUME c # <<>> PROVE s.pages[c[Len(c)]].kind = "table"
    OBVIOUS
  <2>1. Len(c) \in 1 .. Len(c)
    BY ONLY <1>4, c # <<>>, EmptySeq
  <2> QED
    BY ONLY <1>3, <2>1 DEF Links
<1>7. \A p \in PageIds : p # n => r.pages[p].kind = s.pages[p].kind /\ r.pages[p].recs = s.pages[p].recs
  <2> DEFINE A == s.pages
             B == r.pages
  <2>1. B = GrownPages(A, c, n)
    OBVIOUS
  <2> HIDE DEF A, c, n, B
  <2>2. A \in [PageIds -> PageSet] /\ (\A p \in PageIds : PageOK(A[p])) /\ (c # <<>> => A[c[Len(c)]].kind = "table")
    BY ONLY <1>3, <1>6 DEF A
  <2>3. \A p \in PageIds : p # n => B[p].kind = A[p].kind /\ B[p].recs = A[p].recs
    BY ONLY <1>4, <2>1, <2>2, GrownPagesOK
  <2> QED
    BY ONLY <2>3 DEF A, B
<1> HIDE DEF ch2, c
<1>8. KeepsImages(r, s)
  <2>1. ASSUME NEW roll, HasImage(s.pages, roll), roll.page < n PROVE HasImage(r.pages, roll)
    <3>1. roll.page \in PageIds /\ roll.page # n
      BY ONLY <1>4, <2>1, MaxPagesAssumption DEF HasImage, PageIds
    <3> QED
      BY ONLY <1>7, <2>1, <3>1 DEF HasImage
  <2> QED
    BY ONLY <2>1 DEF KeepsImages, n
<1> QED
  BY ONLY <1>1, <1>2, <1>5, <1>8 DEF GoodAfter

(* The last page of a table with pages. *)
LEMMA LastOfChain ==
    ASSUME NEW s, NEW ch, NEW hi, Good(s, ch, hi), NEW t \in DOMAIN ch
    PROVE  IF ch[t] = <<>>
           THEN s.items[t].first = INVALID_PAGE_ID /\ s.items[t].last = INVALID_PAGE_ID
           ELSE /\ s.items[t].last = ch[t][Len(ch[t])] /\ s.items[t].last \in Elements(ch[t])
                /\ s.items[t].last \in PageIds /\ s.items[t].last # INVALID_PAGE_ID
<1> DEFINE c == ch[t]
<1>1. Links(c, s.items[t], s.pages)
  BY DEF Good, PagesOK, Linked
<1>2. c \in Seq(PageIds)
  BY ONLY <1>1 DEF Links
<1> HIDE DEF c
<1>3. CASE c = <<>>
  BY ONLY <1>1, <1>3 DEF Links, c
<1>4. CASE c # <<>>
  <2>1. Len(c) \in 1 .. Len(c)
    BY ONLY <1>2, <1>4, EmptySeq
  <2>2. s.items[t].last = c[Len(c)]
    BY ONLY <1>1, <1>4 DEF Links
  <2>3. c[Len(c)] \in PageIds /\ c[Len(c)] \in Elements(c)
    BY ONLY <1>2, <2>1 DEF Elements
  <2>4. INVALID_PAGE_ID \notin PageIds
    BY MaxPagesAssumption DEF INVALID_PAGE_ID, PageIds
  <2> QED
    BY ONLY <1>4, <2>2, <2>3, <2>4 DEF c
<1> QED
  BY ONLY <1>3, <1>4

(* OpenLastPage. *)
LEMMA OpenOK ==
    ASSUME MetaInv, NEW s, StoreOK(s), NEW t \in DOMAIN items, NEW r, r = OpenLastPage(s, t)
    PROVE  /\ StoreOK(r) /\ r.undo = s.undo
           /\ r.next = IF s.items[t].last = INVALID_PAGE_ID THEN s.next + 1 ELSE s.next
           /\ \A ch : \A hi \in 0 .. MaxPages :
                 Good(s, ch, hi) /\ r.next <= hi + 1 => GoodAfter(r, s, ch, t, hi)
<1>0. s.next \in Nat \ {0} /\ t \in DOMAIN s.items /\ DOMAIN s.pages = PageIds
      /\ s.items \in [DOMAIN s.items -> ItemRecs] /\ s.pages = [p \in PageIds |-> s.pages[p]]
  BY DEF StoreOK, DirectoryOK, SameLayout, ItemsOK
<1>1. CASE s.items[t].last # INVALID_PAGE_ID
  <2>1. r = s
    BY <1>1 DEF OpenLastPage
  <2>2. ASSUME NEW ch, NEW hi \in 0 .. MaxPages, Good(s, ch, hi) PROVE GoodAfter(r, s, ch, t, hi)
    <3>1. t \in DOMAIN ch
      BY <1>0, <2>2 DEF Good, PagesOK, Linked
    <3>2. ch[t] # <<>>
      BY ONLY <1>1, <2>2, <3>1, LastOfChain
    <3> QED
      BY ONLY <2>1, <2>2, <3>2 DEF GoodAfter, KeepsImages
  <2> QED
    BY <1>1, <2>1, <2>2
<1>2. CASE s.items[t].last = INVALID_PAGE_ID
  <2>1. /\ StoreOK(r)
        /\ r.pages = [s.pages EXCEPT ![s.next] = EmptyTablePage]
        /\ r.next = s.next + 1 /\ r.undo = s.undo
        /\ r.items = IF s.items[t].first = INVALID_PAGE_ID
                     THEN Updated(Updated(s.items, t, 3, s.next), t, 0, s.next)
                     ELSE Updated(s.items, t, 3, s.next)
    BY <1>2, OpenLastPageStore
  <2>2. ASSUME NEW ch, NEW hi \in 0 .. MaxPages, Good(s, ch, hi), r.next <= hi + 1
        PROVE  GoodAfter(r, s, ch, t, hi)
    <3>1. t \in DOMAIN ch
      BY ONLY <1>0, <2>2 DEF Good, PagesOK, Linked
    <3>2. ch[t] = <<>> /\ s.items[t].first = INVALID_PAGE_ID
      BY ONLY <1>2, <2>2, <3>1, LastOfChain
    <3>3. r.pages = GrownPages(s.pages, ch[t], s.next)
      BY ONLY <1>0, <2>1, <3>2 DEF GrownPages
    <3>4. GrownItems(r, s, t, ch[t], s.next)
      <4> DEFINE I == Updated(s.items, t, 3, s.next)
      <4>1. r.items = Updated(I, t, 0, s.next)
        BY ONLY <2>1, <3>2
      <4>2. /\ DOMAIN I = DOMAIN s.items /\ \A u \in DOMAIN s.items : u # t => I[u] = s.items[u]
            /\ I[t].last = s.next /\ I[t].rows = s.items[t].rows
        BY ONLY <1>0 DEF Updated, NewFields
      <4> HIDE DEF I
      <4>3. /\ DOMAIN r.items = DOMAIN I /\ \A u \in DOMAIN I : u # t => r.items[u] = I[u]
            /\ r.items[t].last = I[t].last /\ r.items[t].rows = I[t].rows
            /\ r.items[t].first = s.next
        BY ONLY <1>0, <4>1, <4>2 DEF Updated, NewFields
      <4> QED
        BY ONLY <3>2, <4>2, <4>3 DEF GrownItems
    <3>5. s.next <= hi
      BY ONLY <1>0, <2>1, <2>2, MaxPagesAssumption
    <3> QED
      BY ONLY <1>0, <2>1, <2>2, <3>1, <3>3, <3>4, <3>5, GrownStore
  <2> QED
    BY ONLY <1>2, <2>1, <2>2
<1> QED
  BY <1>1, <1>2

(* AllocateAndLinkNewPage, for a table with a page. *)
LEMMA LinkOK ==
    ASSUME MetaInv, NEW s, StoreOK(s), NEW t \in DOMAIN items, NEW r, r = LinkNewPage(s, t)
    PROVE  /\ StoreOK(r) /\ r.undo = s.undo /\ r.next = s.next + 1
           /\ s.next \in PageIds => r.pages[r.items[t].last].recs = <<>>
           /\ \A ch : \A hi \in 0 .. MaxPages :
                 Good(s, ch, hi) /\ ch[t] # <<>> /\ r.next <= hi + 1 => GoodAfter(r, s, ch, t, hi)
<1>0. s.next \in Nat \ {0} /\ t \in DOMAIN s.items /\ DOMAIN s.pages = PageIds
      /\ s.items \in [DOMAIN s.items -> ItemRecs] /\ s.pages = [p \in PageIds |-> s.pages[p]]
  BY DEF StoreOK, DirectoryOK, SameLayout, ItemsOK
<1>1. /\ StoreOK(r)
      /\ r.pages = [[s.pages EXCEPT ![s.next] = EmptyTablePage]
                      EXCEPT ![s.items[t].last].next = s.next]
      /\ r.next = s.next + 1 /\ r.undo = s.undo
      /\ r.items = Updated(s.items, t, 3, s.next)
  BY LinkNewPageStore
<1>2. r.items[t].last = s.next
  BY ONLY <1>0, <1>1 DEF Updated, NewFields
<1>3. s.next \in PageIds => r.pages[s.next].recs = <<>>
  BY ONLY <1>0, <1>1 DEF EmptyTablePage
<1>4. ASSUME NEW ch, NEW hi \in 0 .. MaxPages, Good(s, ch, hi), ch[t] # <<>>, r.next <= hi + 1
      PROVE  GoodAfter(r, s, ch, t, hi)
  <2>1. t \in DOMAIN ch
    BY ONLY <1>0, <1>4 DEF Good, PagesOK, Linked
  <2>2. /\ s.items[t].last = ch[t][Len(ch[t])] /\ s.items[t].last \in Elements(ch[t])
        /\ s.items[t].last \in PageIds
    BY ONLY <1>4, <2>1, LastOfChain
  <2>3. s.next <= hi /\ s.next \in PageIds
    BY ONLY <1>0, <1>1, <1>4, MaxPagesAssumption DEF PageIds
  <2>4. s.items[t].last # s.next
    <3>1. Free(s, ch, s.next)
      BY ONLY <1>0, <1>4, <2>3, MaxPagesAssumption DEF Good, Avail
    <3> QED
      BY ONLY <2>1, <2>2, <3>1 DEF Free
  <2>5. r.pages = GrownPages(s.pages, ch[t], s.next)
    BY ONLY <1>0, <1>1, <1>4, <2>2, <2>3, <2>4 DEF GrownPages
  <2>6. GrownItems(r, s, t, ch[t], s.next)
    <3>1. /\ DOMAIN r.items = DOMAIN s.items
          /\ \A u \in DOMAIN s.items : u # t => r.items[u] = s.items[u]
      BY ONLY <1>0, <1>1 DEF Updated
    <3>2. r.items[t].rows = s.items[t].rows /\ r.items[t].first = s.items[t].first
      BY ONLY <1>0, <1>1 DEF Updated, NewFields
    <3> QED
      BY ONLY <1>2, <1>4, <3>1, <3>2 DEF GrownItems
  <2> QED
    BY ONLY <1>0, <1>1, <1>4, <2>1, <2>3, <2>5, <2>6, GrownStore
<1> QED
  BY ONLY <1>1, <1>2, <1>3, <1>4

(* The images of one store and then another are those of the third. *)
LEMMA ImagesKept ==
    ASSUME NEW r, NEW m, NEW s, KeepsImages(m, s), KeepsImages(r, m),
           s.next \in Nat, m.next \in Nat, s.next <= m.next
    PROVE  KeepsImages(r, s)
<1>1. ASSUME NEW roll, HasImage(s.pages, roll), roll.page < s.next PROVE HasImage(r.pages, roll)
  <2>1. HasImage(m.pages, roll)
    BY ONLY <1>1, KeepsImages(m, s) DEF KeepsImages
  <2>2. roll.page \in Nat
    BY ONLY <1>1, MaxPagesAssumption DEF HasImage, PageIds
  <2>3. roll.page < m.next
    BY ONLY <1>1, <2>2, s.next \in Nat, m.next \in Nat, s.next <= m.next
  <2> QED
    BY ONLY <2>1, <2>3, KeepsImages(r, m) DEF KeepsImages
<1> QED
  BY ONLY <1>1 DEF KeepsImages

(* After MakeRoom a row fits the last page, unless it fits no page. *)
LEMMA MakeRoomOK ==
    ASSUME MetaInv, NEW s, StoreOK(s), NEW t \in DOMAIN items, NEW size \in Nat,
           NEW r, r = MakeRoom(s, t, size)
    PROVE  /\ StoreOK(r) /\ r.undo = s.undo
           /\ r.next \in s.next .. s.next + 2
           /\ s.items[t].last # INVALID_PAGE_ID => r.next <= s.next + 1
           /\ r.next <= MaxPages + 1 /\ ~Fits(r, t, size) => HeaderSize + SlotSize + size > PageSize
           /\ \A ch : \A hi \in 0 .. MaxPages :
                 Good(s, ch, hi) /\ r.next <= hi + 1 => GoodAfter(r, s, ch, t, hi)
<1> DEFINE open == OpenLastPage(s, t)
           lnk == LinkNewPage(open, t)
<1>1. /\ StoreOK(open) /\ open.undo = s.undo
      /\ open.next = IF s.items[t].last = INVALID_PAGE_ID THEN s.next + 1 ELSE s.next
      /\ \A ch : \A hi \in 0 .. MaxPages :
            Good(s, ch, hi) /\ open.next <= hi + 1 => GoodAfter(open, s, ch, t, hi)
  BY OpenOK
<1>2. r = IF Fits(open, t, size) THEN open ELSE lnk
  BY DEF MakeRoom, Fits, HasSpaceFor, CanInsert
<1> HIDE DEF open
<1>3. /\ StoreOK(lnk) /\ lnk.undo = open.undo /\ lnk.next = open.next + 1
      /\ open.next \in PageIds => lnk.pages[lnk.items[t].last].recs = <<>>
      /\ \A ch : \A hi \in 0 .. MaxPages :
            Good(open, ch, hi) /\ ch[t] # <<>> /\ lnk.next <= hi + 1 => GoodAfter(lnk, open, ch, t, hi)
  BY <1>1, LinkOK
<1> HIDE DEF lnk
<1>4. s.next \in Nat \ {0} /\ open.next \in Nat \ {0}
  BY <1>1 DEF StoreOK
<1>5. CASE Fits(open, t, size)
  <2>1. r = open
    BY ONLY <1>2, <1>5
  <2>2. r.next \in s.next .. s.next + 2 /\ (s.items[t].last # INVALID_PAGE_ID => r.next <= s.next + 1)
    BY ONLY <1>1, <1>4, <2>1
  <2> QED
    BY ONLY <1>1, <1>5, <2>1, <2>2
<1>6. CASE ~Fits(open, t, size)
  <2>1. r = lnk
    BY ONLY <1>2, <1>6
  <2>2. r.next \in s.next .. s.next + 2 /\ (s.items[t].last # INVALID_PAGE_ID => r.next <= s.next + 1)
    BY ONLY <1>1, <1>3, <1>4, <2>1
  <2>3. ASSUME r.next <= MaxPages + 1, ~Fits(r, t, size) PROVE HeaderSize + SlotSize + size > PageSize
    <3>1. open.next \in PageIds
      BY ONLY <1>3, <1>4, <2>1, <2>3, MaxPagesAssumption DEF PageIds
    <3>2. UsedSize(r.pages[r.items[t].last].recs) = 0
      BY ONLY <1>3, <2>1, <3>1, EmptyPages
    <3>3. ~(size + SlotSize <= PageSize - HeaderSize - 0)
      BY ONLY <2>3, <3>2 DEF Fits, CanInsert, FreeSize
    <3> QED
      BY ONLY <3>3, PageSizeAssumption, size \in Nat
  <2>4. ASSUME NEW ch, NEW hi \in 0 .. MaxPages, Good(s, ch, hi), r.next <= hi + 1
        PROVE  GoodAfter(r, s, ch, t, hi)
    <3>1. open.next <= hi + 1
      BY ONLY <1>3, <1>4, <2>1, <2>4, MaxPagesAssumption
    <3>2. PICK ch1 : /\ Good(open, ch1, hi) /\ DOMAIN ch1 = DOMAIN ch /\ ch1[t] # <<>>
                     /\ KeepsImages(open, s)
      BY ONLY <1>1, <2>4, <3>1 DEF GoodAfter
    <3>3. PICK ch2 : /\ Good(r, ch2, hi) /\ DOMAIN ch2 = DOMAIN ch1 /\ ch2[t] # <<>>
                     /\ KeepsImages(r, open)
      BY ONLY <1>3, <2>1, <2>4, <3>2 DEF GoodAfter
    <3>4. s.next <= open.next
      BY ONLY <1>1, <1>4
    <3>5. KeepsImages(r, s)
      BY ONLY <1>4, <3>2, <3>3, <3>4, ImagesKept
    <3> QED
      BY ONLY <3>2, <3>3, <3>5 DEF GoodAfter
  <2> QED
    BY ONLY <1>1, <1>3, <2>1, <2>2, <2>3, <2>4
<1> QED
  BY ONLY <1>5, <1>6

ChainsKept(r, s, ch) == \A v \in DOMAIN ch : \A p \in Elements(ch[v]) : r.pages[p] = s.pages[p]

(* A new page of the undo log. *)
LEMMA FreshOK ==
    ASSUME NEW s, StoreOK(s), NEW r, r = FreshUndo(s)
    PROVE  /\ StoreOK(r) /\ r.items = s.items /\ r.next = s.next + 1 /\ r.undo = s.next
           /\ s.next \in PageIds => r.pages[r.undo].free_offset = UndoHeaderSize
           /\ \A ch : \A hi \in 0 .. MaxPages :
                 Good(s, ch, hi) /\ r.next <= hi + 1 => Good(r, ch, hi) /\ ChainsKept(r, s, ch)
<1>0. s.next \in Nat \ {0} /\ DOMAIN s.pages = PageIds
  BY DEF StoreOK
<1>1. /\ StoreOK(r)
      /\ r.pages = [s.pages EXCEPT ![s.next] = EmptyUndoPage]
      /\ r.next = s.next + 1 /\ r.undo = s.next
      /\ r.items = s.items
  BY FreshUndoStore
<1>2. s.next \in PageIds => r.pages[r.undo].free_offset = UndoHeaderSize
  BY ONLY <1>0, <1>1 DEF EmptyUndoPage
<1>3. ASSUME NEW ch, NEW hi \in 0 .. MaxPages, Good(s, ch, hi), r.next <= hi + 1
      PROVE  Good(r, ch, hi) /\ ChainsKept(r, s, ch)
  <2>1. s.next <= hi /\ s.next \in s.next .. hi
    BY ONLY <1>0, <1>1, <1>3, MaxPagesAssumption
  <2>2. Good(r, ch, hi)
    BY ONLY <1>0, <1>1, <1>3, <2>1, FreshUndoPages
  <2>3. Free(s, ch, s.next)
    BY ONLY <1>3, <2>1 DEF Good, Avail
  <2>4. \A v \in DOMAIN ch : Elements(ch[v]) \subseteq PageIds
    <3>1. \A v \in DOMAIN ch : ch[v] \in Seq(PageIds)
      BY ONLY <1>3 DEF Good, PagesOK, Linked, Links
    <3> QED
      BY ONLY <3>1 DEF Elements
  <2>5. ChainsKept(r, s, ch)
    BY ONLY <1>0, <1>1, <2>3, <2>4 DEF ChainsKept, Free
  <2> QED
    BY ONLY <2>2, <2>5
<1> QED
  BY ONLY <1>1, <1>2, <1>3

(* After UndoPage an image fits the page, unless it fits no page. *)
LEMMA UndoPageOK ==
    ASSUME NEW s, StoreOK(s), NEW size \in Nat, NEW r, r = UndoPage(s, size)
    PROVE  /\ StoreOK(r) /\ r.items = s.items /\ r.undo # INVALID_PAGE_ID
           /\ r.next \in s.next .. s.next + 2
           /\ r.next <= MaxPages + 1 /\ ~UndoFits(r, size) =>
                 UndoHeaderSize + UndoRecordSize + size > PageSize
           /\ \A ch : \A hi \in 0 .. MaxPages :
                 Good(s, ch, hi) /\ r.next <= hi + 1 => Good(r, ch, hi) /\ ChainsKept(r, s, ch)
<1> DEFINE cur == IF s.undo = INVALID_PAGE_ID THEN FreshUndo(s) ELSE s
           fresh == FreshUndo(cur)
<1>0. s.next \in Nat \ {0}
  BY DEF StoreOK
<1>1. r = IF UndoFits(cur, size) THEN cur ELSE fresh
  BY UndoPageCases
<1>2. /\ StoreOK(cur) /\ cur.items = s.items /\ cur.undo # INVALID_PAGE_ID
      /\ cur.next \in s.next .. s.next + 1
      /\ \A ch : \A hi \in 0 .. MaxPages :
            Good(s, ch, hi) /\ cur.next <= hi + 1 => Good(cur, ch, hi) /\ ChainsKept(cur, s, ch)
  <2>1. CASE s.undo = INVALID_PAGE_ID
    <3>1. cur = FreshUndo(s)
      BY <2>1
    <3> HIDE DEF cur
    <3>2. /\ StoreOK(cur) /\ cur.items = s.items /\ cur.next = s.next + 1 /\ cur.undo = s.next
          /\ \A ch : \A hi \in 0 .. MaxPages :
                Good(s, ch, hi) /\ cur.next <= hi + 1 => Good(cur, ch, hi) /\ ChainsKept(cur, s, ch)
      BY <3>1, FreshOK
    <3> QED
      BY ONLY <1>0, <3>2 DEF INVALID_PAGE_ID
  <2>2. CASE s.undo # INVALID_PAGE_ID
    <3>1. cur = s
      BY <2>2
    <3> QED
      BY <1>0, <2>2, <3>1 DEF ChainsKept
  <2> QED
    BY ONLY <2>1, <2>2
<1> HIDE DEF cur
<1>3. /\ StoreOK(fresh) /\ fresh.items = cur.items /\ fresh.next = cur.next + 1 /\ fresh.undo = cur.next
      /\ cur.next \in PageIds => fresh.pages[fresh.undo].free_offset = UndoHeaderSize
      /\ \A ch : \A hi \in 0 .. MaxPages :
            Good(cur, ch, hi) /\ fresh.next <= hi + 1 => Good(fresh, ch, hi) /\ ChainsKept(fresh, cur, ch)
  BY <1>2, FreshOK
<1> HIDE DEF fresh
<1>4. CASE UndoFits(cur, size)
  <2>1. r = cur
    BY ONLY <1>1, <1>4
  <2>2. r.next \in s.next .. s.next + 2
    BY ONLY <1>0, <1>2, <2>1
  <2> QED
    BY ONLY <1>2, <1>4, <2>1, <2>2
<1>5. CASE ~UndoFits(cur, size)
  <2>1. r = fresh
    BY ONLY <1>1, <1>5
  <2>2. r.next \in s.next .. s.next + 2 /\ cur.next \in Nat \ {0}
    BY ONLY <1>0, <1>2, <1>3, <2>1
  <2>3. r.undo # INVALID_PAGE_ID
    BY ONLY <1>3, <2>1, <2>2 DEF INVALID_PAGE_ID
  <2>4. ASSUME r.next <= MaxPages + 1, ~UndoFits(r, size)
        PROVE  UndoHeaderSize + UndoRecordSize + size > PageSize
    <3>1. cur.next \in PageIds
      BY ONLY <1>3, <2>1, <2>2, <2>4, MaxPagesAssumption DEF PageIds
    <3>2. ~(UndoHeaderSize + UndoRecordSize + size <= PageSize)
      BY ONLY <1>3, <2>1, <2>4, <3>1 DEF UndoFits, UndoHasSpaceFor
    <3> QED
      BY ONLY <3>2, PageSizeAssumption, size \in Nat
  <2>5. ASSUME NEW ch, NEW hi \in 0 .. MaxPages, Good(s, ch, hi), r.next <= hi + 1
        PROVE  Good(r, ch, hi) /\ ChainsKept(r, s, ch)
    <3>1. cur.next <= hi + 1
      BY ONLY <1>3, <2>1, <2>2, <2>5, MaxPagesAssumption
    <3>2. Good(cur, ch, hi) /\ ChainsKept(cur, s, ch)
      BY ONLY <1>2, <2>5, <3>1
    <3>3. Good(r, ch, hi) /\ ChainsKept(r, cur, ch)
      BY ONLY <1>3, <2>1, <2>5, <3>2
    <3> QED
      BY ONLY <3>2, <3>3 DEF ChainsKept
  <2> QED
    BY ONLY <1>2, <1>3, <2>1, <2>2, <2>3, <2>4, <2>5
<1> QED
  BY ONLY <1>4, <1>5

-----------------------------------------------------------------------------
(* What the scan of the tables finds. *)

(* The chains in ch are those the links lead through. *)
LEMMA ScanOfChains ==
    ASSUME NEW ch, PagesOK(Store, ch), NEW t \in DOMAIN ch
    PROVE  /\ Chain(t) = ch[t] /\ ch[t] \in Seq(PageIds) /\ t \in DOMAIN items
           /\ ToSet(Chain(t)) = Elements(ch[t]) /\ Elements(ch[t]) \subseteq PageIds
           /\ \A p \in Elements(ch[t]) : pages[p] \in TablePages /\ pages[p].recs \in Seq(TableRecs)
<1>1. Links(ch[t], items[t], pages) /\ t \in DOMAIN items /\ pages \in [PageIds -> PageSet]
  BY DEF PagesOK, Linked, Store
<1>2. Chain(t) = ch[t]
  BY ONLY <1>1, ChainIsLinks
<1>3. ch[t] \in Seq(PageIds)
  BY ONLY <1>1 DEF Links
<1>4. ToSet(Chain(t)) = Elements(ch[t]) /\ Elements(ch[t]) \subseteq PageIds
  <2>1. DOMAIN ch[t] = 1 .. Len(ch[t]) /\ \A i \in 1 .. Len(ch[t]) : ch[t][i] \in PageIds
    BY ONLY <1>3
  <2> QED
    BY ONLY <1>2, <2>1 DEF ToSet, Elements
<1>5. \A p \in Elements(ch[t]) : pages[p].kind = "table"
  BY ONLY <1>1 DEF Links, Elements
<1>6. \A p \in Elements(ch[t]) : pages[p] \in TablePages
  BY ONLY <1>1, <1>4, <1>5, Kinds
<1>7. \A p \in Elements(ch[t]) : pages[p].recs \in Seq(TableRecs)
  BY ONLY <1>6 DEF TablePages
<1> QED
  BY ONLY <1>1, <1>2, <1>3, <1>4, <1>6, <1>7

(* The record ids of a scan. *)
LEMMA RidsOfChains ==
    ASSUME NEW ch, PagesOK(Store, ch), NEW t \in DOMAIN ch
    PROVE  \A rid : rid \in Rids(t) <=>
              /\ rid \in [page : Elements(ch[t]), row : Nat \ {0}]
              /\ rid.row <= Len(pages[rid.page].recs)
<1>1. ToSet(Chain(t)) = Elements(ch[t])
  BY ScanOfChains
<1>2. \A p \in Elements(ch[t]) : Len(pages[p].recs) \in Nat
  <2>1. \A p \in Elements(ch[t]) : pages[p].recs \in Seq(TableRecs)
    BY ScanOfChains
  <2> QED
    BY ONLY <2>1
<1>3. \A rid : rid \in Rids(t) <=>
         \E p \in Elements(ch[t]) : \E r \in 1 .. Len(pages[p].recs) : rid = [page |-> p, row |-> r]
  BY ONLY <1>1 DEF Rids
<1>4. ASSUME NEW rid, NEW p \in Elements(ch[t]), NEW r \in 1 .. Len(pages[p].recs), rid = [page |-> p, row |-> r]
      PROVE  /\ rid \in [page : Elements(ch[t]), row : Nat \ {0}]
             /\ rid.row <= Len(pages[rid.page].recs)
  BY ONLY <1>2, <1>4
<1>5. ASSUME NEW rid \in [page : Elements(ch[t]), row : Nat \ {0}], rid.row <= Len(pages[rid.page].recs)
      PROVE  \E p \in Elements(ch[t]) : \E r \in 1 .. Len(pages[p].recs) : rid = [page |-> p, row |-> r]
  <2>1. rid.page \in Elements(ch[t]) /\ rid.row \in Nat \ {0} /\ rid = [page |-> rid.page, row |-> rid.row]
    OBVIOUS
  <2>2. rid.row \in 1 .. Len(pages[rid.page].recs)
    BY ONLY <1>2, <1>5, <2>1
  <2> QED
    BY ONLY <2>1, <2>2
<1> QED
  BY ONLY <1>3, <1>4, <1>5

(* The rows that a scan finds unmarked. *)
LEMMA LiveOfChains ==
    ASSUME NEW ch, PagesOK(Store, ch), NEW t \in DOMAIN ch
    PROVE  Live(t) = LiveIn(pages, ch[t])
<1>1. \A rid : rid \in Rids(t) <=>
         /\ rid \in [page : Elements(ch[t]), row : Nat \ {0}]
         /\ rid.row <= Len(pages[rid.page].recs)
  BY RidsOfChains
<1>2. \A rid : rid \in Live(t) <=> rid \in LiveIn(pages, ch[t])
  BY ONLY <1>1 DEF Live, LiveIn
<1> QED
  BY ONLY <1>2

(* A page that no link and no undo pointer of a scan names is free. *)
LEMMA FreeOfChains ==
    ASSUME NEW ch, PagesOK(Store, ch), NEW p, p \notin InUse
    PROVE  Free(Store, ch, p)
<1>1. Linked(Store, ch) /\ Store.pages = pages /\ Store.items = items /\ pages \in [PageIds -> PageSet]
  BY DEF PagesOK, Store
<1>2. DOMAIN ch = DOMAIN items
  BY ONLY <1>1 DEF Linked
<1>3. \A t \in DOMAIN ch : /\ p \notin ToSet(Chain(t))
                           /\ \A rid \in Rids(t) : pages[rid.page].recs[rid.row].roll.page # p
  <2> SUFFICES ASSUME NEW t \in DOMAIN ch
               PROVE  /\ p \notin ToSet(Chain(t))
                      /\ \A rid \in Rids(t) : pages[rid.page].recs[rid.row].roll.page # p
    OBVIOUS
  <2>1. ToSet(Chain(t)) \union {pages[rid.page].recs[rid.row].roll.page : rid \in Rids(t)} \subseteq InUse
    BY ONLY <1>2, t \in DOMAIN ch DEF InUse
  <2> QED
    BY ONLY <2>1, p \notin InUse
<1>4. \A t \in DOMAIN ch : p \notin Elements(ch[t])
  <2>1. \A t \in DOMAIN ch : ToSet(Chain(t)) = Elements(ch[t])
    BY ScanOfChains
  <2> QED
    BY ONLY <1>3, <2>1
<1>5. ASSUME NEW q \in PageIds, pages[q].kind = "table", NEW i \in 1 .. Len(pages[q].recs)
      PROVE  pages[q].recs[i].roll.page # p
  <2>1. PICK t \in DOMAIN ch : q \in Elements(ch[t])
    BY ONLY <1>1, <1>5 DEF Linked
  <2> DEFINE rid == [page |-> q, row |-> i]
  <2>2. pages[q].recs \in Seq(TableRecs)
    BY <2>1, ScanOfChains
  <2>3. i \in Nat \ {0} /\ i <= Len(pages[q].recs)
    BY ONLY <1>5, <2>2
  <2>4. rid \in [page : Elements(ch[t]), row : Nat \ {0}] /\ rid.page = q /\ rid.row = i
    BY ONLY <2>1, <2>3
  <2> HIDE DEF rid
  <2>5. rid \in Rids(t)
    BY <2>3, <2>4, RidsOfChains
  <2> QED
    BY ONLY <1>3, <2>1, <2>4, <2>5
<1>6. NoRoll(pages, p)
  BY ONLY <1>5 DEF NoRoll
<1> QED
  BY ONLY <1>1, <1>4, <1>6 DEF Free

-----------------------------------------------------------------------------
(* The steps of the specification. *)

(* A statement starts on good pages. *)
LEMMA StatementStart ==
    ASSUME HeapInv, MayRun
    PROVE  /\ StoreOK(Store) /\ Store.next = next_page_id /\ Store.pages = pages /\ Store.items = items
           /\ next_page_id \in Nat \ {0} /\ next_page_id + 3 <= MaxPages + 1
           /\ \E ch : PagesOK(Store, ch)
<1>1. HeapTypeOK /\ MetaInv /\ ~overrun /\ ~clash /\ next_page_id + 3 <= MaxPages + 1
  BY DEF HeapInv, MayRun
<1>2. /\ Store.pages = pages /\ Store.next = next_page_id /\ Store.undo = undo_page_id
      /\ Store.items = items /\ Store.meta = meta /\ IsStore(Store)
  BY DEF Store, IsStore
<1>3. \E ch : PagesOK(Store, ch)
  BY <1>1 DEF HeapInv
<1>4. DirectoryOK(items, meta)
  <2>1. ItemsOK(items) /\ MetaOK(meta, items, table_size, last_point)
    BY ONLY <1>1 DEF MetaInv
  <2> QED
    BY ONLY <2>1 DEF DirectoryOK, SameLayout
<1>5. StoreOK(Store)
  BY ONLY <1>1, <1>2, <1>4 DEF StoreOK, HeapTypeOK
<1> QED
  BY ONLY <1>1, <1>2, <1>3, <1>5 DEF HeapTypeOK

GoodStatement(f) ==
    /\ StoreOK(f)
    /\ next_page_id <= f.next /\ f.next <= MaxPages + 1
    /\ \A ch : \A hi \in 0 .. MaxPages :
          Good(Store, ch, hi) /\ f.next <= hi + 1 => \E ch2 : Good(f, ch2, hi)

(* The invariant speaks of the fields of a store. *)
LEMMA SameStore ==
    ASSUME NEW r, NEW s, NEW ch, PagesOK(s, ch), r.pages = s.pages, r.next = s.next, r.undo = s.undo,
           r.items = s.items
    PROVE  PagesOK(r, ch)
<1>1. Linked(r, ch) /\ Counted(r, ch)
  BY DEF PagesOK, Linked, Counted
<1> QED
  BY <1>1 DEF PagesOK

(* A statement that works on a store keeps the invariant. *)
LEMMA StatementStep ==
    ASSUME HeapInv, MayRun, NEW t \in DOMAIN items, NEW f, GoodStatement(f), SetStore(f),
           GivesUpOnlyOversize'
    PROVE  HeapInv'
<1>1. /\ pages' = f.pages /\ next_page_id' = f.next /\ undo_page_id' = f.undo
      /\ items' = f.items /\ meta' = f.meta
      /\ clash' = (clash \/ (f.next > next_page_id
                              /\ (next_page_id .. f.next - 1) \intersect InUse # {}))
      /\ last_point' = last_point /\ table_size' = table_size /\ catalog' = catalog
      /\ overrun' = overrun /\ started' = started
  BY DEF SetStore
<1>2. HeapTypeOK /\ MetaInv /\ ~overrun /\ ~clash /\ next_page_id \in Nat \ {0}
  BY DEF HeapInv, MayRun, HeapTypeOK
<1>3. StoreOK(f)
  BY DEF GoodStatement
<1>4. HeapTypeOK'
  <2>1. DOMAIN pages' = PageIds /\ pages' = [p \in PageIds |-> pages'[p]]
    BY ONLY <1>1, <1>3 DEF StoreOK
  <2>2. next_page_id' \in Nat \ {0} /\ undo_page_id' \in Nat
    BY ONLY <1>1, <1>3 DEF StoreOK
  <2>3. clash' \in BOOLEAN
    BY ONLY <1>1, <1>2 DEF HeapTypeOK
  <2>4. started' \in {"first", "terminal", "directory"}
    BY ONLY <1>1, <1>2 DEF HeapTypeOK
  <2> QED
    BY ONLY <2>1, <2>2, <2>3, <2>4 DEF HeapTypeOK
<1>5. MetaInv'
  <2>1. ItemsOK(f.items) /\ SameLayout(f.items, items) /\ MetaOK(f.meta, f.items, table_size, last_point)
    BY ONLY <1>3 DEF StoreOK, DirectoryOK
  <2>2. DOMAIN items \subseteq catalog /\ last_point \in Nat /\ table_size \in Nat
        /\ MetaOK(meta, items, table_size, last_point)
    BY ONLY <1>2 DEF MetaInv
  <2>3. table_size > 0
    <3>1. PICK ord : InOrder(items, table_size, last_point, ord)
      BY ONLY <2>2 DEF MetaOK
    <3>2. \E i \in 1 .. table_size : ord[i] = t
      BY ONLY <3>1, t \in DOMAIN items DEF InOrder
    <3> QED
      BY ONLY <2>2, <3>2
  <2>4. f.meta[1] = table_size /\ f.meta \in MetaCells
    BY ONLY <2>1, <2>3 DEF MetaOK
  <2>5. DOMAIN f.items \subseteq catalog
    BY ONLY <2>1, <2>2 DEF SameLayout
  <2> QED
    BY ONLY <1>1, <1>2, <2>1, <2>2, <2>4, <2>5 DEF MetaInv
<1>6. ASSUME ~clash' PROVE (\E ch : PagesOK(Store, ch))'
  <2>1. PICK ch : PagesOK(Store, ch)
    BY StatementStart
  <2> DEFINE hi == f.next - 1
  <2>2. f.next \in Nat \ {0} /\ next_page_id <= f.next /\ f.next <= MaxPages + 1
    BY <1>3 DEF GoodStatement, StoreOK
  <2>3. hi \in 0 .. MaxPages /\ f.next <= hi + 1
    BY ONLY <2>2, MaxPagesAssumption
  <2>4. Store.next = next_page_id
    BY DEF Store
  <2>5. ASSUME NEW p \in next_page_id .. hi PROVE p \notin InUse
    <3>1. p \in next_page_id .. f.next - 1 /\ f.next > next_page_id
      BY ONLY <1>2, <2>2, <2>5
    <3>2. ~(f.next > next_page_id /\ (next_page_id .. f.next - 1) \intersect InUse # {})
      BY ONLY <1>1, <1>6
    <3> QED
      BY ONLY <3>1, <3>2
  <2> HIDE DEF hi
  <2>6. Avail(Store, ch, hi)
    <3>1. ASSUME NEW p \in Store.next .. hi PROVE Free(Store, ch, p)
      BY <2>1, <2>4, <2>5, FreeOfChains
    <3> QED
      BY ONLY <3>1 DEF Avail
  <2>7. PICK ch2 : Good(f, ch2, hi)
    <3>1. Good(Store, ch, hi)
      BY ONLY <2>1, <2>6 DEF Good
    <3> QED
      BY ONLY <2>3, <3>1, GoodStatement(f) DEF GoodStatement
  <2>8. /\ Store'.pages = f.pages /\ Store'.next = f.next /\ Store'.undo = f.undo
        /\ Store'.items = f.items
    BY ONLY <1>1 DEF Store
  <2>9. PagesOK(f, ch2)
    BY ONLY <2>7 DEF Good
  <2>10. PagesOK(Store', ch2)
    BY ONLY <2>8, <2>9, SameStore
  <2> QED
    BY ONLY <2>10
<1>7. (clash \/ \E ch : PagesOK(Store, ch))'
  BY ONLY <1>6
<1> QED
  BY ONLY <1>4, <1>5, <1>7, GivesUpOnlyOversize' DEF HeapInv

(* One more row was given up. *)
LEMMA GaveUp ==
    ASSUME GivesUpOnlyOversize, NEW op, NEW size,
           gave_up' = gave_up \union {[op |-> op, size |-> size]},
           IF op = "undo" THEN UndoHeaderSize + UndoRecordSize + size > PageSize
           ELSE HeaderSize + SlotSize + size > PageSize
    PROVE  GivesUpOnlyOversize'
<1> DEFINE g0 == [op |-> op, size |-> size]
<1>1. g0.op = op /\ g0.size = size
  OBVIOUS
<1> HIDE DEF g0
<1>2. gave_up' = gave_up \union {g0}
  BY DEF g0
<1> QED
  BY <1>1, <1>2 DEF GivesUpOnlyOversize

(* INSERT. *)
LEMMA InsertStep ==
    ASSUME HeapInv, NEW t, NEW size \in RowSizes, Insert(t, size) \/ InsertThrows(t, size)
    PROVE  HeapInv'
<1> DEFINE s == MakeRoom(Store, t, size)
           f == PlaceRow(s, t, size, Null)
<1>1. MayRun /\ t \in DOMAIN items /\ MetaInv /\ GivesUpOnlyOversize /\ size \in Nat \ {0}
  BY RowSizesAssumption DEF Insert, InsertThrows, HeapInv
<1>2. /\ StoreOK(Store) /\ Store.next = next_page_id
      /\ next_page_id \in Nat \ {0} /\ next_page_id + 3 <= MaxPages + 1
  BY <1>1, StatementStart
<1>3. /\ StoreOK(s)
      /\ s.next \in Store.next .. Store.next + 2
      /\ s.next <= MaxPages + 1 /\ ~Fits(s, t, size) => HeaderSize + SlotSize + size > PageSize
      /\ \A ch : \A hi \in 0 .. MaxPages :
            Good(Store, ch, hi) /\ s.next <= hi + 1 => GoodAfter(s, Store, ch, t, hi)
  BY <1>1, <1>2, MakeRoomOK
<1>4. next_page_id <= s.next /\ s.next <= MaxPages + 1 /\ s.next \in Nat \ {0}
  <2> HIDE DEF s
  <2> QED
    BY ONLY <1>2, <1>3, MaxPagesAssumption
<1>5. CASE Insert(t, size)
  <2>1. Fits(s, t, size) /\ SetStore(f) /\ gave_up' = gave_up
    BY <1>5 DEF Insert
  <2> HIDE DEF s
  <2>2. /\ StoreOK(f)
        /\ f.pages = [s.pages EXCEPT ![s.items[t].last] = InsertTuple(@, size, Null)]
        /\ f.next = s.next /\ f.undo = s.undo
        /\ f.items = Updated(s.items, t, 1, s.items[t].rows + 1)
    BY <1>1, <1>3, PlaceRowStore
  <2> HIDE DEF f
  <2>3. ASSUME NEW ch, NEW hi \in 0 .. MaxPages, Good(Store, ch, hi), f.next <= hi + 1
        PROVE  \E ch2 : Good(f, ch2, hi)
    <3>1. PICK ch2 : Good(s, ch2, hi) /\ ch2[t] # <<>>
      BY ONLY <1>3, <2>2, <2>3 DEF GoodAfter
    <3>2. t \in DOMAIN s.items /\ s.items \in [DOMAIN s.items -> ItemRecs]
      BY ONLY <1>1, <1>3 DEF StoreOK, DirectoryOK, SameLayout, ItemsOK
    <3>3. t \in DOMAIN ch2
      BY ONLY <3>1, <3>2 DEF Good, PagesOK, Linked
    <3>4. Null \in Pointers /\ Null.page = 0 /\ Null.page < s.next
      BY ONLY <1>4 DEF Null, Pointers, INVALID_PAGE_ID
    <3>5. CanInsert(s.pages[s.items[t].last], size)
      BY ONLY <2>1 DEF Fits
    <3> DEFINE l == s.items[t].last
               roll == Null
    <3>6. /\ hi \in 0 .. MaxPages /\ Good(s, ch2, hi) /\ s.next \in Nat \ {0}
          /\ t \in DOMAIN ch2 /\ ch2[t] # <<>> /\ l = s.items[t].last
          /\ s.items \in [DOMAIN s.items -> ItemRecs]
          /\ size \in Nat \ {0} /\ roll \in Pointers /\ CanInsert(s.pages[l], size)
          /\ roll.page < s.next /\ (roll # Null => HasImage(s.pages, roll))
          /\ f.pages = [s.pages EXCEPT ![l] = InsertTuple(@, size, roll)]
          /\ f.next = s.next /\ f.undo = s.undo
          /\ f.items = Updated(s.items, t, 1, s.items[t].rows + 1)
      BY ONLY <1>1, <1>4, <2>2, <2>3, <3>1, <3>2, <3>3, <3>4, <3>5
    <3> HIDE DEF l, roll
    <3>7. Good(f, ch2, hi)
      BY ONLY <3>6, RowPlaced
    <3> QED
      BY ONLY <3>7
  <2>4. GoodStatement(f)
    BY ONLY <1>4, <2>2, <2>3 DEF GoodStatement
  <2>5. GivesUpOnlyOversize'
    BY ONLY <1>1, <2>1 DEF GivesUpOnlyOversize
  <2> QED
    BY <1>1, <2>1, <2>4, <2>5, StatementStep
<1>6. CASE InsertThrows(t, size)
  <2>1. ~Fits(s, t, size) /\ SetStore(s) /\ gave_up' = gave_up \union {[op |-> "insert", size |-> size]}
    BY <1>6 DEF InsertThrows
  <2> HIDE DEF s
  <2>2. GoodStatement(s)
    BY ONLY <1>3, <1>4 DEF GoodStatement, GoodAfter
  <2>3. GivesUpOnlyOversize'
    <3>1. HeaderSize + SlotSize + size > PageSize /\ "insert" # "undo"
      BY ONLY <1>3, <1>4, <2>1
    <3> QED
      BY ONLY <1>1, <2>1, <3>1, GaveUp
  <2> QED
    BY <1>1, <2>1, <2>2, <2>3, StatementStep
<1> QED
  BY <1>5, <1>6

(* The image of a row that a scan finds. *)
LEMMA HitRow ==
    ASSUME HeapInv, MayRun, NEW t \in DOMAIN items, NEW rid \in Live(t),
           NEW s, s = UndoPage(Store, RowSize(rid))
    PROVE  /\ RowSize(rid) \in Nat \ {0} /\ items[t].last # INVALID_PAGE_ID
           /\ StoreOK(s) /\ s.items = items /\ s.undo # INVALID_PAGE_ID
           /\ s.next \in next_page_id .. next_page_id + 2
           /\ s.next <= MaxPages + 1 /\ ~UndoFits(s, RowSize(rid)) =>
                 UndoHeaderSize + UndoRecordSize + RowSize(rid) > PageSize
           /\ \A ch : \A hi \in 0 .. MaxPages :
                 Good(Store, ch, hi) /\ s.next <= hi + 1 =>
                    /\ Good(s, ch, hi) /\ t \in DOMAIN ch /\ rid \in LiveIn(s.pages, ch[t])
                    /\ RowSize(rid) = s.pages[rid.page].recs[rid.row].size
<1>1. /\ StoreOK(Store) /\ Store.next = next_page_id /\ Store.pages = pages /\ Store.items = items
      /\ \E ch : PagesOK(Store, ch)
  BY StatementStart
<1>2. ASSUME NEW ch, PagesOK(Store, ch) PROVE t \in DOMAIN ch /\ rid \in LiveIn(pages, ch[t])
  <2>1. t \in DOMAIN ch
    BY ONLY <1>1, <1>2, t \in DOMAIN items DEF PagesOK, Linked
  <2>2. Live(t) = LiveIn(pages, ch[t])
    BY ONLY <1>2, <2>1, LiveOfChains
  <2> QED
    BY ONLY <2>1, <2>2, rid \in Live(t)
<1>3. RowSize(rid) \in Nat \ {0} /\ items[t].last # INVALID_PAGE_ID
  <2>1. PICK ch : PagesOK(Store, ch)
    BY ONLY <1>1
  <2>2. t \in DOMAIN ch /\ rid \in LiveIn(pages, ch[t])
    BY ONLY <1>2, <2>1
  <2>3. /\ rid.page \in Elements(ch[t]) /\ rid.row \in Nat \ {0} /\ rid.row <= Len(pages[rid.page].recs)
    BY ONLY <2>2 DEF LiveIn
  <2>4. pages[rid.page].recs \in Seq(TableRecs) /\ ch[t] \in Seq(PageIds)
    BY ONLY <2>1, <2>2, <2>3, ScanOfChains
  <2>5. pages[rid.page].recs[rid.row] \in TableRecs
    BY ONLY <2>3, <2>4
  <2>6. RowSize(rid) \in Nat \ {0}
    BY ONLY <2>5 DEF RowSize, TableRecs
  <2>7. ch[t] # <<>>
    BY ONLY <2>3, <2>4 DEF Elements
  <2>8. Good(Store, ch, 0)
    <3>1. next_page_id \in Nat \ {0}
      BY StatementStart
    <3> QED
      BY ONLY <1>1, <2>1, <3>1 DEF Good, Avail
  <2>9. Store.items[t].last # INVALID_PAGE_ID
    BY ONLY <2>2, <2>7, <2>8, LastOfChain
  <2> QED
    BY ONLY <1>1, <2>6, <2>9
<1> DEFINE size == RowSize(rid)
<1>4. size \in Nat
  BY ONLY <1>3
<1> HIDE DEF size
<1>5. s = UndoPage(Store, size)
  BY DEF size
<1>6. /\ StoreOK(s) /\ s.items = Store.items /\ s.undo # INVALID_PAGE_ID
      /\ s.next \in Store.next .. Store.next + 2
      /\ s.next <= MaxPages + 1 /\ ~UndoFits(s, size) =>
            UndoHeaderSize + UndoRecordSize + size > PageSize
      /\ \A ch : \A hi \in 0 .. MaxPages :
            Good(Store, ch, hi) /\ s.next <= hi + 1 => Good(s, ch, hi) /\ ChainsKept(s, Store, ch)
  BY ONLY <1>1, <1>4, <1>5, UndoPageOK
<1>7. ASSUME NEW ch, NEW hi \in 0 .. MaxPages, Good(Store, ch, hi), s.next <= hi + 1
      PROVE  /\ Good(s, ch, hi) /\ t \in DOMAIN ch /\ rid \in LiveIn(s.pages, ch[t])
             /\ RowSize(rid) = s.pages[rid.page].recs[rid.row].size
  <2>1. Good(s, ch, hi) /\ ChainsKept(s, Store, ch)
    BY ONLY <1>6, <1>7
  <2>2. t \in DOMAIN ch /\ rid \in LiveIn(pages, ch[t])
    <3>1. PagesOK(Store, ch)
      BY ONLY <1>7 DEF Good
    <3> QED
      BY ONLY <1>2, <3>1
  <2>3. rid.page \in Elements(ch[t])
    BY ONLY <2>2 DEF LiveIn
  <2>4. \A p \in Elements(ch[t]) : s.pages[p] = pages[p]
    BY ONLY <1>1, <2>1, <2>2 DEF ChainsKept
  <2>5. rid \in LiveIn(s.pages, ch[t])
    BY ONLY <2>2, <2>3, <2>4 DEF LiveIn
  <2> QED
    BY ONLY <2>1, <2>2, <2>3, <2>4, <2>5 DEF RowSize
<1> QED
  BY ONLY <1>1, <1>3, <1>6, <1>7 DEF size

RemovedFrom(m, s, t, rid) ==
    \A ch : \A hi \in 0 .. MaxPages :
        Good(Store, ch, hi) /\ s.next <= hi + 1 =>
           /\ Good(m, ch, hi) /\ t \in DOMAIN ch
           /\ HasImage(m.pages, UndoPointer(s)) /\ UndoPointer(s) \in Pointers
           /\ UndoPointer(s).page < s.next

(* The row is taken away. *)
LEMMA HitRowRemoved ==
    ASSUME HeapInv, MayRun, NEW t \in DOMAIN items, NEW rid \in Live(t),
           NEW s, s = UndoPage(Store, RowSize(rid)), UndoFits(s, RowSize(rid)),
           NEW m, m = Removed(s, t, rid)
    PROVE  /\ StoreOK(m) /\ m.next = s.next /\ m.items[t].last = items[t].last
           /\ RemovedFrom(m, s, t, rid)
<1> DEFINE size == RowSize(rid)
           ptr == UndoPointer(s)
<1>1. /\ StoreOK(s) /\ s.items = items /\ s.undo # INVALID_PAGE_ID
      /\ \A ch : \A hi \in 0 .. MaxPages :
            Good(Store, ch, hi) /\ s.next <= hi + 1 =>
               /\ Good(s, ch, hi) /\ t \in DOMAIN ch /\ rid \in LiveIn(s.pages, ch[t])
               /\ RowSize(rid) = s.pages[rid.page].recs[rid.row].size
  BY HitRow
<1>2. MetaInv
  BY DEF HeapInv
<1> HIDE DEF size, ptr
<1>3. /\ StoreOK(m)
      /\ m.pages = RemovedPages(s.pages, s.undo, size, rid, ptr)
      /\ m.next = s.next /\ m.undo = s.undo
      /\ m.items = Updated(s.items, t, 1, RowsAfterDelete(s, t))
  <2>1. StoreOK(s) /\ m = Removed(s, t, rid) /\ t \in DOMAIN items
    BY <1>1
  <2>2. /\ StoreOK(m)
        /\ m.pages = [[s.pages EXCEPT ![s.undo] = AppendRecord(@, RowSize(rid))]
                        EXCEPT ![rid.page].recs[rid.row] = Marked(@, UndoPointer(s))]
        /\ m.next = s.next /\ m.undo = s.undo
        /\ m.items = Updated(s.items, t, 1, RowsAfterDelete(s, t))
    <3>1. RemovalOf(m, s, t, rid)
      BY ONLY <1>2, <2>1, RemovedStore
    <3> QED
      BY ONLY <3>1 DEF RemovalOf
  <2> QED
    BY ONLY <2>2 DEF size, ptr, RemovedPages
<1>4. s.next \in Nat \ {0} /\ t \in DOMAIN s.items /\ s.items \in [DOMAIN s.items -> ItemRecs]
  BY ONLY <1>1, t \in DOMAIN items DEF StoreOK, DirectoryOK, ItemsOK
<1>5. m.items[t].last = items[t].last
  BY ONLY <1>1, <1>3, <1>4 DEF Updated, NewFields
<1>6. ASSUME NEW ch, NEW hi \in 0 .. MaxPages, Good(Store, ch, hi), s.next <= hi + 1
      PROVE  /\ Good(m, ch, hi) /\ t \in DOMAIN ch
             /\ HasImage(m.pages, ptr) /\ ptr \in Pointers /\ ptr.page < s.next
  <2>1. /\ Good(s, ch, hi) /\ t \in DOMAIN ch /\ rid \in LiveIn(s.pages, ch[t])
        /\ size = s.pages[rid.page].recs[rid.row].size
    BY ONLY <1>1, <1>6 DEF size
  <2>2. UndoFits(s, size) /\ ptr = UndoPointer(s)
    BY DEF size, ptr
  <2>3. TakesRow(m, s, ch, hi, t, rid, size, ptr)
    <3>1. s.undo # INVALID_PAGE_ID
      BY ONLY <1>1
    <3>2. hi \in 0 .. MaxPages
      OBVIOUS
    <3> QED
      BY ONLY <1>3, <1>4, <2>1, <2>2, <3>1, <3>2 DEF TakesRow
  <2>4. /\ Good(m, ch, hi)
        /\ HasImage(m.pages, ptr) /\ ptr \in Pointers /\ ptr.page < s.next
    BY ONLY <2>3, RowRemoved
  <2> QED
    BY ONLY <2>1, <2>4
<1> QED
  BY ONLY <1>3, <1>5, <1>6 DEF RemovedFrom, ptr

(* DELETE of a row, and an image that does not fit. *)
LEMMA DeleteStep ==
    ASSUME HeapInv, MayRun, NEW t \in DOMAIN items, NEW rid \in Live(t),
           DeleteHit(t, rid) \/ UndoThrows(rid)
    PROVE  HeapInv'
<1> DEFINE s == UndoPage(Store, RowSize(rid))
           f == Removed(s, t, rid)
<1>1. GivesUpOnlyOversize /\ next_page_id \in Nat \ {0} /\ next_page_id + 3 <= MaxPages + 1
  BY StatementStart DEF HeapInv
<1>2. /\ StoreOK(s) /\ s.next \in next_page_id .. next_page_id + 2
      /\ s.next <= MaxPages + 1 /\ ~UndoFits(s, RowSize(rid)) =>
            UndoHeaderSize + UndoRecordSize + RowSize(rid) > PageSize
      /\ \A ch : \A hi \in 0 .. MaxPages :
            Good(Store, ch, hi) /\ s.next <= hi + 1 => Good(s, ch, hi)
  BY HitRow
<1>3. next_page_id <= s.next /\ s.next <= MaxPages + 1
  <2> HIDE DEF s
  <2> QED
    BY ONLY <1>1, <1>2, MaxPagesAssumption
<1>4. CASE DeleteHit(t, rid)
  <2>1. UndoFits(s, RowSize(rid)) /\ SetStore(f) /\ gave_up' = gave_up
    BY <1>4 DEF DeleteHit
  <2>2. StoreOK(f) /\ f.next = s.next /\ RemovedFrom(f, s, t, rid)
    BY <2>1, HitRowRemoved
  <2> HIDE DEF f, s
  <2>3. GoodStatement(f)
    BY ONLY <1>3, <2>2 DEF GoodStatement, RemovedFrom
  <2>4. GivesUpOnlyOversize'
    BY ONLY <1>1, <2>1 DEF GivesUpOnlyOversize
  <2> QED
    BY <2>1, <2>3, <2>4, StatementStep
<1>5. CASE UndoThrows(rid)
  <2>1. /\ ~UndoFits(s, RowSize(rid)) /\ SetStore(s)
        /\ gave_up' = gave_up \union {[op |-> "undo", size |-> RowSize(rid)]}
    BY <1>5 DEF UndoThrows
  <2> HIDE DEF s
  <2>2. GoodStatement(s)
    BY ONLY <1>2, <1>3 DEF GoodStatement
  <2>3. GivesUpOnlyOversize'
    <3>1. UndoHeaderSize + UndoRecordSize + RowSize(rid) > PageSize
      BY ONLY <1>2, <1>3, <2>1
    <3> QED
      BY ONLY <1>1, <2>1, <3>1, GaveUp
  <2> QED
    BY <2>1, <2>2, <2>3, StatementStep
<1> QED
  BY <1>4, <1>5

(* UPDATE of a row. *)
LEMMA UpdateStep ==
    ASSUME HeapInv, MayRun, NEW t \in DOMAIN items, NEW rid \in Live(t), NEW size \in RowSizes,
           UpdateHit(t, rid, size) \/ UpdateDropsRow(t, rid, size)
    PROVE  HeapInv'
<1> DEFINE s == UndoPage(Store, RowSize(rid))
           m == Removed(s, t, rid)
           room == MakeRoom(m, t, size)
           f == PlaceRow(room, t, size, UndoPointer(s))
<1>1. /\ GivesUpOnlyOversize /\ next_page_id \in Nat \ {0} /\ next_page_id + 3 <= MaxPages + 1
      /\ MetaInv /\ size \in Nat \ {0} /\ size \in Nat
  BY StatementStart, RowSizesAssumption DEF HeapInv
<1>2. UndoFits(s, RowSize(rid))
  BY DEF UpdateHit, UpdateDropsRow
<1>3. s.next \in next_page_id .. next_page_id + 2 /\ items[t].last # INVALID_PAGE_ID
  BY HitRow
<1>4. /\ StoreOK(m) /\ m.next = s.next /\ m.items[t].last = items[t].last
      /\ RemovedFrom(m, s, t, rid)
  BY <1>2, HitRowRemoved
<1>6. UpdateHit(t, rid, size) => Fits(room, t, size) /\ SetStore(f) /\ gave_up' = gave_up
  BY DEF UpdateHit
<1>7. UpdateDropsRow(t, rid, size) =>
         /\ ~Fits(room, t, size) /\ SetStore(room)
         /\ gave_up' = gave_up \union {[op |-> "update", size |-> size]}
  BY DEF UpdateDropsRow
<1> HIDE DEF s, m
<1>8. /\ StoreOK(room)
      /\ room.next \in m.next .. m.next + 2
      /\ m.items[t].last # INVALID_PAGE_ID => room.next <= m.next + 1
      /\ room.next <= MaxPages + 1 /\ ~Fits(room, t, size) => HeaderSize + SlotSize + size > PageSize
      /\ \A ch : \A hi \in 0 .. MaxPages :
            Good(m, ch, hi) /\ room.next <= hi + 1 => GoodAfter(room, m, ch, t, hi)
  BY <1>1, <1>4, MakeRoomOK
<1> HIDE DEF room
<1>9. /\ next_page_id <= room.next /\ room.next <= MaxPages + 1 /\ room.next \in Nat \ {0}
      /\ s.next \in Nat /\ s.next <= room.next
  BY ONLY <1>1, <1>3, <1>4, <1>8, MaxPagesAssumption
<1>10. ASSUME NEW ch, NEW hi \in 0 .. MaxPages, Good(Store, ch, hi), room.next <= hi + 1
       PROVE  \E ch2 : /\ Good(room, ch2, hi) /\ ch2[t] # <<>> /\ HasImage(room.pages, UndoPointer(s))
                       /\ UndoPointer(s) \in Pointers /\ UndoPointer(s).page < room.next
  <2> DEFINE ptr == UndoPointer(s)
  <2>1. s.next <= hi + 1
    BY ONLY <1>9, <1>10, MaxPagesAssumption
  <2>2. /\ Good(m, ch, hi) /\ HasImage(m.pages, ptr) /\ ptr \in Pointers /\ ptr.page < s.next
    BY ONLY <1>4, <1>10, <2>1 DEF RemovedFrom
  <2> HIDE DEF ptr
  <2>3. PICK ch2 : Good(room, ch2, hi) /\ ch2[t] # <<>> /\ KeepsImages(room, m)
    BY ONLY <1>8, <1>10, <2>2 DEF GoodAfter
  <2>4. HasImage(room.pages, ptr)
    BY ONLY <1>4, <2>2, <2>3 DEF KeepsImages
  <2>5. ptr.page < room.next
    <3>1. ptr.page \in Nat
      BY ONLY <2>2 DEF Pointers
    <3> QED
      BY ONLY <1>9, <2>2, <3>1
  <2> QED
    BY ONLY <2>2, <2>3, <2>4, <2>5 DEF ptr
<1>11. CASE UpdateHit(t, rid, size)
  <2>1. Fits(room, t, size) /\ SetStore(f) /\ gave_up' = gave_up
    BY ONLY <1>6, <1>11
  <2> DEFINE ptr == UndoPointer(s)
  <2> HIDE DEF ptr
  <2>2. /\ StoreOK(f)
        /\ f.pages = [room.pages EXCEPT ![room.items[t].last] = InsertTuple(@, size, ptr)]
        /\ f.next = room.next /\ f.undo = room.undo
        /\ f.items = Updated(room.items, t, 1, room.items[t].rows + 1)
    BY <1>1, <1>8, PlaceRowStore DEF ptr
  <2> HIDE DEF f
  <2>3. ASSUME NEW ch, NEW hi \in 0 .. MaxPages, Good(Store, ch, hi), f.next <= hi + 1
        PROVE  \E ch2 : Good(f, ch2, hi)
    <3>1. PICK ch2 : /\ Good(room, ch2, hi) /\ ch2[t] # <<>> /\ HasImage(room.pages, ptr)
                     /\ ptr \in Pointers /\ ptr.page < room.next
      BY ONLY <1>10, <2>2, <2>3 DEF ptr
    <3>2. t \in DOMAIN room.items /\ room.items \in [DOMAIN room.items -> ItemRecs]
      BY ONLY <1>8, t \in DOMAIN items DEF StoreOK, DirectoryOK, SameLayout, ItemsOK
    <3>3. t \in DOMAIN ch2
      BY ONLY <3>1, <3>2 DEF Good, PagesOK, Linked
    <3> DEFINE l == room.items[t].last
    <3>4. /\ hi \in 0 .. MaxPages /\ Good(room, ch2, hi) /\ room.next \in Nat \ {0}
          /\ t \in DOMAIN ch2 /\ ch2[t] # <<>> /\ l = room.items[t].last
          /\ room.items \in [DOMAIN room.items -> ItemRecs]
          /\ size \in Nat \ {0} /\ ptr \in Pointers /\ CanInsert(room.pages[l], size)
          /\ ptr.page < room.next /\ (ptr # Null => HasImage(room.pages, ptr))
          /\ f.pages = [room.pages EXCEPT ![l] = InsertTuple(@, size, ptr)]
          /\ f.next = room.next /\ f.undo = room.undo
          /\ f.items = Updated(room.items, t, 1, room.items[t].rows + 1)
      BY ONLY <1>1, <1>9, <2>1, <2>2, <2>3, <3>1, <3>2, <3>3 DEF Fits
    <3> HIDE DEF l
    <3>5. Good(f, ch2, hi)
      BY ONLY <3>4, RowPlaced
    <3> QED
      BY ONLY <3>5
  <2>4. GoodStatement(f)
    BY ONLY <1>9, <2>2, <2>3 DEF GoodStatement
  <2>5. GivesUpOnlyOversize'
    BY ONLY <1>1, <2>1 DEF GivesUpOnlyOversize
  <2> QED
    BY <2>1, <2>4, <2>5, StatementStep
<1>12. CASE UpdateDropsRow(t, rid, size)
  <2>1. /\ ~Fits(room, t, size) /\ SetStore(room)
        /\ gave_up' = gave_up \union {[op |-> "update", size |-> size]}
    BY ONLY <1>7, <1>12
  <2>2. GoodStatement(room)
    BY ONLY <1>8, <1>9, <1>10 DEF GoodStatement
  <2>3. GivesUpOnlyOversize'
    <3>1. HeaderSize + SlotSize + size > PageSize /\ "update" # "undo"
      BY ONLY <1>8, <1>9, <2>1
    <3> QED
      BY ONLY <1>1, <2>1, <3>1, GaveUp
  <2> QED
    BY <2>1, <2>2, <2>3, StatementStep
<1> QED
  BY <1>11, <1>12

(* A new table has no pages. *)
LEMMA TableAdded ==
    ASSUME NEW s, NEW ch, PagesOK(s, ch), NEW t, t \notin DOMAIN s.items, NEW item,
           item.first = INVALID_PAGE_ID, item.last = INVALID_PAGE_ID, item.rows = 0,
           NEW r, r.pages = s.pages, r.next = s.next, r.undo = s.undo,
           r.items = WithItem(s.items, t, item)
    PROVE  \E ch2 : PagesOK(r, ch2)
<1> DEFINE ch2 == [u \in DOMAIN ch \union {t} |-> IF u = t THEN <<>> ELSE ch[u]]
<1>1. Linked(s, ch) /\ Counted(s, ch) /\ DOMAIN ch = DOMAIN s.items
  BY DEF PagesOK, Linked
<1>2. /\ DOMAIN ch2 = DOMAIN ch \union {t} /\ ch2[t] = <<>> /\ t \notin DOMAIN ch
      /\ \A u \in DOMAIN ch : u # t /\ ch2[u] = ch[u]
  BY <1>1
<1>3. /\ DOMAIN r.items = DOMAIN ch2 /\ r.items[t] = item
      /\ \A u \in DOMAIN ch : r.items[u] = s.items[u]
  BY <1>1 DEF WithItem
<1> HIDE DEF ch2
<1>4. Elements(<<>>) = {}
  BY DEF Elements
<1>5. Linked(r, ch2)
  <2>1. Links(ch2[t], r.items[t], r.pages)
    <3>1. <<>> \in Seq(PageIds) /\ Len(<<>>) = 0
      OBVIOUS
    <3> QED
      BY <1>2, <1>3, <3>1 DEF Links
  <2>2. \A u \in DOMAIN ch : Links(ch2[u], r.items[u], r.pages)
    BY <1>1, <1>2, <1>3 DEF Linked
  <2>3. \A u \in DOMAIN ch2 : Links(ch2[u], r.items[u], r.pages)
    BY ONLY <1>2, <2>1, <2>2
  <2>4. \A u, v \in DOMAIN ch2 : u # v => Elements(ch2[u]) \intersect Elements(ch2[v]) = {}
    <3>1. \A u, v \in DOMAIN ch : u # v => Elements(ch[u]) \intersect Elements(ch[v]) = {}
      BY ONLY <1>1 DEF Linked
    <3> QED
      BY ONLY <1>2, <1>4, <3>1
  <2>5. \A p \in PageIds : r.pages[p].kind = "table" => \E u \in DOMAIN ch2 : p \in Elements(ch2[u])
    <3>1. \A p \in PageIds : r.pages[p].kind = "table" => \E u \in DOMAIN ch : p \in Elements(ch[u])
      BY <1>1 DEF Linked
    <3> QED
      BY ONLY <1>2, <3>1
  <2> QED
    BY ONLY <1>3, <2>3, <2>4, <2>5 DEF Linked
<1>6. Counted(r, ch2)
  <2>1. LiveIn(r.pages, <<>>) = {}
    BY ONLY <1>4 DEF LiveIn
  <2>2. IsFiniteSet(LiveIn(r.pages, <<>>)) /\ Cardinality(LiveIn(r.pages, <<>>)) = 0
    BY ONLY <2>1, FS_EmptySet
  <2>3. r.items[t].rows = 0
    BY <1>3
  <2>4. \A u \in DOMAIN ch : /\ IsFiniteSet(LiveIn(r.pages, ch2[u]))
                             /\ r.items[u].rows = Cardinality(LiveIn(r.pages, ch2[u]))
    BY <1>1, <1>2, <1>3 DEF Counted
  <2> QED
    BY ONLY <1>2, <2>2, <2>3, <2>4 DEF Counted
<1>7. PagesOK(r, ch2)
  BY <1>5, <1>6 DEF PagesOK
<1> QED
  BY ONLY <1>7

(* CREATE TABLE. *)
LEMMA CreateStep ==
    ASSUME HeapInv, NEW t \in Tables, CreateTable(t) \/ CreateTableThrows(t), UNCHANGED heapVars
    PROVE  HeapInv'
<1>1. HeapTypeOK /\ MetaInv /\ GivesUpOnlyOversize
  BY DEF HeapInv
<1>2. /\ pages' = pages /\ next_page_id' = next_page_id /\ undo_page_id' = undo_page_id
      /\ gave_up' = gave_up /\ started' = started /\ clash' = clash
  BY DEF heapVars
<1>3. HeapTypeOK' /\ GivesUpOnlyOversize'
  BY ONLY <1>1, <1>2 DEF HeapTypeOK, GivesUpOnlyOversize
<1>4. /\ Store.pages = pages /\ Store.next = next_page_id /\ Store.undo = undo_page_id
      /\ Store.items = items
      /\ Store'.pages = pages' /\ Store'.next = next_page_id' /\ Store'.undo = undo_page_id'
      /\ Store'.items = items'
  BY DEF Store
<1>5. CASE CreateTable(t)
  <2>1. /\ MetaInv'
        /\ t \notin DOMAIN items /\ items' = WithItem(items, t, NewItem(t))
        /\ NewItem(t).first = INVALID_PAGE_ID /\ NewItem(t).last = INVALID_PAGE_ID
        /\ NewItem(t).rows = 0
    BY <1>1, <1>2, <1>5, MetaOfCreate
  <2> DEFINE item == NewItem(t)
  <2> HIDE DEF item
  <2>2. ASSUME NEW ch, PagesOK(Store, ch) PROVE \E ch2 : PagesOK(Store', ch2)
    <3>1. /\ t \notin DOMAIN Store.items /\ Store'.items = WithItem(Store.items, t, item)
          /\ item.first = INVALID_PAGE_ID /\ item.last = INVALID_PAGE_ID /\ item.rows = 0
          /\ Store'.pages = Store.pages /\ Store'.next = Store.next /\ Store'.undo = Store.undo
      BY ONLY <1>2, <1>4, <2>1 DEF item
    <3> QED
      BY ONLY <2>2, <3>1, TableAdded
  <2>3. clash \/ \E ch : PagesOK(Store, ch)
    BY DEF HeapInv
  <2>4. (clash \/ \E ch : PagesOK(Store, ch))'
    BY ONLY <1>2, <2>2, <2>3
  <2> QED
    BY ONLY <1>3, <2>1, <2>4 DEF HeapInv
<1>6. CASE CreateTableThrows(t)
  <2>1. /\ catalog' = catalog \union {t} /\ meta' = meta /\ items' = items /\ last_point' = last_point
        /\ table_size' = table_size /\ overrun' = overrun
    BY <1>6 DEF CreateTableThrows
  <2>2. MetaInv'
    <3>1. DOMAIN items \subseteq catalog \union {t}
      BY <1>1 DEF MetaInv
    <3> QED
      BY ONLY <1>1, <1>2, <2>1, <3>1 DEF MetaInv
  <2>3. clash \/ \E ch : PagesOK(Store, ch)
    BY DEF HeapInv
  <2>4. Store' = Store
    BY ONLY <1>2, <2>1 DEF Store
  <2>5. (clash \/ \E ch : PagesOK(Store, ch))'
    BY ONLY <1>2, <2>3, <2>4
  <2> QED
    BY ONLY <1>3, <2>2, <2>5 DEF HeapInv
<1> QED
  BY <1>5, <1>6

(* A directory without tables. *)
LEMMA EmptyDirectory ==
    ASSUME NEW page \in MetaCells
    PROVE  ItemsOK(<<>>) /\ MetaOK(page, <<>>, 0, ITEMS_OFFSET_BEGIN) /\ DOMAIN <<>> = {}
<1>1. DOMAIN <<>> = {} /\ <<>> \in [{} -> ItemRecs]
  OBVIOUS
<1>2. ItemsOK(<<>>)
  BY <1>1 DEF ItemsOK
<1> DEFINE ord == [i \in {} |-> i]
<1>3. 1 .. 0 = {} /\ ord \in [1 .. 0 -> DOMAIN <<>>]
  OBVIOUS
<1> HIDE DEF ord
<1>4. InOrder(<<>>, 0, ITEMS_OFFSET_BEGIN, ord)
  BY <1>1, <1>3 DEF InOrder
<1>5. MetaOK(page, <<>>, 0, ITEMS_OFFSET_BEGIN)
  BY <1>1, <1>4, MetaSizeAssumption DEF MetaOK, AllStored, ITEMS_OFFSET_BEGIN
<1> QED
  BY <1>1, <1>2, <1>5

(* A file without tables. *)
LEMMA NoPagesOK ==
    ASSUME NEW r, r.pages = [p \in PageIds |-> NoPage], r.undo = INVALID_PAGE_ID, r.items = <<>>
    PROVE  \E ch : PagesOK(r, ch)
<1> DEFINE ch == [u \in {} |-> u]
<1>1. DOMAIN ch = {} /\ DOMAIN r.items = {} /\ NoPage.kind = "none"
  BY DEF NoPage
<1> HIDE DEF ch
<1>2. /\ r.pages \in [PageIds -> PageSet] /\ \A p \in PageIds : r.pages[p].kind = "none"
  BY <1>1 DEF PageSet
<1>3. (\A p \in PageIds : PageOK(r.pages[p])) /\ Rolls(r.pages)
  BY ONLY <1>2 DEF PageOK, Rolls
<1>4. Linked(r, ch) /\ Counted(r, ch)
  BY ONLY <1>1, <1>2 DEF Linked, Counted
<1>5. PagesOK(r, ch)
  BY <1>2, <1>3, <1>4 DEF PagesOK
<1> QED
  BY ONLY <1>5

(* A process over the same pages and directory that has no undo page yet. *)
LEMMA ReopenedOK ==
    ASSUME NEW s, NEW ch, PagesOK(s, ch), NEW r, r.pages = s.pages, r.undo = INVALID_PAGE_ID,
           DOMAIN r.items = DOMAIN s.items, \A u \in DOMAIN s.items : r.items[u] = s.items[u]
    PROVE  PagesOK(r, ch)
<1>1. Linked(s, ch) /\ Counted(s, ch) /\ DOMAIN ch = DOMAIN s.items
  BY DEF PagesOK, Linked
<1>2. Linked(r, ch)
  BY <1>1 DEF Linked
<1>3. Counted(r, ch)
  BY <1>1 DEF Counted
<1> QED
  BY <1>2, <1>3 DEF PagesOK

(* The terminal is started again. *)
LEMMA TerminalStep ==
    ASSUME HeapInv, RestartTerminal
    PROVE  HeapInv'
<1>1. /\ next_page_id' = 1 /\ undo_page_id' = INVALID_PAGE_ID /\ gave_up' = {} /\ clash' = clash
      /\ started' = "terminal" /\ pages' = [p \in PageIds |-> NoPage]
      /\ items' = <<>> /\ last_point' = ITEMS_OFFSET_BEGIN /\ table_size' = 0 /\ catalog' = {}
      /\ overrun' = FALSE /\ meta' = meta
  BY DEF RestartTerminal, NewProcess, StartWithoutDirectory
<1>2. meta \in MetaCells /\ clash \in BOOLEAN
  BY DEF HeapInv, MetaInv, HeapTypeOK
<1>3. HeapTypeOK'
  BY ONLY <1>1, <1>2 DEF HeapTypeOK, INVALID_PAGE_ID
<1>4. MetaInv'
  <2>1. ItemsOK(<<>>) /\ MetaOK(meta, <<>>, 0, ITEMS_OFFSET_BEGIN) /\ DOMAIN <<>> = {}
    BY <1>2, EmptyDirectory
  <2>2. ITEMS_OFFSET_BEGIN \in Nat /\ "terminal" # "first"
    BY DEF ITEMS_OFFSET_BEGIN
  <2> QED
    BY ONLY <1>1, <1>2, <2>1, <2>2 DEF MetaInv
<1>5. GivesUpOnlyOversize'
  BY ONLY <1>1 DEF GivesUpOnlyOversize
<1>6. (\E ch : PagesOK(Store, ch))'
  <2>1. /\ Store'.pages = [p \in PageIds |-> NoPage] /\ Store'.undo = INVALID_PAGE_ID /\ Store'.items = <<>>
    BY ONLY <1>1 DEF Store
  <2>2. \E ch : PagesOK(Store', ch)
    BY ONLY <2>1, NoPagesOK
  <2> QED
    BY ONLY <2>2
<1> QED
  BY ONLY <1>3, <1>4, <1>5, <1>6 DEF HeapInv

(* A process that reads the directory. *)
LEMMA DirectoryStep ==
    ASSUME HeapInv, RestartFromDirectory
    PROVE  HeapInv'
<1>1. /\ next_page_id' = 1 /\ undo_page_id' = INVALID_PAGE_ID /\ gave_up' = {} /\ clash' = clash
      /\ started' = "directory" /\ pages' = pages /\ started = "first" /\ ~overrun
      /\ overrun' = overrun /\ catalog' = DOMAIN items'
  BY DEF RestartFromDirectory, NewProcess, StartFromDirectory
<1>2. /\ meta \in MetaCells /\ ItemsOK(items) /\ last_point \in Nat /\ table_size \in Nat
      /\ MetaOK(meta, items, table_size, last_point) /\ meta[1] = table_size
  BY <1>1 DEF HeapInv, MetaInv
<1>3. /\ meta' \in MetaCells /\ ItemsOK(items') /\ last_point' \in Nat /\ table_size' \in Nat
      /\ MetaOK(meta', items', table_size', last_point')
      /\ DOMAIN items' = DOMAIN items /\ \A u \in DOMAIN items : items'[u] = items[u]
  <2>1. CASE table_size > 0
    <3>1. items' = ReadMata(meta) /\ last_point' = EndOfItems(meta) /\ table_size' = meta[1] /\ meta' = meta
      BY <1>2, <2>1 DEF RestartFromDirectory, StartFromDirectory
    <3>2. ReadMata(meta) = items /\ EndOfItems(meta) = last_point
      <4>1. table_size \in Nat \ {0}
        BY ONLY <1>2, <2>1
      <4> QED
        BY ONLY <1>2, <4>1, DirectoryRead
    <3> QED
      BY ONLY <1>2, <3>1, <3>2
  <2>2. CASE ~(table_size > 0)
    <3>1. table_size = 0
      BY ONLY <1>2, <2>2
    <3>2. /\ items' = <<>> /\ last_point' = ITEMS_OFFSET_BEGIN /\ table_size' = 0
          /\ meta' = Write(meta, 0, <<0, 0, ITEMS_OFFSET_BEGIN>>)
      BY <1>2, <3>1 DEF RestartFromDirectory, StartFromDirectory
    <3>3. meta' \in MetaCells
      <4>1. <<0, 0, ITEMS_OFFSET_BEGIN>> \in Seq(Nat) /\ 0 \in Nat
        BY DEF ITEMS_OFFSET_BEGIN
      <4> QED
        BY <1>2, <3>2, <4>1, WriteCells
    <3>4. ItemsOK(<<>>) /\ MetaOK(meta', <<>>, 0, ITEMS_OFFSET_BEGIN) /\ DOMAIN <<>> = {}
      BY ONLY <3>3, EmptyDirectory
    <3>5. DOMAIN items = {}
      <4>1. PICK ord : InOrder(items, 0, last_point, ord)
        BY ONLY <1>2, <3>1 DEF MetaOK
      <4>2. \A t \in DOMAIN items : \E i \in 1 .. 0 : ord[i] = t
        BY ONLY <4>1 DEF InOrder
      <4>3. ASSUME NEW t \in DOMAIN items PROVE FALSE
        <5>1. PICK i \in 1 .. 0 : ord[i] = t
          BY ONLY <4>2, <4>3
        <5> QED
          BY ONLY <5>1
      <4> QED
        BY ONLY <4>3
    <3>6. ITEMS_OFFSET_BEGIN \in Nat
      BY DEF ITEMS_OFFSET_BEGIN
    <3> QED
      BY ONLY <3>2, <3>3, <3>4, <3>5, <3>6
  <2> QED
    BY ONLY <2>1, <2>2
<1>4. MetaInv'
  <2>1. started' # "first"
    BY ONLY <1>1
  <2>2. overrun' \in BOOLEAN
    <3>1. overrun \in BOOLEAN
      BY DEF HeapInv, MetaInv
    <3> QED
      BY ONLY <1>1, <3>1
  <2>3. DOMAIN items' \subseteq catalog'
    BY ONLY <1>1
  <2> QED
    BY ONLY <1>3, <2>1, <2>2, <2>3 DEF MetaInv
<1>5. HeapTypeOK'
  <2>1. HeapTypeOK
    BY DEF HeapInv
  <2> QED
    BY ONLY <1>1, <2>1 DEF HeapTypeOK, INVALID_PAGE_ID
<1>6. GivesUpOnlyOversize'
  BY ONLY <1>1 DEF GivesUpOnlyOversize
<1>7. ASSUME NEW ch, PagesOK(Store, ch) PROVE PagesOK(Store', ch)
  <2>1. /\ Store'.pages = Store.pages /\ Store'.undo = INVALID_PAGE_ID
        /\ Store'.items = items' /\ Store.items = items
    BY ONLY <1>1 DEF Store
  <2>2. /\ DOMAIN Store'.items = DOMAIN Store.items
        /\ \A u \in DOMAIN Store.items : Store'.items[u] = Store.items[u]
    BY ONLY <1>3, <2>1
  <2> QED
    BY ONLY <1>7, <2>1, <2>2, ReopenedOK
<1>8. clash \/ \E ch : PagesOK(Store, ch)
  BY DEF HeapInv
<1>9. (clash \/ \E ch : PagesOK(Store, ch))'
  BY ONLY <1>1, <1>7, <1>8
<1> QED
  BY ONLY <1>4, <1>5, <1>6, <1>9 DEF HeapInv

-----------------------------------------------------------------------------
(* The invariant holds in the initial state. *)
LEMMA HeapInitial == HeapInit => HeapInv
<1> SUFFICES ASSUME HeapInit PROVE HeapInv
  OBVIOUS
<1>1. /\ pages = [p \in PageIds |-> NoPage] /\ next_page_id = 1 /\ undo_page_id = INVALID_PAGE_ID
      /\ gave_up = {} /\ started = "first" /\ clash = FALSE
      /\ meta = [i \in 0 .. MetaSize - 1 |-> IF i = 2 THEN ITEMS_OFFSET_BEGIN ELSE 0]
      /\ items = <<>> /\ last_point = ITEMS_OFFSET_BEGIN /\ table_size = 0 /\ catalog = {}
      /\ overrun = FALSE
  BY DEF HeapInit, MetaInit
<1>2. HeapTypeOK
  <2>1. DOMAIN pages = PageIds /\ pages = [p \in PageIds |-> pages[p]]
    BY ONLY <1>1
  <2>2. next_page_id \in Nat \ {0} /\ undo_page_id \in Nat
    BY ONLY <1>1 DEF INVALID_PAGE_ID
  <2>3. started \in {"first", "terminal", "directory"}
    BY ONLY <1>1
  <2>4. clash \in BOOLEAN
    BY ONLY <1>1
  <2> QED
    BY ONLY <2>1, <2>2, <2>3, <2>4 DEF HeapTypeOK
<1>3. meta \in MetaCells /\ meta[1] = 0
  BY ONLY <1>1, MetaSizeAssumption DEF MetaCells, ITEMS_OFFSET_BEGIN
<1>4. MetaInv
  <2>1. ItemsOK(<<>>) /\ MetaOK(meta, <<>>, 0, ITEMS_OFFSET_BEGIN) /\ DOMAIN <<>> = {}
    BY ONLY <1>3, EmptyDirectory
  <2>2. ITEMS_OFFSET_BEGIN \in Nat
    BY DEF ITEMS_OFFSET_BEGIN
  <2> QED
    BY ONLY <1>1, <1>3, <2>1, <2>2 DEF MetaInv
<1>5. GivesUpOnlyOversize
  BY ONLY <1>1 DEF GivesUpOnlyOversize
<1>6. \E ch : PagesOK(Store, ch)
  <2>1. Store.pages = [p \in PageIds |-> NoPage] /\ Store.undo = INVALID_PAGE_ID /\ Store.items = <<>>
    BY ONLY <1>1 DEF Store
  <2> QED
    BY ONLY <2>1, NoPagesOK
<1> QED
  BY ONLY <1>2, <1>4, <1>5, <1>6 DEF HeapInv

(* Every step keeps the invariant. *)
LEMMA HeapStep == HeapInv /\ [HeapNext]_allVars => HeapInv'
<1> SUFFICES ASSUME HeapInv, [HeapNext]_allVars PROVE HeapInv'
  OBVIOUS
<1>1. CASE RestartTerminal
  BY <1>1, TerminalStep
<1>2. CASE RestartFromDirectory
  BY <1>2, DirectoryStep
<1>3. ASSUME NEW t \in Tables, CreateTable(t) \/ CreateTableThrows(t), UNCHANGED heapVars
      PROVE  HeapInv'
  BY <1>3, CreateStep
<1>4. ASSUME NEW t \in Tables, NEW size \in RowSizes, Insert(t, size) \/ InsertThrows(t, size)
      PROVE  HeapInv'
  BY <1>4, InsertStep
<1>5. ASSUME MayRun, NEW t \in Tables, t \in DOMAIN items, NEW rid \in Live(t),
             DeleteHit(t, rid) \/ UndoThrows(rid)
      PROVE  HeapInv'
  BY <1>5, DeleteStep
<1>6. ASSUME MayRun, NEW t \in Tables, t \in DOMAIN items, NEW rid \in Live(t), NEW size \in RowSizes,
             UpdateHit(t, rid, size) \/ UpdateDropsRow(t, rid, size)
      PROVE  HeapInv'
  BY <1>6, UpdateStep
<1>7. CASE UNCHANGED allVars
  <2>1. Store' = Store /\ clash' = clash
    BY <1>7 DEF allVars, heapVars, metaVars, Store
  <2>2. HeapTypeOK' /\ MetaInv' /\ GivesUpOnlyOversize'
    BY <1>7 DEF HeapInv, allVars, heapVars, metaVars, HeapTypeOK, MetaInv, GivesUpOnlyOversize
  <2>3. clash \/ \E ch : PagesOK(Store, ch)
    BY DEF HeapInv
  <2>4. (clash \/ \E ch : PagesOK(Store, ch))'
    BY ONLY <2>1, <2>3
  <2> QED
    BY ONLY <2>2, <2>4 DEF HeapInv
<1> QED
  BY <1>1, <1>2, <1>3, <1>4, <1>5, <1>6, <1>7 DEF HeapNext

-----------------------------------------------------------------------------
(***************************************************************************)
(* The inductive invariant holds in every state: for every sequence of     *)
(* statements and one restart, the directory, the pages and the chains of  *)
(* the tables agree as HeapInv says.                                       *)
(***************************************************************************)
THEOREM HeapInvariant == HeapSpec => []HeapInv
BY HeapInitial, HeapStep, PTL DEF HeapSpec

(* Extents of which one ends in front of the other; an extent in a range. *)
LEMMA ExtentsApart ==
    ASSUME NEW a \in Nat, NEW s \in Nat, NEW b \in Nat, NEW t \in Nat, NEW k \in Nat,
           a + k + s <= b \/ b + k + t <= a
    PROVE  (a .. a + k + s - 1) \intersect (b .. b + k + t - 1) = {}
OBVIOUS

LEMMA ExtentWithin ==
    ASSUME NEW a \in Nat, NEW s \in Nat, NEW k \in Nat, NEW lo \in Nat, NEW hi \in Int,
           lo <= a, a + k + s <= hi
    PROVE  (a .. a + k + s - 1) \subseteq lo .. hi - 1
OBVIOUS

(* What is read from a page that is packed. *)
LEMMA PackedDisjoint ==
    ASSUME NEW recs, NEW k \in Nat, NEW begin \in Nat, NEW end \in Nat,
           Len(recs) \in Nat,
           \A i \in 1 .. Len(recs) : recs[i].offset \in Nat /\ recs[i].size \in Nat,
           Packed(recs, k, begin, end)
    PROVE  /\ \A i, j \in 1 .. Len(recs) : i # j =>
                 (recs[i].offset .. recs[i].offset + k + recs[i].size - 1)
                    \intersect (recs[j].offset .. recs[j].offset + k + recs[j].size - 1) = {}
           /\ \A i \in 1 .. Len(recs) :
                 begin <= recs[i].offset /\ recs[i].offset + k + recs[i].size <= end
<1>1. \A i \in 1 .. Len(recs) :
         begin <= recs[i].offset /\ recs[i].offset + k + recs[i].size <= end
  BY DEF Packed
<1>2. \A i, j \in 1 .. Len(recs) : i < j => recs[i].offset + k + recs[i].size <= recs[j].offset
  BY DEF Packed
<1>3. ASSUME NEW i \in 1 .. Len(recs), NEW j \in 1 .. Len(recs), i # j
      PROVE  (recs[i].offset .. recs[i].offset + k + recs[i].size - 1)
                \intersect (recs[j].offset .. recs[j].offset + k + recs[j].size - 1) = {}
  <2>1. i < j \/ j < i
    BY <1>3
  <2>2. recs[i].offset + k + recs[i].size <= recs[j].offset
        \/ recs[j].offset + k + recs[j].size <= recs[i].offset
    BY ONLY <1>2, <1>3, <2>1
  <2>3. /\ recs[i].offset \in Nat /\ recs[i].size \in Nat
        /\ recs[j].offset \in Nat /\ recs[j].size \in Nat
    BY <1>3
  <2> DEFINE a == recs[i].offset
             s == recs[i].size
             b == recs[j].offset
             t == recs[j].size
  <2>4. /\ a \in Nat /\ s \in Nat /\ b \in Nat /\ t \in Nat /\ k \in Nat
        /\ a + k + s <= b \/ b + k + t <= a
    BY ONLY <2>2, <2>3, k \in Nat
  <2> HIDE DEF a, s, b, t
  <2>5. (a .. a + k + s - 1) \intersect (b .. b + k + t - 1) = {}
    BY ONLY <2>4, ExtentsApart
  <2> QED
    BY ONLY <2>5 DEF a, s, b, t
<1>4. \A i, j \in 1 .. Len(recs) : i # j =>
         (recs[i].offset .. recs[i].offset + k + recs[i].size - 1)
            \intersect (recs[j].offset .. recs[j].offset + k + recs[j].size - 1) = {}
  BY ONLY <1>3
<1> QED
  BY ONLY <1>1, <1>4

(* The bytes of the records of one page. *)
LEMMA PageBytes ==
    ASSUME NEW pg \in PageSet, PageOK(pg)
    PROVE  /\ pg.kind = "table" =>
                /\ \A i, j \in 1 .. Len(pg.recs) :
                      i # j => RecordBytes(pg.recs[i]) \intersect RecordBytes(pg.recs[j]) = {}
                /\ \A i \in 1 .. Len(pg.recs) :
                      RecordBytes(pg.recs[i]) \subseteq
                         HeaderSize .. PageSize - SlotSize * Len(pg.recs) - 1
           /\ pg.kind = "undo" =>
                /\ \A i, j \in 1 .. Len(pg.recs) :
                      i # j => ImageBytes(pg.recs[i]) \intersect ImageBytes(pg.recs[j]) = {}
                /\ \A i \in 1 .. Len(pg.recs) :
                      ImageBytes(pg.recs[i]) \subseteq UndoHeaderSize .. PageSize - 1
<1>1. /\ PageSize \in Nat /\ HeaderSize \in Nat /\ SlotSize \in Nat /\ UndoHeaderSize \in Nat
      /\ UndoRecordSize \in Nat
  BY PageSizeAssumption
<1> DEFINE n == Len(pg.recs)
           rs == pg.recs
<1>2. ASSUME pg.kind = "table"
      PROVE  /\ \A i, j \in 1 .. n : i # j => RecordBytes(rs[i]) \intersect RecordBytes(rs[j]) = {}
             /\ \A i \in 1 .. n : RecordBytes(rs[i]) \subseteq HeaderSize .. PageSize - SlotSize * n - 1
  <2>1. pg \in TablePages
    BY <1>2 DEF PageSet, NoPage, UndoPages
  <2>2. rs \in Seq(TableRecs)
    BY <2>1 DEF TablePages
  <2>3. n \in Nat /\ \A i \in 1 .. n : rs[i] \in TableRecs
    BY ONLY <2>2
  <2>4. \A i \in 1 .. n : rs[i].offset \in Nat /\ rs[i].size \in Nat
    BY ONLY <2>3 DEF TableRecs
  <2>5. PICK end \in Nat : Packed(rs, 0, HeaderSize, end) /\ end + SlotSize * n <= PageSize
    BY <1>2 DEF PageOK, TableOK
  <2> DEFINE slots == SlotSize * n
  <2>6. slots \in Nat /\ end + slots <= PageSize
    BY ONLY <1>1, <2>3, <2>5
  <2> HIDE DEF n, rs
  <2>7. 0 \in Nat /\ Len(rs) = n
    BY DEF n, rs
  <2>8. /\ \A i, j \in 1 .. n : i # j =>
               (rs[i].offset .. rs[i].offset + 0 + rs[i].size - 1)
                  \intersect (rs[j].offset .. rs[j].offset + 0 + rs[j].size - 1) = {}
        /\ \A i \in 1 .. n : HeaderSize <= rs[i].offset /\ rs[i].offset + 0 + rs[i].size <= end
    <3>1. /\ Len(rs) \in Nat
          /\ \A i \in 1 .. Len(rs) : rs[i].offset \in Nat /\ rs[i].size \in Nat
      BY ONLY <2>3, <2>4, <2>7
    <3>2. /\ \A i, j \in 1 .. Len(rs) : i # j =>
               (rs[i].offset .. rs[i].offset + 0 + rs[i].size - 1)
                  \intersect (rs[j].offset .. rs[j].offset + 0 + rs[j].size - 1) = {}
          /\ \A i \in 1 .. Len(rs) : HeaderSize <= rs[i].offset /\ rs[i].offset + 0 + rs[i].size <= end
      BY ONLY <1>1, <2>5, <2>7, <3>1, PackedDisjoint
    <3> QED
      BY ONLY <2>7, <3>2
  <2>9. \A i \in 1 .. n : RecordBytes(rs[i]) = rs[i].offset .. rs[i].offset + 0 + rs[i].size - 1
    <3> SUFFICES ASSUME NEW i \in 1 .. n
                 PROVE  RecordBytes(rs[i]) = rs[i].offset .. rs[i].offset + 0 + rs[i].size - 1
      OBVIOUS
    <3>1. rs[i].offset + 0 = rs[i].offset
      BY ONLY <2>4
    <3> QED
      BY ONLY <3>1 DEF RecordBytes
  <2>10. \A i, j \in 1 .. n : i # j => RecordBytes(rs[i]) \intersect RecordBytes(rs[j]) = {}
    BY ONLY <2>8, <2>9
  <2> HIDE DEF slots
  <2>11. ASSUME NEW i \in 1 .. n PROVE RecordBytes(rs[i]) \subseteq HeaderSize .. PageSize - slots - 1
    <3>1. /\ rs[i].offset \in Nat /\ rs[i].size \in Nat /\ 0 \in Nat /\ PageSize - slots \in Int
          /\ HeaderSize <= rs[i].offset /\ rs[i].offset + 0 + rs[i].size <= PageSize - slots
      <4>1. rs[i].offset \in Nat /\ rs[i].size \in Nat
        BY ONLY <2>4, <2>11
      <4>2. HeaderSize <= rs[i].offset /\ rs[i].offset + 0 + rs[i].size <= end
        BY ONLY <2>8, <2>11
      <4> QED
        BY ONLY <1>1, <2>6, <4>1, <4>2, end \in Nat
    <3> DEFINE a == rs[i].offset
               b == rs[i].size
               hi == PageSize - slots
    <3>2. RecordBytes(rs[i]) = a .. a + 0 + b - 1
      BY ONLY <2>9, <2>11
    <3>3. /\ a \in Nat /\ b \in Nat /\ 0 \in Nat /\ hi \in Int /\ HeaderSize \in Nat
          /\ HeaderSize <= a /\ a + 0 + b <= hi
      BY ONLY <1>1, <3>1
    <3> HIDE DEF a, b, hi
    <3>4. (a .. a + 0 + b - 1) \subseteq HeaderSize .. hi - 1
      BY ONLY <3>3, ExtentWithin
    <3>5. hi = PageSize - slots
      BY DEF hi
    <3> QED
      BY ONLY <3>2, <3>4, <3>5
  <2>12. slots = SlotSize * n
    BY DEF slots
  <2> QED
    BY ONLY <2>10, <2>11, <2>12
<1>3. ASSUME pg.kind = "undo"
      PROVE  /\ \A i, j \in 1 .. n : i # j => ImageBytes(rs[i]) \intersect ImageBytes(rs[j]) = {}
             /\ \A i \in 1 .. n : ImageBytes(rs[i]) \subseteq UndoHeaderSize .. PageSize - 1
  <2>1. pg \in UndoPages
    BY <1>3 DEF PageSet, NoPage, TablePages
  <2>2. rs \in Seq(ImageRecs) /\ pg.free_offset \in Nat
    BY <2>1 DEF UndoPages
  <2>3. n \in Nat /\ \A i \in 1 .. n : rs[i] \in ImageRecs
    BY ONLY <2>2
  <2>4. \A i \in 1 .. n : rs[i].offset \in Nat /\ rs[i].size \in Nat
    BY ONLY <2>3 DEF ImageRecs
  <2>5. Packed(rs, UndoRecordSize, UndoHeaderSize, pg.free_offset) /\ pg.free_offset <= PageSize
    BY <1>3 DEF PageOK, UndoOK
  <2> HIDE DEF n, rs
  <2>7. Len(rs) = n
    BY DEF n, rs
  <2>8. /\ \A i, j \in 1 .. n : i # j =>
               (rs[i].offset .. rs[i].offset + UndoRecordSize + rs[i].size - 1)
                  \intersect (rs[j].offset .. rs[j].offset + UndoRecordSize + rs[j].size - 1) = {}
        /\ \A i \in 1 .. n : /\ UndoHeaderSize <= rs[i].offset
                             /\ rs[i].offset + UndoRecordSize + rs[i].size <= pg.free_offset
    <3>1. /\ Len(rs) \in Nat
          /\ \A i \in 1 .. Len(rs) : rs[i].offset \in Nat /\ rs[i].size \in Nat
      BY ONLY <2>3, <2>4, <2>7
    <3>2. /\ \A i, j \in 1 .. Len(rs) : i # j =>
               (rs[i].offset .. rs[i].offset + UndoRecordSize + rs[i].size - 1)
                  \intersect (rs[j].offset .. rs[j].offset + UndoRecordSize + rs[j].size - 1) = {}
          /\ \A i \in 1 .. Len(rs) : /\ UndoHeaderSize <= rs[i].offset
                                     /\ rs[i].offset + UndoRecordSize + rs[i].size <= pg.free_offset
      BY ONLY <1>1, <2>2, <2>5, <3>1, PackedDisjoint
    <3> QED
      BY ONLY <2>7, <3>2
  <2>10. \A i, j \in 1 .. n : i # j => ImageBytes(rs[i]) \intersect ImageBytes(rs[j]) = {}
    BY ONLY <2>8 DEF ImageBytes
  <2>11. ASSUME NEW i \in 1 .. n PROVE ImageBytes(rs[i]) \subseteq UndoHeaderSize .. PageSize - 1
    <3>1. /\ rs[i].offset \in Nat /\ rs[i].size \in Nat /\ PageSize \in Int
          /\ UndoHeaderSize <= rs[i].offset
          /\ rs[i].offset + UndoRecordSize + rs[i].size <= PageSize
      <4>1. rs[i].offset \in Nat /\ rs[i].size \in Nat
        BY ONLY <2>4, <2>11
      <4>2. /\ UndoHeaderSize <= rs[i].offset
            /\ rs[i].offset + UndoRecordSize + rs[i].size <= pg.free_offset
        BY ONLY <2>8, <2>11
      <4> QED
        BY ONLY <1>1, <2>2, <2>5, <4>1, <4>2
    <3> DEFINE a == rs[i].offset
               b == rs[i].size
    <3>2. ImageBytes(rs[i]) = a .. a + UndoRecordSize + b - 1
      BY DEF ImageBytes
    <3>3. /\ a \in Nat /\ b \in Nat /\ UndoRecordSize \in Nat /\ PageSize \in Int
          /\ UndoHeaderSize \in Nat /\ UndoHeaderSize <= a /\ a + UndoRecordSize + b <= PageSize
      BY ONLY <1>1, <3>1
    <3> HIDE DEF a, b
    <3>4. (a .. a + UndoRecordSize + b - 1) \subseteq UndoHeaderSize .. PageSize - 1
      BY ONLY <3>3, ExtentWithin
    <3> QED
      BY ONLY <3>2, <3>4
  <2> QED
    BY ONLY <2>10, <2>11
<1> QED
  BY <1>2, <1>3

(***************************************************************************)
(* RecordsDisjoint, for any sizes of pages, headers and rows: InsertTuple  *)
(* and AppendUndoRecord never overwrite what is on the page.               *)
(***************************************************************************)
THEOREM RecordsAreDisjoint == HeapSpec => []RecordsDisjoint
<1>1. HeapInv => RecordsDisjoint
  <2> SUFFICES ASSUME HeapInv, ~clash PROVE RecordsDisjoint
    BY DEF RecordsDisjoint
  <2>1. PICK ch : PagesOK(Store, ch)
    BY DEF HeapInv
  <2>2. \A p \in PageIds : pages[p] \in PageSet /\ PageOK(pages[p])
    BY <2>1 DEF PagesOK, Store
  <2> QED
    BY <2>2, PageBytes DEF RecordsDisjoint, Disjoint
<1> QED
  BY <1>1, HeapInvariant, PTL

(***************************************************************************)
(* ChainComplete, for any number of tables and pages: no page of a table   *)
(* is lost, is in two tables or is met twice by TableIterator.             *)
(***************************************************************************)
THEOREM ChainsAreComplete == HeapSpec => []ChainComplete
<1>1. HeapInv => ChainComplete
  <2> SUFFICES ASSUME HeapInv, ~clash PROVE ChainComplete
    BY DEF ChainComplete
  <2>1. PICK ch : PagesOK(Store, ch)
    BY DEF HeapInv
  <2>2. /\ DOMAIN ch = DOMAIN items
        /\ \A t \in DOMAIN ch : Links(ch[t], items[t], pages)
        /\ \A t, u \in DOMAIN ch : t # u => Elements(ch[t]) \intersect Elements(ch[u]) = {}
        /\ \A p \in PageIds : pages[p].kind = "table" => \E t \in DOMAIN ch : p \in Elements(ch[t])
    BY <2>1 DEF PagesOK, Linked, Store
  <2>3. \A t \in DOMAIN items :
           /\ Chain(t) = ch[t] /\ ch[t] \in Seq(PageIds) /\ ToSet(Chain(t)) = Elements(ch[t])
           /\ Elements(ch[t]) \subseteq PageIds
           /\ \A p \in Elements(ch[t]) : pages[p].kind = "table"
    <3>1. \A t \in DOMAIN items :
             /\ Chain(t) = ch[t] /\ ch[t] \in Seq(PageIds) /\ ToSet(Chain(t)) = Elements(ch[t])
             /\ Elements(ch[t]) \subseteq PageIds
      BY <2>1, <2>2, ScanOfChains
    <3>2. ASSUME NEW t \in DOMAIN items, NEW p \in Elements(ch[t]) PROVE pages[p].kind = "table"
      BY ONLY <2>2, <3>2 DEF Links, Elements
    <3> QED
      BY ONLY <3>1, <3>2
  <2>4. ASSUME NEW t \in DOMAIN items
        PROVE  /\ IsInjective(Chain(t))
               /\ Chain(t) # <<>> => Last(Chain(t)) = items[t].last
               /\ Chain(t) = <<>> => items[t].last = INVALID_PAGE_ID
    <3>1. Links(ch[t], items[t], pages) /\ Chain(t) = ch[t] /\ ch[t] \in Seq(PageIds)
      BY ONLY <2>2, <2>3, <2>4
    <3>2. DOMAIN ch[t] = 1 .. Len(ch[t])
      BY ONLY <3>1
    <3>3. IsInjective(ch[t])
      BY ONLY <3>1, <3>2 DEF IsInjective, Links
    <3>4. ch[t] # <<>> => Last(ch[t]) = items[t].last
      BY ONLY <3>1 DEF Last, Links
    <3>5. ch[t] = <<>> => items[t].last = INVALID_PAGE_ID
      BY ONLY <3>1 DEF Links
    <3> QED
      BY ONLY <3>1, <3>3, <3>4, <3>5
  <2>5. \A t, u \in DOMAIN items : t # u => ToSet(Chain(t)) \intersect ToSet(Chain(u)) = {}
    BY ONLY <2>2, <2>3
  <2>6. {p \in PageIds : pages[p].kind = "table"} = UNION {ToSet(Chain(t)) : t \in DOMAIN items}
    <3>1. \A p : p \in UNION {ToSet(Chain(t)) : t \in DOMAIN items}
                 <=> \E t \in DOMAIN items : p \in Elements(ch[t])
      BY ONLY <2>3
    <3>2. \A p : p \in {q \in PageIds : pages[q].kind = "table"}
                 <=> \E t \in DOMAIN items : p \in Elements(ch[t])
      BY ONLY <2>2, <2>3
    <3> QED
      BY ONLY <3>1, <3>2
  <2> QED
    BY ONLY <2>4, <2>5, <2>6 DEF ChainComplete
<1> QED
  BY <1>1, HeapInvariant, PTL

(***************************************************************************)
(* RowCountIsScan, for any number of tables and rows: the count that       *)
(* INSERT, DELETE and UPDATE keep is what a scan finds.                    *)
(***************************************************************************)
THEOREM RowCountsAreScans == HeapSpec => []RowCountIsScan
<1>1. HeapInv => RowCountIsScan
  <2> SUFFICES ASSUME HeapInv, ~clash, NEW t \in DOMAIN items
               PROVE  items[t].rows = Cardinality(Live(t))
    BY DEF RowCountIsScan
  <2>1. PICK ch : PagesOK(Store, ch)
    BY DEF HeapInv
  <2>2. t \in DOMAIN ch /\ items[t].rows = Cardinality(LiveIn(pages, ch[t]))
    BY <2>1 DEF PagesOK, Linked, Counted, Store
  <2>3. Live(t) = LiveIn(pages, ch[t])
    BY ONLY <2>1, <2>2, LiveOfChains
  <2> QED
    BY ONLY <2>2, <2>3
<1> QED
  BY <1>1, HeapInvariant, PTL

(***************************************************************************)
(* UndoIsImage, for any sizes: the pointer that AppendUndoRecord returned  *)
(* leads to the image it wrote for as long as the record carries it.       *)
(***************************************************************************)
THEOREM UndoLeadsToImage == HeapSpec => []UndoIsImage
<1>1. HeapInv => UndoIsImage
  <2> SUFFICES ASSUME HeapInv, ~clash PROVE UndoIsImage
    BY DEF UndoIsImage
  <2>1. PICK ch : PagesOK(Store, ch)
    BY DEF HeapInv
  <2>2. DOMAIN ch = DOMAIN items /\ Rolls(pages)
    BY <2>1 DEF PagesOK, Linked, Store
  <2>3. ASSUME NEW t \in DOMAIN items, NEW rid \in Rids(t)
        PROVE  /\ rid.page \in PageIds /\ pages[rid.page].kind = "table"
               /\ rid.row \in 1 .. Len(pages[rid.page].recs)
    <3>1. /\ rid \in [page : Elements(ch[t]), row : Nat \ {0}]
          /\ rid.row <= Len(pages[rid.page].recs)
      BY <2>1, <2>2, <2>3, RidsOfChains
    <3>2. /\ Elements(ch[t]) \subseteq PageIds
          /\ \A p \in Elements(ch[t]) : pages[p] \in TablePages /\ pages[p].recs \in Seq(TableRecs)
      BY <2>1, <2>2, <2>3, ScanOfChains
    <3>3. rid.page \in Elements(ch[t]) /\ rid.row \in Nat \ {0}
      BY ONLY <3>1
    <3>4. pages[rid.page].kind = "table"
      BY ONLY <3>2, <3>3 DEF TablePages
    <3>5. Len(pages[rid.page].recs) \in Nat
      BY ONLY <3>2, <3>3
    <3> QED
      BY ONLY <3>1, <3>2, <3>3, <3>4, <3>5
  <2>4. ASSUME NEW t \in DOMAIN items, NEW rid \in Rids(t)
        PROVE  LET rec == pages[rid.page].recs[rid.row]
               IN  (rec.del => rec.roll # Null) /\ (rec.roll # Null => IsImage(pages, rec))
    BY ONLY <2>2, <2>3, <2>4 DEF Rolls
  <2> QED
    BY ONLY <2>4 DEF UndoIsImage, IsImage
<1> QED
  BY <1>1, HeapInvariant, PTL

(***************************************************************************)
(* GivesUpOnlyOversize, for any sizes: a full page never makes a statement *)
(* fail or an UPDATE drop its row.                                         *)
(***************************************************************************)
THEOREM OnlyOversizeIsRefused == HeapSpec => []GivesUpOnlyOversize
<1>1. HeapInv => GivesUpOnlyOversize
  BY DEF HeapInv
<1> QED
  BY <1>1, HeapInvariant, PTL

(***************************************************************************)
(* MetaReadsBack, for any tables, names and size of the meta page: what    *)
(* AddTable and the Update functions wrote, ReadMata reads, until an item  *)
(* has run over the page's end.                                            *)
(***************************************************************************)
THEOREM DirectoryReadsBack == HeapSpec => []MetaReadsBack
<1>1. HeapInv => MetaReadsBack
  <2> SUFFICES ASSUME HeapInv, ~overrun, table_size > 0
               PROVE  /\ ReadMata(meta) = items
                      /\ EndOfItems(meta) = last_point
                      /\ meta[2] = last_point
                      /\ meta[1] = table_size
    BY DEF MetaReadsBack
  <2>1. /\ ItemsOK(items) /\ table_size \in Nat
        /\ MetaOK(meta, items, table_size, last_point)
    BY DEF HeapInv, MetaInv
  <2>2. table_size \in Nat \ {0}
    BY <2>1
  <2>3. ReadMata(meta) = items /\ EndOfItems(meta) = last_point
    BY ONLY <2>1, <2>2, DirectoryRead
  <2>4. meta[2] = last_point /\ meta[1] = table_size
    BY <2>1 DEF MetaOK
  <2> QED
    BY ONLY <2>3, <2>4
<1> QED
  BY <1>1, HeapInvariant, PTL
=============================================================================
