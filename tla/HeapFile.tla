------------------------------ MODULE HeapFile ------------------------------
(***************************************************************************)
(* The pages of tables and of the undo log: where records are placed, how  *)
(* a table grows by a page, how images of records are appended to the undo *)
(* log, and what happens to rows that do not fit                           *)
(* (src/src/storage/page/table_page.cpp, src/src/transaction/undo_log.cpp, *)
(* src/src/transaction/undo_log_manager.cpp and the placement parts of     *)
(* src/src/executor/executor_{insert,delete,update}.cpp).                  *)
(*                                                                         *)
(* A record is the extent its slot names, with its delete mark and undo    *)
(* pointer; its bytes are left out, and who sees it is MVCCTable's         *)
(* subject.  An INSERT is one action (it has one row); DELETE and UPDATE   *)
(* are one action per row they hit.  Log records and page LSNs are         *)
(* Recovery's subject.                                                     *)
(***************************************************************************)
EXTENDS MetaPage, SequencesExt

CONSTANTS PageSize, HeaderSize, SlotSize,   \* PAGE_SIZE, HEADER_SIZE, SLOT_SIZE
          UndoHeaderSize,                   \* kHeaderSize of an undo page
          UndoRecordSize,                   \* an undo record without its payload
          RowSizes,                         \* sizes of serialised rows
          MaxPages,                         \* bound: page ids
          RestartPages                      \* bound: pages a run may have allocated when it
                                            \* ends or, after a restart, starts a statement

ASSUME PageSizeAssumption ==
    /\ {PageSize, HeaderSize, SlotSize, UndoHeaderSize, UndoRecordSize} \subseteq Nat \ {0}
    /\ HeaderSize + SlotSize <= PageSize
    /\ UndoHeaderSize + UndoRecordSize <= PageSize
ASSUME RowSizesAssumption == RowSizes \subseteq Nat \ {0}
ASSUME MaxPagesAssumption == MaxPages \in Nat /\ RestartPages \in 0 .. MaxPages

VARIABLES
    pages,         \* contents of the pages
    next_page_id,  \* PageIdUtil's counter
    undo_page_id,  \* UndoLogManager::undo_page_id_
    gave_up,       \* history: operations that did without a row, and its size
    started,       \* history: the first run, or how the second was started
    clash          \* history: a page id in use was handed out again

heapVars == <<pages, next_page_id, undo_page_id, gave_up, started, clash>>
allVars == <<metaVars, heapVars>>

PageIds == 1 .. MaxPages
Null == [page |-> INVALID_PAGE_ID, slot |-> 0]

NoPage == [kind |-> "none"]

(* TablePage(read = false) and UndoLogPage::InitNew. *)
EmptyTablePage == [kind |-> "table", next |-> INVALID_PAGE_ID, recs |-> <<>>]
EmptyUndoPage == [kind |-> "undo", free_offset |-> UndoHeaderSize, recs |-> <<>>]

HeapInit ==
    /\ MetaInit
    /\ pages = [p \in PageIds |-> NoPage]
    /\ next_page_id = 1
    /\ undo_page_id = INVALID_PAGE_ID
    /\ gave_up = {}
    /\ started = "first"
    /\ clash = FALSE

-----------------------------------------------------------------------------
(* A table page. *)

(* The slots and records of a page, added up in the order of the slots. *)
UsedSize(recs) ==
    LET used[i \in 0 .. Len(recs)] ==
            IF i = 0 THEN 0 ELSE used[i - 1] + SlotSize + recs[i].size
    IN  used[Len(recs)]

(* free_size as the constructor computes it from the slots. *)
FreeSize(pg) == PageSize - HeaderSize - UsedSize(pg.recs)

(* A plausible slip: the slot is not counted. *)
HasSpaceForNoSlot(pg, size) == size <= FreeSize(pg)

HasSpaceFor(pg, size) == size + SlotSize <= FreeSize(pg)

(* A plausible slip: the slot of a new record is not counted. *)
CanInsertNoSlot(pg, size) == size <= FreeSize(pg)

(* The test at the head of InsertTuple. *)
CanInsert(pg, size) == size + SlotSize <= FreeSize(pg)

(* InsertTuple: behind the record of the last slot. *)
InsertTuple(pg, size, roll) ==
    LET n == Len(pg.recs)
        offset == IF n = 0 THEN HeaderSize ELSE pg.recs[n].offset + pg.recs[n].size
    IN  [pg EXCEPT !.recs = Append(@, [offset |-> offset, size |-> size,
                                       del |-> FALSE, roll |-> roll])]

-----------------------------------------------------------------------------
(* The scan of a table. *)

(* TableIterator: from the first page along the links, empty pages too. *)
Chain(t) ==
    LET walk[n \in 0 .. MaxPages] ==
            IF n = 0
            THEN IF items[t].first = INVALID_PAGE_ID THEN <<>> ELSE <<items[t].first>>
            ELSE LET c == walk[n - 1]
                 IN  IF c = <<>> \/ pages[Last(c)].next = INVALID_PAGE_ID THEN c
                     ELSE Append(c, pages[Last(c)].next)
    IN  walk[MaxPages]

Rids(t) ==
    UNION {{[page |-> p, row |-> r] : r \in 1 .. Len(pages[p].recs)} : p \in ToSet(Chain(t))}

Live(t) == {rid \in Rids(t) : ~pages[rid.page].recs[rid.row].del}

(* The pages a table's links or its records' undo pointers name. *)
InUse ==
    UNION {ToSet(Chain(t)) \union {pages[rid.page].recs[rid.row].roll.page : rid \in Rids(t)}
             : t \in DOMAIN items}

-----------------------------------------------------------------------------
(***************************************************************************)
(* A statement works on a store s: the pages, the page counter, the undo   *)
(* log's current page, the directory in memory and the meta page.          *)
(***************************************************************************)
Store == [pages |-> pages, next |-> next_page_id, undo |-> undo_page_id,
          items |-> items, meta |-> meta]

SetStore(s) ==
    /\ pages' = s.pages
    /\ next_page_id' = s.next
    /\ undo_page_id' = s.undo
    /\ items' = s.items
    /\ meta' = s.meta
    /\ clash' = (clash \/ (s.next > next_page_id
                            /\ (next_page_id .. s.next - 1) \intersect InUse # {}))
    /\ UNCHANGED <<last_point, table_size, catalog, overrun, started>>

(* BufferManager::NewPage, and the page's header. *)
NewPage(s, empty) == [s EXCEPT !.pages[s.next] = empty, !.next = @ + 1]

SetLast(s, t, p) == [s EXCEPT !.items[t].last = p, !.meta = UpdateTableLastId(@, t, p)]
SetFirst(s, t, p) == [s EXCEPT !.items[t].first = p, !.meta = UpdateTableFirstId(@, t, p)]

AddRows(s, t, n) ==
    [s EXCEPT !.items[t].rows = n, !.meta = UpdateTableRows(@, t, n)]

(* The first page of a table is allocated by its first INSERT. *)
OpenLastPage(s, t) ==
    IF s.items[t].last # INVALID_PAGE_ID THEN s
    ELSE LET new == SetLast(NewPage(s, EmptyTablePage), t, s.next)
         IN  IF new.items[t].first = INVALID_PAGE_ID THEN SetFirst(new, t, s.next) ELSE new

(* A plausible slip: the old page is not linked to the new one. *)
LinkNewPageUnlinked(s, t) == SetLast(NewPage(s, EmptyTablePage), t, s.next)

(* AllocateAndLinkNewPage. *)
LinkNewPage(s, t) ==
    LET new == NewPage(s, EmptyTablePage)
    IN  SetLast([new EXCEPT !.pages[s.items[t].last].next = s.next], t, s.next)

(* The table's last page, after a new one was linked if the row needs it. *)
MakeRoom(s, t, size) ==
    LET open == OpenLastPage(s, t)
    IN  IF HasSpaceFor(open.pages[open.items[t].last], size) THEN open
        ELSE LinkNewPage(open, t)

(* The row goes to the last page and is counted. *)
PlaceRow(s, t, size, roll) ==
    AddRows([s EXCEPT !.pages[s.items[t].last] = InsertTuple(@, size, roll)],
            t, s.items[t].rows + 1)

Fits(s, t, size) == CanInsert(s.pages[s.items[t].last], size)

-----------------------------------------------------------------------------
(* The undo log. *)

UndoHasSpaceFor(pg, size) == pg.free_offset + UndoRecordSize + size <= PageSize

(* AppendUndoRecord up to the append: the page the image is to go to. *)
UndoPage(s, size) ==
    LET fresh(x) == [NewPage(x, EmptyUndoPage) EXCEPT !.undo = x.next]
        current == IF s.undo = INVALID_PAGE_ID THEN fresh(s) ELSE s
    IN  IF UndoHasSpaceFor(current.pages[current.undo], size) THEN current
        ELSE fresh(current)

UndoFits(s, size) == UndoHasSpaceFor(s.pages[s.undo], size)

AppendRecord(pg, size) ==
    [pg EXCEPT !.free_offset = @ + UndoRecordSize + size,
               !.recs = Append(@, [offset |-> pg.free_offset, size |-> size])]

(* A plausible slip: the pointer names the offset after the append. *)
UndoPointerAfter(s) ==
    [page |-> s.undo, slot |-> s.pages[s.undo].free_offset + UndoRecordSize]

(* The pointer that the append on store s returns. *)
UndoPointer(s) == [page |-> s.undo, slot |-> s.pages[s.undo].free_offset]

SaveImage(s, size) == [s EXCEPT !.pages[s.undo] = AppendRecord(@, size)]

(* A plausible slip: the row is marked and not counted off. *)
MarkDeleteUncounted(s, t, rid, roll) ==
    [s EXCEPT !.pages[rid.page].recs[rid.row] = [@ EXCEPT !.del = TRUE, !.roll = roll]]

(* MarkDelete: the mark, the pointer to the image, the row count. *)
MarkDelete(s, t, rid, roll) ==
    AddRows([s EXCEPT !.pages[rid.page].recs[rid.row] = [@ EXCEPT !.del = TRUE, !.roll = roll]],
            t, IF s.items[t].rows > 0 THEN s.items[t].rows - 1 ELSE 0)

-----------------------------------------------------------------------------
(* Statements.  At most three pages are allocated by one row.  What the    *)
(* program makes of a page that is two things at once is left out.         *)
MayRun ==
    /\ ~overrun /\ ~clash
    /\ next_page_id + 3 <= MaxPages + 1
    /\ started # "first" => next_page_id <= RestartPages + 1

Insert(t, size) ==
    LET s == MakeRoom(Store, t, size)
    IN  /\ MayRun
        /\ t \in DOMAIN items
        /\ Fits(s, t, size)
        /\ SetStore(PlaceRow(s, t, size, Null))
        /\ UNCHANGED gave_up

(* "tuple too large for an empty page": the new pages stay in the chain. *)
InsertThrows(t, size) ==
    LET s == MakeRoom(Store, t, size)
    IN  /\ MayRun
        /\ t \in DOMAIN items
        /\ ~Fits(s, t, size)
        /\ SetStore(s)
        /\ gave_up' = gave_up \union {[op |-> "insert", size |-> size]}

RowSize(rid) == pages[rid.page].recs[rid.row].size

(* The row's image is in the undo log, and the row is marked. *)
Removed(s, t, rid) ==
    MarkDelete(SaveImage(s, RowSize(rid)), t, rid, UndoPointer(s))

DeleteHit(t, rid) ==
    LET s == UndoPage(Store, RowSize(rid))
    IN  /\ MayRun
        /\ UndoFits(s, RowSize(rid))
        /\ SetStore(Removed(s, t, rid))
        /\ UNCHANGED gave_up

(* AppendUndoRecord throws in DELETE or UPDATE; its new page stays. *)
UndoThrows(rid) ==
    LET s == UndoPage(Store, RowSize(rid))
    IN  /\ MayRun
        /\ ~UndoFits(s, RowSize(rid))
        /\ SetStore(s)
        /\ gave_up' = gave_up \union {[op |-> "undo", size |-> RowSize(rid)]}

UpdateHit(t, rid, size) ==
    LET s == UndoPage(Store, RowSize(rid))
        room == MakeRoom(Removed(s, t, rid), t, size)
    IN  /\ MayRun
        /\ UndoFits(s, RowSize(rid))
        /\ Fits(room, t, size)
        /\ SetStore(PlaceRow(room, t, size, UndoPointer(s)))
        /\ UNCHANGED gave_up

(* InsertNewVersion does not look at InsertTuple's result: the old version *)
(* is marked and there is no new one.                                      *)
UpdateDropsRow(t, rid, size) ==
    LET s == UndoPage(Store, RowSize(rid))
        room == MakeRoom(Removed(s, t, rid), t, size)
    IN  /\ MayRun
        /\ UndoFits(s, RowSize(rid))
        /\ ~Fits(room, t, size)
        /\ SetStore(room)
        /\ gave_up' = gave_up \union {[op |-> "update", size |-> size]}

(***************************************************************************)
(* The process ends and a new one is started.  Pages are forced to disk by *)
(* each statement; page ids and the undo log's page are not kept.          *)
(***************************************************************************)
NewProcess ==
    /\ started = "first" /\ next_page_id <= RestartPages + 1
    /\ next_page_id' = 1
    /\ undo_page_id' = INVALID_PAGE_ID
    /\ gave_up' = {}
    /\ UNCHANGED clash

(* The terminal: no table is known, so no page of the file is ever read    *)
(* before NewPage has given it a new header.                               *)
RestartTerminal ==
    /\ NewProcess
    /\ StartWithoutDirectory
    /\ started' = "terminal"
    /\ pages' = [p \in PageIds |-> NoPage]

(* A program that hands the meta page to its Catalog. *)
RestartFromDirectory ==
    /\ NewProcess
    /\ ~overrun
    /\ StartFromDirectory
    /\ started' = "directory"
    /\ UNCHANGED pages

(* Ids of tables start from 1 again too: a table made beside those of the  *)
(* file would take the id of one of them, which is left out.               *)
MayCreate == started # "directory"

HeapNext ==
    \/ RestartTerminal \/ RestartFromDirectory
    \/ \E t \in Tables :
          \/ /\ MayCreate
             /\ CreateTable(t) \/ CreateTableThrows(t)
             /\ UNCHANGED heapVars
          \/ \E size \in RowSizes : Insert(t, size) \/ InsertThrows(t, size)
          \/ /\ MayRun /\ t \in DOMAIN items
             /\ \E rid \in Live(t) :
                  \/ DeleteHit(t, rid)
                  \/ UndoThrows(rid)
                  \/ \E size \in RowSizes :
                        UpdateHit(t, rid, size) \/ UpdateDropsRow(t, rid, size)

HeapSpec == HeapInit /\ [][HeapNext]_allVars

-----------------------------------------------------------------------------
(* The bytes of a record and of an image. *)
RecordBytes(r) == r.offset .. r.offset + r.size - 1
ImageBytes(r) == r.offset .. r.offset + UndoRecordSize + r.size - 1

Disjoint(n, bytes(_)) == \A i, j \in 1 .. n : i # j => bytes(i) \intersect bytes(j) = {}

(***************************************************************************)
(* What was written is not overwritten: the records of a table page lie    *)
(* behind its header and in front of its slots and share no byte, and so   *)
(* do the images of an undo page, for rows that fill a page to the last    *)
(* byte as well.                                                           *)
(***************************************************************************)
RecordsDisjoint == clash \/
    \A p \in PageIds :
        LET pg == pages[p]
            n == Len(pg.recs)
        IN  /\ pg.kind = "table" =>
                 /\ Disjoint(n, LAMBDA i : RecordBytes(pg.recs[i]))
                 /\ \A i \in 1 .. n :
                      RecordBytes(pg.recs[i]) \subseteq HeaderSize .. PageSize - SlotSize * n - 1
            /\ pg.kind = "undo" =>
                 /\ Disjoint(n, LAMBDA i : ImageBytes(pg.recs[i]))
                 /\ \A i \in 1 .. n :
                      ImageBytes(pg.recs[i]) \subseteq UndoHeaderSize .. PageSize - 1

(***************************************************************************)
(* The links are complete: from a table's first page they lead to each of  *)
(* its pages once and end at the page the directory calls the last; no     *)
(* page is in two tables or is lost, also when rows that do not fit have   *)
(* left empty pages behind, and after a restart until a page id in use is  *)
(* handed out again.                                                       *)
(***************************************************************************)
ChainComplete == clash \/
    /\ \A t \in DOMAIN items :
         /\ IsInjective(Chain(t))
         /\ Chain(t) # <<>> => Last(Chain(t)) = items[t].last
         /\ Chain(t) = <<>> => items[t].last = INVALID_PAGE_ID
    /\ \A t, u \in DOMAIN items : t # u => ToSet(Chain(t)) \intersect ToSet(Chain(u)) = {}
    /\ {p \in PageIds : pages[p].kind = "table"} = UNION {ToSet(Chain(t)) : t \in DOMAIN items}

(***************************************************************************)
(* The row count that the directory keeps by increments is the number of   *)
(* unmarked records a scan along the links finds.                          *)
(***************************************************************************)
RowCountIsScan ==
    ~clash => \A t \in DOMAIN items : items[t].rows = Cardinality(Live(t))

(***************************************************************************)
(* A marked record's undo pointer leads to an image of its own size: the   *)
(* pointer names the page and the offset the image really went to, also    *)
(* when the append had to change pages.                                    *)
(***************************************************************************)
UndoIsImage == clash \/
    \A t \in DOMAIN items : \A rid \in Rids(t) :
        LET rec == pages[rid.page].recs[rid.row]
        IN  /\ rec.del => rec.roll # Null
            /\ rec.roll # Null =>
                 /\ pages[rec.roll.page].kind = "undo"
                 /\ \E i \in 1 .. Len(pages[rec.roll.page].recs) :
                      LET img == pages[rec.roll.page].recs[i]
                      IN  img.offset = rec.roll.slot /\ (rec.del => img.size = rec.size)

(***************************************************************************)
(* An operation does without a row only if the row fits no empty page:     *)
(* INSERT rejects it, UPDATE drops the new version, the undo log refuses   *)
(* the image.  A page that is merely full never makes a statement fail or  *)
(* an UPDATE lose its row.                                                 *)
(***************************************************************************)
GivesUpOnlyOversize ==
    \A g \in gave_up :
        IF g.op = "undo" THEN UndoHeaderSize + UndoRecordSize + g.size > PageSize
        ELSE HeaderSize + SlotSize + g.size > PageSize
=============================================================================
