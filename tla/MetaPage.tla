------------------------------ MODULE MetaPage ------------------------------
(***************************************************************************)
(* The meta page (src/src/buffer/meta_page.cpp): the directory of tables   *)
(* on page 0, its copy in memory, and CREATE TABLE.                        *)
(*                                                                         *)
(* The page is a function from positions to fields; a field of the code    *)
(* (eight bytes) and a unit of a name take one position each, a column's   *)
(* description one as well.  An item is, from its offset on: the length of *)
(* the name, the name, first page, row count, table id, last page, offset, *)
(* column count, columns.  In-place updates compute a field's position     *)
(* from the item's offset and the name length they read from the page.     *)
(***************************************************************************)
EXTENDS Naturals, FiniteSets, Sequences

CONSTANTS Tables,      \* ids of the tables that may be created
          NameLen,     \* length of a table's name
          Columns,     \* number of a table's columns
          MetaSize     \* positions of the meta page

ASSUME TablesAssumption == Tables \subseteq Nat \ {0}
ASSUME NameLenAssumption == NameLen \in [Tables -> Nat \ {0}]
ASSUME ColumnsAssumption == Columns \in [Tables -> Nat]
ASSUME MetaSizeAssumption == MetaSize \in Nat /\ MetaSize > 3

VARIABLES
    meta,        \* the meta page as fields: data_ of page 0
    items,       \* MetaPage::items_, the copy in memory
    last_point,  \* last_point_: where the next item goes
    table_size,  \* table_size_
    catalog,     \* Catalog::tables_: the names that are taken
    overrun      \* history: an item was written past the end of the page

metaVars == <<meta, items, last_point, table_size, catalog, overrun>>

INVALID_PAGE_ID == 0
ITEMS_OFFSET_BEGIN == 3
ITEM_FIXED_SIZE == 5

MetaInit ==
    /\ meta = [i \in 0 .. MetaSize - 1 |->
                 IF i = 2 THEN ITEMS_OFFSET_BEGIN ELSE 0]
    /\ items = <<>>
    /\ last_point = ITEMS_OFFSET_BEGIN
    /\ table_size = 0
    /\ catalog = {}
    /\ overrun = FALSE

-----------------------------------------------------------------------------
(* Writing fields: what lies past the end of the page does not reach it. *)
Write(page, at, fields) ==
    [i \in DOMAIN page |-> IF i \in at .. at + Len(fields) - 1
                           THEN fields[i - at + 1] ELSE page[i]]

(* The fields of an item in the order AddTable writes them. *)
ItemFields(t, item) ==
    <<item.len>> \o [i \in 1 .. item.len |-> t] \o
    <<item.first, item.rows, t, item.last, item.offset, item.columns>> \o
    [i \in 1 .. item.columns |-> t]

(* ReadMata: the offsets of the items, and the items found there. *)
ItemEnd(page, o) == o + 1 + page[o] + 6 + page[o + 1 + page[o] + 5]

ReadItem(page, o) ==
    LET b == o + 1 + page[o]
    IN  [first |-> page[b], rows |-> page[b + 1], last |-> page[b + 3],
         offset |-> o, len |-> page[o], columns |-> page[b + 5]]

ReadMata(page) ==
    LET off[i \in 1 .. page[1]] ==
            IF i = 1 THEN ITEMS_OFFSET_BEGIN ELSE ItemEnd(page, off[i - 1])
        id(o) == page[o + 1 + page[o] + 2]
        found == {off[i] : i \in 1 .. page[1]}
    IN  [t \in {id(o) : o \in found} |->
            ReadItem(page, CHOOSE o \in found : id(o) = t)]

-----------------------------------------------------------------------------
(* CREATE TABLE. *)

(* The item ExecutorCreateTable hands to AddTable. *)
NewItem(t) ==
    [first |-> INVALID_PAGE_ID, rows |-> 0, last |-> INVALID_PAGE_ID,
     offset |-> last_point, len |-> NameLen[t], columns |-> Columns[t]]

(* The room AddTable asks for: no offset, no column count, no columns. *)
NotEnoughSpace(t) == last_point + ITEM_FIXED_SIZE + NameLen[t] >= MetaSize

(* AddTable throws, after the binder has put the table into the catalog. *)
CreateTableThrows(t) ==
    /\ t \notin catalog
    /\ NotEnoughSpace(t)
    /\ catalog' = catalog \union {t}
    /\ UNCHANGED <<meta, items, last_point, table_size, overrun>>

CreateTable(t) ==
    LET fields == ItemFields(t, NewItem(t))
        end == last_point + Len(fields)
    IN  /\ t \notin catalog
        /\ ~NotEnoughSpace(t)
        /\ catalog' = catalog \union {t}
        /\ items' = [u \in DOMAIN items \union {t} |->
                        IF u = t THEN NewItem(t) ELSE items[u]]
        /\ last_point' = end
        /\ table_size' = table_size + 1
        /\ meta' = Write(Write(meta, last_point, fields), 1, <<table_size + 1, end>>)
        /\ overrun' = (overrun \/ end > MetaSize)

-----------------------------------------------------------------------------
(* In-place updates of the page by the executors and TablePage. *)

GetNameLen(page, t) == page[items[t].offset]

UpdateTableFirstId(page, t, p) ==
    Write(page, items[t].offset + 1 + GetNameLen(page, t), <<p>>)

UpdateTableRows(page, t, n) ==
    Write(page, items[t].offset + 1 + GetNameLen(page, t) + 1, <<n>>)

(* A plausible slip: the table id in front of the last page is forgotten. *)
UpdateTableLastIdNoId(page, t, p) ==
    Write(page, items[t].offset + 1 + GetNameLen(page, t) + 2, <<p>>)

UpdateTableLastId(page, t, p) ==
    Write(page, items[t].offset + 1 + GetNameLen(page, t) + 3, <<p>>)

-----------------------------------------------------------------------------
(* A new process over the same file. *)

(* The terminal's constructor never calls MetaPage::Init, and its Catalog  *)
(* is the empty one: the members start from their initialisers, and page 0 *)
(* stays as it is until the first CREATE TABLE writes over it.             *)
StartWithoutDirectory ==
    /\ items' = <<>>
    /\ last_point' = ITEMS_OFFSET_BEGIN
    /\ table_size' = 0
    /\ catalog' = {}
    /\ overrun' = FALSE
    /\ UNCHANGED meta

(* Where ReadMata ends, and with it last_point_. *)
EndOfItems(page) ==
    LET end[i \in 0 .. page[1]] ==
            IF i = 0 THEN ITEMS_OFFSET_BEGIN ELSE ItemEnd(page, end[i - 1])
    IN  end[page[1]]

(* Catalog(meta_page): MetaPage::Init reads a directory that is not empty  *)
(* and writes the header of an empty one; the catalog takes the tables.    *)
StartFromDirectory ==
    /\ IF meta[1] > 0
       THEN /\ items' = ReadMata(meta)
            /\ last_point' = EndOfItems(meta)
            /\ table_size' = meta[1]
            /\ UNCHANGED meta
       ELSE /\ items' = <<>>
            /\ last_point' = ITEMS_OFFSET_BEGIN
            /\ table_size' = 0
            /\ meta' = Write(meta, 0, <<0, 0, ITEMS_OFFSET_BEGIN>>)
    /\ catalog' = DOMAIN items'
    /\ UNCHANGED overrun

(***************************************************************************)
(* What a process that reads the meta page back finds is what this one has *)
(* in memory: after any sequence of CREATE TABLE and in-place updates of   *)
(* several items, in this process and in the ones before it, the fields    *)
(* written at computed offsets are where ReadMata looks for them (until an *)
(* item runs past the end of the page, which AddTable's check does not     *)
(* rule out, and from the first table of this process on).                 *)
(***************************************************************************)
MetaReadsBack ==
    ~overrun /\ table_size > 0 =>
        /\ ReadMata(meta) = items
        /\ EndOfItems(meta) = last_point
        /\ meta[2] = last_point
        /\ meta[1] = table_size
=============================================================================
