--------------------------- MODULE BufferManager ----------------------------
(***************************************************************************)
(* The buffer pool (src/src/buffer/buffer_manager.cpp) with its LRU list   *)
(* (src/src/include/buffer/lru_manager.h), over the data file              *)
(* (src/src/storage/posix_disk_manager.cpp).                               *)
(*                                                                         *)
(* Every operation runs under mutex_, so each is one action.  The callers  *)
(* are the directory, Redo, the executors, the table iterator, the undo    *)
(* log and the transaction manager; what they do with a page is Modify,    *)
(* and held counts the references they have not released yet.  A behaviour *)
(* is one run of the program, over a new file or one that earlier runs     *)
(* left: MetaPage's constructor fetches page 0, Redo fetches the pages the *)
(* log names, then statements make and fetch pages.  The contents of a     *)
(* page are an abstract value: Zero is a page of zero bytes (a new page,   *)
(* or a hole of the file), Junk what a frame holds that was never filled.  *)
(***************************************************************************)
EXTENDS Integers, Sequences, FiniteSets

CONSTANTS NumFrames,       \* max_pages_ (BUFFER_MAX_PAGE)
          MaxPageId,       \* bound: page ids handed out
          MaxPins,         \* bound: references callers hold to one page
          Contents,        \* what callers write into pages
          Zero, Junk,      \* two other contents
          LogMatchesFile   \* TRUE: the pages the log names are in the file

ASSUME FramesAssumption == NumFrames \in Nat \ {0}
ASSUME PagesAssumption == MaxPageId \in Nat
ASSUME PinsAssumption == MaxPins \in Nat \ {0}
ASSUME ContentsAssumption == Zero \notin Contents /\ Junk \notin Contents /\ Zero # Junk
ASSUME LogMatchesFileAssumption == LogMatchesFile \in BOOLEAN

Frames == 0 .. NumFrames - 1
PageIds == 0 .. MaxPageId
META_PAGE_ID == 0
NoFrame == -1
AllContents == Contents \union {Zero, Junk}

VARIABLES
    free_pages,     \* free_pages_: a vector, popped at the back
    buffer_pages,   \* buffer_pages_: the frame of a resident page, or NoFrame
    pin_count,      \* LRUManager::pin_count_
    lru,            \* LRUManager::list_, front first (map_ indexes it)
    frame,          \* frames_: page id, contents and dirty flag
    next_page_id,   \* PageIdUtil's counter, 1 in every new process
    recovered,      \* Recover has returned: statements may run
    disk,           \* the file: contents of each page
    file_size,      \* the file: pages below are inside it
    failbit,        \* the stream's failbit
    held,           \* callers: references to each page not yet released
    unwritten,      \* callers: new pages that have no contents yet
    latest          \* history: what was last put into each page, in this run or an
                    \* earlier one; Junk for a page that was given no contents

bufVars == <<free_pages, buffer_pages, pin_count, lru, frame, next_page_id, recovered,
             disk, file_size, failbit, held, unwritten, latest>>

BufTypeOK ==
    /\ free_pages \in Seq(Frames)
    /\ buffer_pages \in [PageIds -> Frames \union {NoFrame}]
    /\ pin_count \in [Frames -> Int]
    /\ lru \in Seq(Frames)
    /\ frame \in [Frames -> [id : PageIds, data : AllContents, dirty : BOOLEAN]]
    /\ next_page_id \in 1 .. (MaxPageId + 1)
    /\ recovered \in BOOLEAN
    /\ disk \in [PageIds -> AllContents]
    /\ file_size \in 0 .. (MaxPageId + 1)
    /\ failbit \in BOOLEAN
    /\ held \in [PageIds -> Nat]
    /\ unwritten \subseteq PageIds
    /\ latest \in [PageIds -> AllContents]

(* A new process: empty frames over the file that earlier runs left, whose *)
(* pages hold what they wrote or are holes, or over a new, empty file.     *)
BufInit ==
    /\ free_pages = [i \in 1 .. NumFrames |-> i - 1]
    /\ buffer_pages = [p \in PageIds |-> NoFrame]
    /\ pin_count = [f \in Frames |-> 0]
    /\ lru = <<>>
    /\ frame = [f \in Frames |-> [id |-> 0, data |-> Junk, dirty |-> FALSE]]
    /\ next_page_id = 1
    /\ recovered = FALSE
    /\ file_size \in 0 .. (MaxPageId + 1)
    /\ disk \in [PageIds -> Contents \union {Zero}]
    /\ \A p \in PageIds : p >= file_size => disk[p] = Zero
    /\ failbit = FALSE
    /\ held = [p \in PageIds |-> 0]
    /\ unwritten = {}
    /\ latest = [p \in PageIds |-> IF p < file_size THEN disk[p] ELSE Junk]

Resident(p) == buffer_pages[p] # NoFrame

(* MetaPage's constructor, the first caller, has got page 0. *)
Started == Resident(META_PAGE_ID)

(* Nobody but the directory holds a page. *)
NothingHeld == \A p \in PageIds \ {META_PAGE_ID} : held[p] = 0

-----------------------------------------------------------------------------
(* LRUManager. *)

(* list_.erase(map_[f]) when f is on the list. *)
Unlink(list, f) ==
    IF \E i \in 1 .. Len(list) : list[i] = f
    THEN LET i == CHOOSE i \in 1 .. Len(list) : list[i] = f
         IN  SubSeq(list, 1, i - 1) \o SubSeq(list, i + 1, Len(list))
    ELSE list

(* A plausible slip: the frame leaves the list but is not counted. *)
PinUncounted(f) ==
    /\ pin_count' = pin_count
    /\ lru' = Unlink(lru, f)

Pin(f) ==
    /\ pin_count' = [pin_count EXCEPT ![f] = @ + 1]
    /\ lru' = Unlink(lru, f)

(* A plausible slip: every release puts the frame on the LRU list. *)
UnPinAlwaysLists(f) ==
    /\ pin_count' = [pin_count EXCEPT ![f] = @ - 1]
    /\ lru' = <<f>> \o lru

UnPin(f) ==
    /\ pin_count' = [pin_count EXCEPT ![f] = @ - 1]
    /\ lru' = IF pin_count[f] = 1 THEN <<f>> \o lru ELSE lru

-----------------------------------------------------------------------------
(* PosixDiskManager. *)

(* A plausible slip: the file grows by a page too many. *)
WriteBackExtraPage(f) ==
    IF frame[f].dirty
    THEN [disk |-> [disk EXCEPT ![frame[f].id] = frame[f].data],
          size |-> IF frame[f].id >= file_size THEN frame[f].id + 2 ELSE file_size,
          fail |-> FALSE]
    ELSE [disk |-> disk, size |-> file_size, fail |-> failbit]

(* A plausible slip: a write does not clear the stream state. *)
WriteBackNoClear(f) ==
    IF frame[f].dirty /\ ~failbit
    THEN [disk |-> [disk EXCEPT ![frame[f].id] = frame[f].data],
          size |-> IF frame[f].id >= file_size THEN frame[f].id + 1 ELSE file_size,
          fail |-> FALSE]
    ELSE [disk |-> disk, size |-> file_size, fail |-> failbit]

(* The file and the stream state after Write(frame f), if f is dirty: a    *)
(* write clears the stream state and may extend the file.                  *)
WriteBack(f) ==
    IF frame[f].dirty
    THEN [disk |-> [disk EXCEPT ![frame[f].id] = frame[f].data],
          size |-> IF frame[f].id >= file_size THEN frame[f].id + 1 ELSE file_size,
          fail |-> FALSE]
    ELSE [disk |-> disk, size |-> file_size, fail |-> failbit]

SaveFrame(f) ==
    /\ disk' = WriteBack(f).disk
    /\ file_size' = WriteBack(f).size
    /\ failbit' = WriteBack(f).fail

(* Read(p): on a stream in the failed state, or past the end of the file,  *)
(* nothing is read, the frame keeps its bytes, and the failure sticks.     *)
ReadFails(p, io) == io.fail \/ p >= io.size

-----------------------------------------------------------------------------
(* The frame for a page that is not resident: the back of free_pages_, or  *)
(* else the victim of Evict, which throws when the list is empty.          *)
FrameAvailable == free_pages # <<>> \/ lru # <<>>
FrameTaken == IF free_pages # <<>> THEN free_pages[Len(free_pages)] ELSE lru[Len(lru)]

(* A plausible slip: the frame is left on the free list. *)
TakeFrameKeepsFree == free_pages' = free_pages

TakeFrame ==
    free_pages' = IF free_pages # <<>> THEN SubSeq(free_pages, 1, Len(free_pages) - 1)
                  ELSE free_pages

NewPage ==
    LET f == FrameTaken
        p == next_page_id
    IN  /\ Started /\ recovered
        /\ FrameAvailable
        /\ p <= MaxPageId
        /\ TakeFrame
        /\ Pin(f)
        /\ SaveFrame(f)
        /\ frame' = [frame EXCEPT ![f] = [id |-> p, data |-> Zero, dirty |-> FALSE]]
        /\ next_page_id' = p + 1
        /\ buffer_pages' = [buffer_pages EXCEPT ![p] = f]
        /\ held' = [held EXCEPT ![p] = 1]
        /\ unwritten' = unwritten \union {p}
        /\ latest' = [latest EXCEPT ![p] = Zero]
        /\ UNCHANGED recovered

(* FetchPage of a resident page. *)
FetchResident(p) ==
    /\ Resident(p) /\ held[p] < MaxPins
    /\ Pin(buffer_pages[p])
    /\ frame' = [frame EXCEPT ![buffer_pages[p]].id = p]
    /\ held' = [held EXCEPT ![p] = @ + 1]
    /\ UNCHANGED <<free_pages, buffer_pages, next_page_id, recovered, disk, file_size,
                   failbit, unwritten, latest>>

(***************************************************************************)
(* Who fetches what: first the directory its page, be the file empty or    *)
(* not; then Redo, one after the other, the pages that log records name,   *)
(* which are in the file when the log and the file belong together (a page *)
(* is forced before its record is) and may be any pages when they do not;  *)
(* then statements and roll-backs the pages that NewPage has made.         *)
(***************************************************************************)
Fetchable ==
    IF ~Started THEN {META_PAGE_ID}
    ELSE IF recovered THEN 0 .. next_page_id - 1
    ELSE {p \in PageIds : NothingHeld /\ (LogMatchesFile => p < file_size)}

(***************************************************************************)
(* FetchPage of a page that is not resident.  The frame's dirty flag is    *)
(* cleared only on the eviction path (ReadPage).                           *)
(***************************************************************************)
FetchLoad(p) ==
    LET f == FrameTaken
        io == WriteBack(f)
    IN  /\ ~Resident(p)
        /\ p \in Fetchable
        /\ FrameAvailable
        /\ TakeFrame
        /\ Pin(f)
        /\ frame' = [frame EXCEPT ![f] =
                       [id |-> p,
                        data |-> IF ReadFails(p, io) THEN @.data ELSE io.disk[p],
                        dirty |-> @.dirty /\ free_pages # <<>>]]
        /\ disk' = io.disk
        /\ file_size' = io.size
        /\ failbit' = ReadFails(p, io)
        /\ buffer_pages' = [buffer_pages EXCEPT ![p] = f]
        /\ held' = [held EXCEPT ![p] = 1]
        /\ UNCHANGED <<next_page_id, recovered, unwritten, latest>>

(* Recover returns: Redo has released every page it fetched. *)
RecoverReturns ==
    /\ Started /\ ~recovered
    /\ NothingHeld
    /\ recovered' = TRUE
    /\ UNCHANGED <<free_pages, buffer_pages, pin_count, lru, frame, next_page_id, disk,
                   file_size, failbit, held, unwritten, latest>>

(* A caller that holds the page changes it and sets is_dirty_. *)
Modify(p, v) ==
    /\ held[p] > 0
    /\ frame' = [frame EXCEPT ![buffer_pages[p]].data = v, ![buffer_pages[p]].dirty = TRUE]
    /\ latest' = [latest EXCEPT ![p] = v]
    /\ unwritten' = unwritten \ {p}
    /\ UNCHANGED <<free_pages, buffer_pages, pin_count, lru, next_page_id, recovered,
                   disk, file_size, failbit, held>>

(* Flush: throws on a page that is not resident. *)
Flush(p) ==
    /\ Resident(p)
    /\ SaveFrame(buffer_pages[p])
    /\ frame' = [frame EXCEPT ![buffer_pages[p]].dirty = FALSE]
    /\ UNCHANGED <<free_pages, buffer_pages, pin_count, lru, next_page_id, recovered,
                   held, unwritten, latest>>

(***************************************************************************)
(* Release by a caller that holds the page; it throws on a page that is    *)
(* not resident.  Whoever gets a new page writes its header first, and the *)
(* directory keeps its own reference until the process ends.               *)
(***************************************************************************)
Release(p) ==
    LET f == buffer_pages[p]
        last == pin_count[f] = 1
    IN  /\ held[p] > IF p = META_PAGE_ID THEN 1 ELSE 0
        /\ p \notin unwritten
        /\ Resident(p)
        /\ UnPin(f)
        /\ SaveFrame(f)
        /\ frame' = [frame EXCEPT ![f].dirty = FALSE]
        /\ free_pages' = IF last THEN <<f>> \o free_pages ELSE free_pages
        /\ buffer_pages' = IF last THEN [buffer_pages EXCEPT ![p] = NoFrame]
                                   ELSE buffer_pages
        /\ held' = [held EXCEPT ![p] = @ - 1]
        /\ UNCHANGED <<next_page_id, recovered, unwritten, latest>>

(* TouchPage: moves the frame to the front of the list if it is on it. *)
TouchPage(p) ==
    LET f == buffer_pages[p]
    IN  /\ Resident(p)
        /\ lru' = IF \E i \in 1 .. Len(lru) : lru[i] = f
                  THEN <<f>> \o Unlink(lru, f) ELSE lru
        /\ UNCHANGED <<free_pages, buffer_pages, pin_count, frame, next_page_id, recovered,
                       disk, file_size, failbit, held, unwritten, latest>>

BufNext ==
    \/ NewPage
    \/ RecoverReturns
    \/ \E p \in PageIds :
          \/ FetchResident(p)
          \/ FetchLoad(p)
          \/ \E v \in Contents : Modify(p, v)
          \/ Flush(p)
          \/ Release(p)
          \/ TouchPage(p)

BufSpec == BufInit /\ [][BufNext]_bufVars

-----------------------------------------------------------------------------
(***************************************************************************)
(* The free list is exact: NewPage, FetchPage and Release keep free_pages_ *)
(* holding exactly the frames that nobody has pinned, each once, so that   *)
(* no frame is handed out twice and none is lost.                          *)
(***************************************************************************)
FreeListExact ==
    /\ \A i, j \in 1 .. Len(free_pages) : free_pages[i] = free_pages[j] => i = j
    /\ \A f \in Frames :
          (\E i \in 1 .. Len(free_pages) : free_pages[i] = f) <=> pin_count[f] = 0

(***************************************************************************)
(* Pins are references: a resident page has a frame that carries its id    *)
(* and is pinned exactly as often as callers hold the page; a page nobody  *)
(* holds has left the pool.  Hence no frame is reused while in use.        *)
(***************************************************************************)
PinsAreReferences ==
    /\ \A p \in PageIds : Resident(p) =>
          /\ held[p] > 0
          /\ pin_count[buffer_pages[p]] = held[p]
          /\ frame[buffer_pages[p]].id = p
    /\ \A p \in PageIds : ~Resident(p) => held[p] = 0
    /\ \A f \in Frames : pin_count[f] # 0 => \E p \in PageIds : buffer_pages[p] = f

(***************************************************************************)
(* No write is lost: what was last put into a page, by this run or by an   *)
(* earlier one, is in its frame while it is resident and in the file while *)
(* it is not.  So although PosixDiskManager::Read does not look at the     *)
(* stream, and the directory's fetch from an empty file leaves it failed,  *)
(* no page that has contents is ever read through a failed stream.         *)
(***************************************************************************)
NoLostWrite ==
    \A p \in PageIds : latest[p] # Junk =>
        IF Resident(p) THEN frame[buffer_pages[p]].data = latest[p]
                       ELSE disk[p] = latest[p] /\ p < file_size

(***************************************************************************)
(* The LRU list only ever holds frames that are also on the free list.     *)
(* Hence when the free list is empty there is no victim: Evict throws, and *)
(* the branches of NewPage and FetchPage that reuse a victim (without      *)
(* removing its old entry from buffer_pages_) are never taken.             *)
(***************************************************************************)
LruWithinFree ==
    /\ \A i \in 1 .. Len(lru) : \E j \in 1 .. Len(free_pages) : free_pages[j] = lru[i]
    /\ \A i, j \in 1 .. Len(lru) : lru[i] = lru[j] => i = j
=============================================================================
