------------------------ MODULE BufferManagerProofs -------------------------
(***************************************************************************)
(* Proofs about BufferManager for a pool of any size and any number of     *)
(* pages, references and contents.                                         *)
(***************************************************************************)
EXTENDS BufferManager, SequenceTheorems, TLAPS

In(s, x) == \E i \in 1 .. Len(s) : s[i] = x
Distinct(s) == \A i, j \in 1 .. Len(s) : s[i] = s[j] => i = j

(***************************************************************************)
(* The inductive invariant.  PoolInv is about the pool alone, whatever     *)
(* Redo fetches.  FreeIsClean: Release cleans the frame it frees, so that  *)
(* a free frame can be reused without a write.  NotYetMade: once Recover   *)
(* has returned, page ids that PageIdUtil has not handed out are unused.   *)
(* DataInv is about what the pages hold, when the log and the file belong  *)
(* together.  CleanIsStored: a page whose frame is clean is in the file as *)
(* it is, unless it is new and its header has not been written.            *)
(* FailedIsEmpty: the stream is only failed while nothing was written, so  *)
(* no page with contents can be read through it.  MadeHasContents: a page  *)
(* of NewPage is never one without contents.                               *)
(***************************************************************************)
FreeIsClean == \A f \in Frames : pin_count[f] = 0 => ~frame[f].dirty

NotYetMade ==
    /\ ~recovered => next_page_id = 1 /\ unwritten = {}
    /\ recovered => \A p \in PageIds : p >= next_page_id => ~Resident(p)
    /\ \A p \in unwritten : p < next_page_id

PoolInv ==
    /\ BufTypeOK
    /\ FreeListExact
    /\ LruWithinFree
    /\ PinsAreReferences
    /\ FreeIsClean
    /\ NotYetMade

CleanIsStored ==
    \A p \in PageIds :
        /\ p \in unwritten => Resident(p) /\ ~frame[buffer_pages[p]].dirty
        /\ /\ Resident(p) /\ p \notin unwritten
           /\ ~frame[buffer_pages[p]].dirty
           /\ latest[p] # Junk
           => disk[p] = latest[p] /\ p < file_size

FailedIsEmpty == failbit => file_size = 0

MadeHasContents ==
    \A p \in PageIds : p < next_page_id /\ p # META_PAGE_ID => latest[p] # Junk

DataInv == NoLostWrite /\ CleanIsStored /\ FailedIsEmpty /\ MadeHasContents

BufInv == PoolInv /\ (LogMatchesFile => DataInv)

-----------------------------------------------------------------------------
(* Lists without repetitions. *)

(* pop_back of free_pages_ takes the last element away and no other. *)
LEMMA PopBack ==
    ASSUME NEW S, NEW s \in Seq(S), s # <<>>, Distinct(s)
    PROVE  LET t == SubSeq(s, 1, Len(s) - 1)
           IN  /\ t \in Seq(S)
               /\ Distinct(t)
               /\ s[Len(s)] \in S
               /\ In(s, s[Len(s)])
               /\ \A x : In(t, x) <=> In(s, x) /\ x # s[Len(s)]
<1> DEFINE n == Len(s)
           t == SubSeq(s, 1, n - 1)
<1>1. n \in Nat /\ n > 0 /\ \A i \in 1 .. n : s[i] \in S
  BY EmptySeq, LenProperties, ElementOfSeq
<1>2. t \in Seq(S) /\ Len(t) = n - 1 /\ \A i \in 1 .. n - 1 : t[i] = s[i]
  <2>1. \A i \in 1 .. n - 1 : s[i] \in S
    BY <1>1
  <2>2. 1 \in Int /\ n - 1 \in Int
    BY <1>1
  <2>3. /\ t \in Seq(S)
        /\ Len(t) = IF 1 <= n - 1 THEN (n - 1) - 1 + 1 ELSE 0
        /\ \A i \in 1 .. (n - 1) - 1 + 1 : t[i] = s[1 + i - 1]
    BY <2>1, <2>2, SubSeqProperties
  <2> HIDE DEF t
  <2>4. \A i \in 1 .. n - 1 : i \in 1 .. (n - 1) - 1 + 1 /\ 1 + i - 1 = i
    BY <1>1
  <2>5. Len(t) = n - 1
    <3> HIDE DEF n
    <3> QED  BY <1>1, <2>3
  <2>6. \A i \in 1 .. n - 1 : t[i] = s[i]
    BY <2>3, <2>4
  <2> QED
    BY <2>3, <2>5, <2>6
<1> HIDE DEF t
<1>3. Distinct(t)
  BY <1>1, <1>2 DEF Distinct
<1>4. ASSUME NEW x PROVE In(t, x) <=> In(s, x) /\ x # s[n]
  BY <1>1, <1>2 DEF In, Distinct
<1>5. In(s, s[n])
  BY <1>1 DEF In
<1> QED
  BY <1>1, <1>2, <1>3, <1>4, <1>5 DEF t

(* Insertion at the front of free_pages_, and push_front of the LRU list. *)
LEMMA PushFront ==
    ASSUME NEW S, NEW s \in Seq(S), NEW f \in S, Distinct(s), ~In(s, f)
    PROVE  LET t == <<f>> \o s
           IN  /\ t \in Seq(S)
               /\ Distinct(t)
               /\ \A x : In(t, x) <=> In(s, x) \/ x = f
<1> DEFINE t == <<f>> \o s
<1>1. Len(s) \in Nat /\ <<f>> \in Seq(S) /\ Len(<<f>>) = 1 /\ <<f>>[1] = f
  BY LenProperties
<1>2. /\ t \in Seq(S)
      /\ Len(t) = Len(s) + 1
      /\ \A i \in 1 .. Len(s) + 1 : t[i] = IF i = 1 THEN f ELSE s[i - 1]
  BY <1>1, ConcatProperties
<1> HIDE DEF t
<1>3. Distinct(t)
  <2> SUFFICES ASSUME NEW i \in 1 .. Len(t), NEW j \in 1 .. Len(t), t[i] = t[j]
               PROVE  i = j
    BY DEF Distinct
  <2>1. CASE i = 1 /\ j = 1
    BY <2>1
  <2>2. CASE i = 1 /\ j # 1
    BY <1>1, <1>2, <2>2 DEF In
  <2>3. CASE i # 1 /\ j = 1
    BY <1>1, <1>2, <2>3 DEF In
  <2>4. CASE i # 1 /\ j # 1
    BY <1>1, <1>2, <2>4, SMTT(30) DEF Distinct
  <2> QED
    BY <2>1, <2>2, <2>3, <2>4
<1>4. ASSUME NEW x PROVE In(t, x) <=> In(s, x) \/ x = f
  <2>1. ASSUME In(t, x) PROVE In(s, x) \/ x = f
    BY <1>1, <1>2, <2>1 DEF In
  <2>2. ASSUME x = f PROVE In(t, x)
    BY <1>1, <1>2, <2>2 DEF In
  <2>3. ASSUME In(s, x) PROVE In(t, x)
    <3> PICK i \in 1 .. Len(s) : s[i] = x
      BY <2>3 DEF In
    <3>1. i + 1 \in 1 .. Len(t) /\ t[i + 1] = x
      BY <1>1, <1>2
    <3> QED
      BY <3>1 DEF In
  <2> QED
    BY <2>1, <2>2, <2>3
<1> QED
  BY <1>2, <1>3, <1>4 DEF t

(* Unlink takes an element off the list and leaves the others on it. *)
LEMMA UnlinkProperties ==
    ASSUME NEW S, NEW s \in Seq(S), NEW f, Distinct(s)
    PROVE  /\ Unlink(s, f) \in Seq(S)
           /\ Distinct(Unlink(s, f))
           /\ \A x : In(Unlink(s, f), x) <=> In(s, x) /\ x # f
           /\ ~In(s, f) => Unlink(s, f) = s
<1>1. CASE ~In(s, f)
  BY <1>1 DEF Unlink, In
<1>2. CASE In(s, f)
  <2> DEFINE k == CHOOSE i \in 1 .. Len(s) : s[i] = f
             a == SubSeq(s, 1, k - 1)
             b == SubSeq(s, k + 1, Len(s))
             t == a \o b
  <2>1. k \in 1 .. Len(s) /\ s[k] = f
    BY <1>2 DEF In
  <2>2. Unlink(s, f) = t
    BY <1>2 DEF Unlink, In
  <2> HIDE DEF k
  <2>3. Len(s) \in Nat /\ \A i \in 1 .. Len(s) : s[i] \in S
    BY LenProperties, ElementOfSeq
  <2>4. a \in Seq(S) /\ Len(a) = k - 1 /\ \A i \in 1 .. k - 1 : a[i] = s[i]
    <3>1. (\A i \in 1 .. k - 1 : s[i] \in S) /\ 1 \in Int /\ k - 1 \in Int
      BY <2>1, <2>3
    <3>2. /\ a \in Seq(S)
          /\ Len(a) = IF 1 <= k - 1 THEN (k - 1) - 1 + 1 ELSE 0
          /\ \A i \in 1 .. (k - 1) - 1 + 1 : a[i] = s[1 + i - 1]
      BY <3>1, SubSeqProperties
    <3> QED
      BY <2>1, <2>3, <3>2
  <2>5. b \in Seq(S) /\ Len(b) = Len(s) - k /\ \A i \in 1 .. Len(s) - k : b[i] = s[k + i]
    <3>1. (\A i \in k + 1 .. Len(s) : s[i] \in S) /\ k + 1 \in Int /\ Len(s) \in Int
      BY <2>1, <2>3
    <3>2. /\ b \in Seq(S)
          /\ Len(b) = IF k + 1 <= Len(s) THEN Len(s) - (k + 1) + 1 ELSE 0
          /\ \A i \in 1 .. Len(s) - (k + 1) + 1 : b[i] = s[(k + 1) + i - 1]
      BY <3>1, SubSeqProperties
    <3> QED
      BY <2>1, <2>3, <3>2
  <2> HIDE DEF a, b
  <2>6. /\ t \in Seq(S)
        /\ Len(t) = Len(s) - 1
        /\ \A i \in 1 .. Len(s) - 1 : t[i] = IF i < k THEN s[i] ELSE s[i + 1]
    <3>1. /\ t \in Seq(S)
          /\ Len(t) = Len(a) + Len(b)
          /\ \A i \in 1 .. Len(a) + Len(b) :
               t[i] = IF i <= Len(a) THEN a[i] ELSE b[i - Len(a)]
      BY <2>4, <2>5, ConcatProperties
    <3> HIDE DEF t
    <3>2. ASSUME NEW i \in 1 .. Len(s) - 1
          PROVE  t[i] = IF i < k THEN s[i] ELSE s[i + 1]
      <4>1. i \in 1 .. Len(a) + Len(b) /\ i \in Int /\ k \in Int
        BY <2>1, <2>3, <2>4, <2>5
      <4>2. CASE i < k
        BY <2>1, <2>3, <2>4, <3>1, <4>1, <4>2
      <4>3. CASE ~(i < k)
        <5>1. i - Len(a) \in 1 .. Len(s) - k /\ k + (i - Len(a)) = i + 1 /\ ~(i <= Len(a))
          BY <2>1, <2>3, <2>4, <4>1, <4>3
        <5> QED
          BY <2>5, <3>1, <4>1, <4>3, <5>1
      <4> QED
        BY <4>2, <4>3
    <3> QED
      BY <2>1, <2>3, <2>4, <2>5, <3>1, <3>2
  <2> HIDE DEF t
  <2>7. Distinct(t)
    BY <2>1, <2>3, <2>6, SMTT(30) DEF Distinct
  <2>8. ASSUME NEW x PROVE In(t, x) <=> In(s, x) /\ x # f
    <3>1. ASSUME In(t, x) PROVE In(s, x) /\ x # f
      BY <2>1, <2>3, <2>6, <3>1 DEF In, Distinct
    <3>2. ASSUME In(s, x), x # f PROVE In(t, x)
      <4> PICK i \in 1 .. Len(s) : s[i] = x
        BY <3>2 DEF In
      <4>1. CASE i < k
        BY <2>1, <2>3, <2>6, <4>1 DEF In
      <4>2. CASE i > k
        <5>1. i - 1 \in 1 .. Len(t) /\ t[i - 1] = x
          BY <2>1, <2>3, <2>6, <4>2
        <5> QED
          BY <5>1 DEF In
      <4> QED
        BY <2>1, <3>2, <4>1, <4>2
    <3> QED
      BY <3>1, <3>2
  <2> QED
    BY <1>2, <2>2, <2>6, <2>7, <2>8
<1> QED
  BY <1>1, <1>2

-----------------------------------------------------------------------------
(* What the invariant says of lists, with In and Distinct. *)
LEMMA ListForm ==
    /\ FreeListExact <=>
         Distinct(free_pages) /\ \A f \in Frames : In(free_pages, f) <=> pin_count[f] = 0
    /\ LruWithinFree <=>
         Distinct(lru) /\ \A x : In(lru, x) => In(free_pages, x)
<1>1. FreeListExact <=>
         Distinct(free_pages) /\ \A f \in Frames : In(free_pages, f) <=> pin_count[f] = 0
  BY DEF FreeListExact, In, Distinct
<1>2. LruWithinFree => Distinct(lru) /\ \A x : In(lru, x) => In(free_pages, x)
  BY DEF LruWithinFree, In, Distinct
<1>3. Distinct(lru) /\ (\A x : In(lru, x) => In(free_pages, x)) => LruWithinFree
  BY DEF LruWithinFree, In, Distinct
<1> QED
  BY <1>1, <1>2, <1>3

(* The frame of a resident page is pinned, on neither list, and its own. *)
LEMMA ResidentFrame ==
    ASSUME PoolInv, NEW p \in PageIds, Resident(p)
    PROVE  /\ buffer_pages[p] \in Frames
           /\ held[p] > 0
           /\ pin_count[buffer_pages[p]] = held[p]
           /\ ~In(free_pages, buffer_pages[p])
           /\ ~In(lru, buffer_pages[p])
           /\ \A q \in PageIds : buffer_pages[q] = buffer_pages[p] => q = p
<1>1. buffer_pages[p] \in Frames
  BY DEF PoolInv, BufTypeOK, Resident
<1>2. held[p] > 0 /\ pin_count[buffer_pages[p]] = held[p] /\ held[p] \in Nat
  BY DEF PoolInv, BufTypeOK, PinsAreReferences
<1>3. ~In(free_pages, buffer_pages[p]) /\ ~In(lru, buffer_pages[p])
  BY <1>1, <1>2, ListForm DEF PoolInv
<1>4. \A q \in PageIds : buffer_pages[q] = buffer_pages[p] => q = p
  BY DEF PoolInv, PinsAreReferences, Resident
<1> QED
  BY <1>1, <1>2, <1>3, <1>4

(***************************************************************************)
(* NewPage and FetchPage take a frame of the free list (an empty one has   *)
(* no victim either), which is clean: nothing is written back.             *)
(***************************************************************************)
LEMMA TakenFrame ==
    ASSUME PoolInv, FrameAvailable, TakeFrame, Pin(FrameTaken)
    PROVE  LET f == FrameTaken
           IN  /\ f \in Frames
               /\ pin_count[f] = 0
               /\ free_pages # <<>>
               /\ \A p \in PageIds : buffer_pages[p] # f
               /\ ~frame[f].dirty
               /\ WriteBack(f) = [disk |-> disk, size |-> file_size, fail |-> failbit]
               /\ pin_count' = [pin_count EXCEPT ![f] = 1]
               /\ free_pages' \in Seq(Frames)
               /\ lru' \in Seq(Frames)
               /\ FreeListExact'
               /\ LruWithinFree'
<1> DEFINE f == FrameTaken
<1>1. /\ free_pages \in Seq(Frames) /\ lru \in Seq(Frames)
      /\ Distinct(free_pages) /\ Distinct(lru)
      /\ \A g \in Frames : In(free_pages, g) <=> pin_count[g] = 0
      /\ \A x : In(lru, x) => In(free_pages, x)
      /\ pin_count \in [Frames -> Int]
  BY ListForm DEF PoolInv, BufTypeOK
<1>2. free_pages # <<>>
  <2> SUFFICES ASSUME free_pages = <<>> PROVE FALSE
    OBVIOUS
  <2>1. lru # <<>> /\ Len(lru) \in Nat \ {0}
    BY <1>1, EmptySeq DEF FrameAvailable
  <2>2. In(lru, lru[Len(lru)])
    BY <2>1 DEF In
  <2>3. In(free_pages, lru[Len(lru)])
    BY <1>1, <2>2
  <2> QED
    BY <2>3 DEF In
<1>3. f = free_pages[Len(free_pages)] /\ free_pages' = SubSeq(free_pages, 1, Len(free_pages) - 1)
  BY <1>2 DEF FrameTaken, TakeFrame
<1>4. /\ f \in Frames
      /\ In(free_pages, f)
      /\ free_pages' \in Seq(Frames)
      /\ Distinct(free_pages')
      /\ \A x : In(free_pages', x) <=> In(free_pages, x) /\ x # f
  BY <1>1, <1>2, <1>3, PopBack
<1>5. /\ lru' \in Seq(Frames)
      /\ Distinct(lru')
      /\ \A x : In(lru', x) <=> In(lru, x) /\ x # f
  BY <1>1, UnlinkProperties DEF Pin
<1> HIDE DEF f
<1>6. pin_count[f] = 0
  BY <1>1, <1>4
<1>7. pin_count' = [pin_count EXCEPT ![f] = 1]
  BY <1>1, <1>4, <1>6 DEF Pin, f
<1>8. FreeListExact'
  <2>1. \A g \in Frames : In(free_pages', g) <=> pin_count'[g] = 0
    BY <1>1, <1>4, <1>7
  <2> QED
    BY <1>4, <2>1 DEF FreeListExact, In, Distinct
<1>9. LruWithinFree'
  <2>1. \A x : In(lru', x) => In(free_pages', x)
    BY <1>1, <1>4, <1>5
  <2> QED
    BY <1>5, <2>1 DEF LruWithinFree, In, Distinct
<1>10. \A p \in PageIds : buffer_pages[p] # f
  <2> SUFFICES ASSUME NEW p \in PageIds, buffer_pages[p] = f PROVE FALSE
    OBVIOUS
  <2>1. Resident(p)
    BY <1>4 DEF Resident, Frames, NoFrame
  <2> QED
    BY <2>1, <1>4, ResidentFrame
<1>11. ~frame[f].dirty
  BY <1>4, <1>6 DEF PoolInv, FreeIsClean
<1>12. WriteBack(f) = [disk |-> disk, size |-> file_size, fail |-> failbit]
  BY <1>11 DEF WriteBack
<1> QED
  BY <1>2, <1>4, <1>5, <1>6, <1>7, <1>8, <1>9, <1>10, <1>11, <1>12 DEF f

-----------------------------------------------------------------------------
(* One lemma per operation. *)

LEMMA NewPageStep ==
    ASSUME PoolInv, NewPage
    PROVE  PoolInv' /\ (DataInv => DataInv')
<1> DEFINE f == FrameTaken
           p == next_page_id
<1>1. /\ f \in Frames
      /\ pin_count[f] = 0
      /\ \A q \in PageIds : buffer_pages[q] # f
      /\ WriteBack(f) = [disk |-> disk, size |-> file_size, fail |-> failbit]
      /\ pin_count' = [pin_count EXCEPT ![f] = 1]
      /\ free_pages' \in Seq(Frames)
      /\ lru' \in Seq(Frames)
      /\ FreeListExact'
      /\ LruWithinFree'
  BY TakenFrame DEF NewPage
<1>2. p \in PageIds /\ ~Resident(p) /\ f # NoFrame
  BY <1>1, PagesAssumption DEF NewPage, PoolInv, BufTypeOK, PageIds, NotYetMade, Frames, NoFrame
<1>3. /\ disk' = disk /\ file_size' = file_size /\ failbit' = failbit
      /\ frame' = [frame EXCEPT ![f] = [id |-> p, data |-> Zero, dirty |-> FALSE]]
      /\ next_page_id' = p + 1
      /\ buffer_pages' = [buffer_pages EXCEPT ![p] = f]
      /\ held' = [held EXCEPT ![p] = 1]
      /\ unwritten' = unwritten \union {p}
      /\ latest' = [latest EXCEPT ![p] = Zero]
      /\ p <= MaxPageId
      /\ recovered /\ UNCHANGED recovered
  BY <1>1 DEF NewPage, SaveFrame
<1> HIDE DEF f
<1>4. BufTypeOK'
  BY <1>1, <1>2, <1>3, PagesAssumption, SMTT(30) DEF PoolInv, BufTypeOK, AllContents
<1>5. PinsAreReferences'
  <2>1. ASSUME NEW q \in PageIds, Resident(q)'
        PROVE  /\ held'[q] > 0
               /\ pin_count'[buffer_pages'[q]] = held'[q]
               /\ frame'[buffer_pages'[q]].id = q
    BY <1>1, <1>2, <1>3, <2>1 DEF PoolInv, BufTypeOK, PinsAreReferences, Resident
  <2>2. ASSUME NEW q \in PageIds, ~Resident(q)'
        PROVE  held'[q] = 0
    BY <1>1, <1>2, <1>3, <2>2 DEF PoolInv, BufTypeOK, PinsAreReferences, Resident
  <2>3. ASSUME NEW g \in Frames, pin_count'[g] # 0
        PROVE  \E q \in PageIds : buffer_pages'[q] = g
    <3>1. CASE g = f
      BY <1>2, <1>3, <3>1 DEF PoolInv, BufTypeOK
    <3>2. CASE g # f
      <4>1. pin_count[g] # 0
        BY <1>1, <2>3, <3>2 DEF PoolInv, BufTypeOK
      <4>2. PICK q \in PageIds : buffer_pages[q] = g
        BY <4>1 DEF PoolInv, PinsAreReferences
      <4>3. q # p
        BY <1>2, <4>2 DEF Resident, Frames, NoFrame
      <4> QED
        BY <1>3, <4>2, <4>3 DEF PoolInv, BufTypeOK
    <3> QED
      BY <3>1, <3>2
  <2> QED
    BY <2>1, <2>2, <2>3 DEF PinsAreReferences
<1>6. ASSUME DataInv PROVE DataInv'
  <2>1. NoLostWrite'
    BY <1>1, <1>2, <1>3, <1>6 DEF PoolInv, BufTypeOK, DataInv, NoLostWrite, Resident, PageIds
  <2>2. CleanIsStored'
    BY <1>1, <1>2, <1>3, <1>6 DEF PoolInv, BufTypeOK, DataInv, CleanIsStored, Resident
  <2>3. FailedIsEmpty'
    BY <1>3, <1>6 DEF DataInv, FailedIsEmpty
  <2>4. MadeHasContents'
    BY <1>2, <1>3, <1>6, ContentsAssumption
       DEF PoolInv, BufTypeOK, DataInv, MadeHasContents, PageIds
  <2> QED
    BY <2>1, <2>2, <2>3, <2>4 DEF DataInv
<1>7. FreeIsClean'
  BY <1>1, <1>3 DEF PoolInv, BufTypeOK, FreeIsClean
<1>8. NotYetMade'
  BY <1>2, <1>3 DEF PoolInv, BufTypeOK, NotYetMade, Resident, PageIds
<1> QED
  BY <1>1, <1>4, <1>5, <1>6, <1>7, <1>8 DEF PoolInv

LEMMA FetchLoadStep ==
    ASSUME PoolInv, NEW p \in PageIds, FetchLoad(p)
    PROVE  PoolInv' /\ (LogMatchesFile /\ DataInv => DataInv')
<1> DEFINE f == FrameTaken
<1>1. /\ f \in Frames
      /\ pin_count[f] = 0
      /\ \A q \in PageIds : buffer_pages[q] # f
      /\ ~frame[f].dirty
      /\ WriteBack(f) = [disk |-> disk, size |-> file_size, fail |-> failbit]
      /\ pin_count' = [pin_count EXCEPT ![f] = 1]
      /\ free_pages' \in Seq(Frames)
      /\ lru' \in Seq(Frames)
      /\ FreeListExact'
      /\ LruWithinFree'
  BY TakenFrame DEF FetchLoad
<1>2. /\ ~Resident(p) /\ p \in Fetchable /\ f # NoFrame
      /\ recovered => p < next_page_id
  <2>1. ~Resident(p) /\ p \in Fetchable
    BY DEF FetchLoad
  <2>2. f # NoFrame
    BY <1>1, FramesAssumption DEF Frames, NoFrame
  <2>3. recovered => p < next_page_id
    BY <2>1 DEF Fetchable, META_PAGE_ID, PoolInv, BufTypeOK, PageIds
  <2> QED
    BY <2>1, <2>2, <2>3
<1> DEFINE fails == failbit \/ p >= file_size
           data == IF fails THEN frame[f].data ELSE disk[p]
<1>3. fails \in BOOLEAN /\ data \in AllContents
  BY <1>1 DEF PoolInv, BufTypeOK
<1>5. /\ disk' = disk /\ file_size' = file_size /\ failbit' = fails
      /\ frame' = [frame EXCEPT ![f] = [id |-> p, data |-> data, dirty |-> FALSE]]
      /\ buffer_pages' = [buffer_pages EXCEPT ![p] = f]
      /\ held' = [held EXCEPT ![p] = 1]
      /\ UNCHANGED <<next_page_id, recovered, unwritten, latest>>
  <2> DEFINE io == WriteBack(f)
             read == IF ReadFails(p, io) THEN frame[f].data ELSE io.disk[p]
             dirty == frame[f].dirty /\ free_pages # <<>>
  <2>1. /\ disk' = io.disk /\ file_size' = io.size /\ failbit' = ReadFails(p, io)
        /\ frame' = [frame EXCEPT ![f] = [id |-> p, data |-> read, dirty |-> dirty]]
        /\ buffer_pages' = [buffer_pages EXCEPT ![p] = f]
        /\ held' = [held EXCEPT ![p] = 1]
        /\ UNCHANGED <<next_page_id, recovered, unwritten, latest>>
    BY DEF FetchLoad
  <2>2. io.disk = disk /\ io.size = file_size /\ io.fail = failbit
    BY <1>1
  <2>3. dirty = FALSE
    BY <1>1
  <2>4. ReadFails(p, io) = fails
    BY <2>2 DEF ReadFails
  <2>5. read = data
    BY <2>2, <2>4
  <2> HIDE DEF io, data, dirty, read, fails
  <2> QED
    BY <2>1, <2>2, <2>3, <2>4, <2>5
<1> HIDE DEF f, data, fails
<1>6. BufTypeOK'
  <2>1. [id |-> p, data |-> data, dirty |-> FALSE]
           \in [id : PageIds, data : AllContents, dirty : BOOLEAN]
    BY <1>3
  <2>2. frame' \in [Frames -> [id : PageIds, data : AllContents, dirty : BOOLEAN]]
    BY <1>1, <1>5, <2>1 DEF PoolInv, BufTypeOK
  <2>3. failbit' \in BOOLEAN
    BY <1>3, <1>5
  <2>4. held' \in [PageIds -> Nat] /\ buffer_pages' \in [PageIds -> Frames \union {NoFrame}]
    BY <1>1, <1>5 DEF PoolInv, BufTypeOK
  <2>5. pin_count' \in [Frames -> Int]
    BY <1>1 DEF PoolInv, BufTypeOK
  <2> QED
    BY <1>1, <1>5, <2>2, <2>3, <2>4, <2>5 DEF PoolInv, BufTypeOK
<1>7. PinsAreReferences'
  <2>1. ASSUME NEW q \in PageIds, Resident(q)'
        PROVE  /\ held'[q] > 0
               /\ pin_count'[buffer_pages'[q]] = held'[q]
               /\ frame'[buffer_pages'[q]].id = q
    BY <1>1, <1>2, <1>5, <2>1 DEF PoolInv, BufTypeOK, PinsAreReferences, Resident
  <2>2. ASSUME NEW q \in PageIds, ~Resident(q)'
        PROVE  held'[q] = 0
    BY <1>1, <1>2, <1>5, <2>2 DEF PoolInv, BufTypeOK, PinsAreReferences, Resident
  <2>3. ASSUME NEW g \in Frames, pin_count'[g] # 0
        PROVE  \E q \in PageIds : buffer_pages'[q] = g
    <3>1. CASE g = f
      BY <1>2, <1>5, <3>1 DEF PoolInv, BufTypeOK
    <3>2. CASE g # f
      <4>1. pin_count[g] # 0
        BY <1>1, <2>3, <3>2 DEF PoolInv, BufTypeOK
      <4>2. PICK q \in PageIds : buffer_pages[q] = g
        BY <4>1 DEF PoolInv, PinsAreReferences
      <4>3. q # p
        BY <1>2, <4>2 DEF Resident, Frames, NoFrame
      <4> QED
        BY <1>5, <4>2, <4>3 DEF PoolInv, BufTypeOK
    <3> QED
      BY <3>1, <3>2
  <2> QED
    BY <2>1, <2>2, <2>3 DEF PinsAreReferences
<1>8. ASSUME LogMatchesFile, DataInv PROVE DataInv'
  <2>1. latest[p] # Junk => disk[p] = latest[p] /\ p < file_size /\ data = latest[p]
    <3>1. latest[p] # Junk => disk[p] = latest[p] /\ p < file_size
      BY <1>2, <1>8 DEF DataInv, NoLostWrite
    <3>2. p < file_size => file_size # 0 /\ ~(p >= file_size)
      BY DEF PoolInv, BufTypeOK, PageIds
    <3>3. p < file_size => ~fails
      BY <1>8, <3>2 DEF DataInv, FailedIsEmpty, fails
    <3> QED
      BY <3>1, <3>3 DEF data
  <2>2. NoLostWrite'
    BY <1>1, <1>2, <1>5, <1>8, <2>1 DEF PoolInv, BufTypeOK, DataInv, NoLostWrite, Resident
  <2>3. CleanIsStored'
    BY <1>1, <1>2, <1>5, <1>8, <2>1 DEF PoolInv, BufTypeOK, DataInv, CleanIsStored, Resident
  <2>4. FailedIsEmpty'
    <3>1. p >= file_size => file_size = 0
      <4> SUFFICES ASSUME p >= file_size PROVE file_size = 0
        OBVIOUS
      <4>1. CASE p = META_PAGE_ID
        BY <4>1 DEF META_PAGE_ID, PoolInv, BufTypeOK
      <4>2. CASE p # META_PAGE_ID
        <5>1. recovered
          BY <1>2, <1>8, <4>2 DEF Fetchable, PoolInv, BufTypeOK, PageIds
        <5>2. latest[p] # Junk
          BY <1>2, <1>8, <4>2, <5>1 DEF DataInv, MadeHasContents
        <5> QED
          BY <2>1, <5>2 DEF PoolInv, BufTypeOK, PageIds
      <4> QED
        BY <4>1, <4>2
    <3> QED
      BY <1>5, <1>8, <3>1 DEF DataInv, FailedIsEmpty, fails
  <2>5. MadeHasContents'
    BY <1>5, <1>8 DEF DataInv, MadeHasContents
  <2> QED
    BY <2>2, <2>3, <2>4, <2>5 DEF DataInv
<1>9. FreeIsClean'
  BY <1>1, <1>5 DEF PoolInv, BufTypeOK, FreeIsClean
<1>10. NotYetMade'
  <2>1. recovered => \A q \in PageIds : q >= next_page_id => buffer_pages'[q] = buffer_pages[q]
    BY <1>2, <1>5 DEF PoolInv, BufTypeOK, PageIds
  <2> QED
    BY <1>5, <2>1 DEF PoolInv, NotYetMade, Resident
<1> QED
  BY <1>1, <1>6, <1>7, <1>8, <1>9, <1>10 DEF PoolInv

(* Recover returns with nothing but the directory's page in the pool. *)
LEMMA RecoverStep ==
    ASSUME PoolInv, RecoverReturns
    PROVE  PoolInv' /\ (DataInv => DataInv')
<1>1. /\ recovered' = TRUE /\ ~recovered /\ NothingHeld
      /\ UNCHANGED <<free_pages, buffer_pages, pin_count, lru, frame, next_page_id, disk,
                     file_size, failbit, held, unwritten, latest>>
  BY DEF RecoverReturns
<1>2. BufTypeOK' /\ FreeListExact' /\ LruWithinFree'
  BY <1>1 DEF PoolInv, BufTypeOK, FreeListExact, LruWithinFree
<1>3. PinsAreReferences' /\ FreeIsClean'
  BY <1>1 DEF PoolInv, PinsAreReferences, FreeIsClean, Resident
<1>4. NotYetMade'
  <2>1. \A p \in PageIds : p >= next_page_id => p # META_PAGE_ID
    BY DEF PoolInv, BufTypeOK, META_PAGE_ID, PageIds
  <2>2. ASSUME NEW p \in PageIds, p >= next_page_id PROVE ~Resident(p)
    <3>1. held[p] = 0
      BY <1>1, <2>1, <2>2 DEF NothingHeld
    <3>2. Resident(p) => held[p] > 0
      BY DEF PoolInv, PinsAreReferences
    <3> QED
      BY <3>1, <3>2
  <2> QED
    BY <1>1, <2>2 DEF PoolInv, NotYetMade, Resident
<1>5. ASSUME DataInv PROVE DataInv'
  BY <1>1, <1>5 DEF DataInv, NoLostWrite, CleanIsStored, FailedIsEmpty, MadeHasContents, Resident
<1> QED
  BY <1>2, <1>3, <1>4, <1>5 DEF PoolInv

LEMMA FetchResidentStep ==
    ASSUME PoolInv, NEW p \in PageIds, FetchResident(p)
    PROVE  PoolInv' /\ (DataInv => DataInv')
<1> DEFINE f == buffer_pages[p]
<1>1. /\ Resident(p) /\ f \in Frames /\ held[p] > 0 /\ pin_count[f] = held[p]
      /\ ~In(lru, f)
      /\ \A q \in PageIds : buffer_pages[q] = f => q = p
  BY ResidentFrame DEF FetchResident
<1>2. lru' = lru
  <2>1. Distinct(lru) /\ lru \in Seq(Frames)
    BY ListForm DEF PoolInv, BufTypeOK
  <2> QED
    BY <1>1, <2>1, UnlinkProperties DEF FetchResident, Pin
<1>3. /\ pin_count' = [pin_count EXCEPT ![f] = @ + 1]
      /\ frame' = frame
      /\ held' = [held EXCEPT ![p] = @ + 1]
      /\ UNCHANGED <<free_pages, buffer_pages, next_page_id, recovered, disk, file_size,
                      failbit, unwritten, latest>>
  <2>1. frame[f].id = p
    BY <1>1 DEF PoolInv, PinsAreReferences
  <2>2. [frame EXCEPT ![f].id = p] = frame
    BY <1>1, <2>1 DEF PoolInv, BufTypeOK
  <2> QED
    BY <2>2 DEF FetchResident, Pin
<1> HIDE DEF f
<1>4. BufTypeOK'
  BY <1>1, <1>2, <1>3 DEF PoolInv, BufTypeOK
<1>5. pin_count[f] # 0 /\ pin_count'[f] # 0 /\ \A g \in Frames : g # f => pin_count'[g] = pin_count[g]
  BY <1>1, <1>3 DEF PoolInv, BufTypeOK
<1>6. FreeListExact' /\ LruWithinFree'
  BY <1>1, <1>2, <1>3, <1>5 DEF PoolInv, FreeListExact, LruWithinFree
<1>7. PinsAreReferences'
  BY <1>1, <1>3, <1>5 DEF PoolInv, BufTypeOK, PinsAreReferences, Resident, f
<1>8. NotYetMade'
  BY <1>3 DEF PoolInv, NotYetMade, Resident
<1>9. FreeIsClean'
  BY <1>3, <1>5 DEF PoolInv, FreeIsClean
<1>10. ASSUME DataInv PROVE DataInv'
  BY <1>3, <1>10 DEF DataInv, NoLostWrite, CleanIsStored, FailedIsEmpty, MadeHasContents, Resident
<1> QED
  BY <1>4, <1>6, <1>7, <1>8, <1>9, <1>10 DEF PoolInv

LEMMA ModifyStep ==
    ASSUME PoolInv, NEW p \in PageIds, NEW v \in Contents, Modify(p, v)
    PROVE  PoolInv' /\ (DataInv => DataInv')
<1> DEFINE f == buffer_pages[p]
<1>1. Resident(p)
  BY DEF Modify, PoolInv, BufTypeOK, PinsAreReferences
<1>2. /\ f \in Frames /\ pin_count[f] # 0
      /\ \A q \in PageIds : buffer_pages[q] = f => q = p
  BY <1>1, ResidentFrame DEF PoolInv, BufTypeOK
<1>3. /\ frame' = [frame EXCEPT ![f] = [id |-> frame[f].id, data |-> v, dirty |-> TRUE]]
      /\ latest' = [latest EXCEPT ![p] = v]
      /\ unwritten' = unwritten \ {p}
      /\ UNCHANGED <<free_pages, buffer_pages, pin_count, lru, next_page_id, recovered,
                      disk, file_size, failbit, held>>
  <2>1. frame[f] \in [id : PageIds, data : AllContents, dirty : BOOLEAN]
    BY <1>2 DEF PoolInv, BufTypeOK
  <2>2. [frame EXCEPT ![f].data = v, ![f].dirty = TRUE]
          = [frame EXCEPT ![f] = [id |-> frame[f].id, data |-> v, dirty |-> TRUE]]
    <3> DEFINE a == [frame EXCEPT ![f].data = v]
               b == [a EXCEPT ![f].dirty = TRUE]
    <3>1. a \in [Frames -> [id : PageIds, data : AllContents, dirty : BOOLEAN]]
      BY <1>2, <2>1 DEF PoolInv, BufTypeOK, AllContents
    <3>2. a[f] = [frame[f] EXCEPT !.data = v]
      BY <1>2 DEF PoolInv, BufTypeOK
    <3>3. b[f] = [id |-> frame[f].id, data |-> v, dirty |-> TRUE]
      BY <1>2, <2>1, <3>1, <3>2
    <3>4. \A g \in Frames : g # f => b[g] = frame[g]
      BY DEF PoolInv, BufTypeOK
    <3>5. DOMAIN b = Frames
      BY <3>1
    <3> HIDE DEF a
    <3>6. b = [g \in Frames |-> b[g]]
      BY <3>1
    <3> HIDE DEF b
    <3>7. b = [frame EXCEPT ![f] = [id |-> frame[f].id, data |-> v, dirty |-> TRUE]]
      BY <1>2, <3>3, <3>4, <3>6 DEF PoolInv, BufTypeOK
    <3> QED
      BY <3>7 DEF a, b
  <2> QED
    BY <2>2 DEF Modify
<1> HIDE DEF f
<1>4. BufTypeOK'
  BY <1>2, <1>3 DEF PoolInv, BufTypeOK, AllContents
<1>5. FreeListExact' /\ LruWithinFree'
  BY <1>3 DEF PoolInv, FreeListExact, LruWithinFree
<1>6. PinsAreReferences'
  BY <1>2, <1>3 DEF PoolInv, BufTypeOK, PinsAreReferences, Resident
<1>7. ASSUME DataInv PROVE DataInv'
  <2>1. NoLostWrite'
    BY <1>1, <1>2, <1>3, <1>7 DEF PoolInv, BufTypeOK, DataInv, NoLostWrite, Resident, f
  <2>2. CleanIsStored'
    BY <1>2, <1>3, <1>7 DEF PoolInv, BufTypeOK, DataInv, CleanIsStored, Resident, f
  <2>3. FailedIsEmpty' /\ MadeHasContents'
    BY <1>3, <1>7, ContentsAssumption DEF PoolInv, BufTypeOK, DataInv, FailedIsEmpty, MadeHasContents
  <2> QED
    BY <2>1, <2>2, <2>3 DEF DataInv
<1>8. FreeIsClean'
  BY <1>2, <1>3 DEF PoolInv, BufTypeOK, FreeIsClean
<1>9. NotYetMade'
  BY <1>3 DEF PoolInv, NotYetMade, Resident
<1> QED
  BY <1>4, <1>5, <1>6, <1>7, <1>8, <1>9 DEF PoolInv

(***************************************************************************)
(* Flush and Release save a resident page: afterwards the file has what    *)
(* was last put into it, and what it had of other pages.                   *)
(***************************************************************************)
LEMMA SavedPage ==
    ASSUME PoolInv, NEW p \in PageIds, Resident(p), SaveFrame(buffer_pages[p])
    PROVE  /\ disk' \in [PageIds -> AllContents]
           /\ file_size' \in 0 .. (MaxPageId + 1)
           /\ file_size <= file_size'
           /\ failbit' \in BOOLEAN
           /\ \A q \in PageIds : q # p => disk'[q] = disk[q]
           /\ DataInv =>
                 /\ p \notin unwritten /\ latest[p] # Junk =>
                       disk'[p] = latest[p] /\ p < file_size'
                 /\ FailedIsEmpty'
<1> DEFINE f == buffer_pages[p]
<1>1. f \in Frames /\ frame[f].id = p
  BY ResidentFrame DEF PoolInv, PinsAreReferences
<1>2. /\ DataInv /\ latest[p] # Junk => frame[f].data = latest[p]
      /\ failbit \in BOOLEAN
  BY DEF PoolInv, BufTypeOK, DataInv, NoLostWrite
<1>3. /\ disk \in [PageIds -> AllContents] /\ frame[f].data \in AllContents
      /\ file_size \in 0 .. (MaxPageId + 1) /\ p \in 0 .. MaxPageId
  BY <1>1 DEF PoolInv, BufTypeOK, PageIds
<1>4. CASE frame[f].dirty
  <2>1. /\ disk' = [disk EXCEPT ![p] = frame[f].data]
        /\ file_size' = IF p >= file_size THEN p + 1 ELSE file_size
        /\ failbit' = FALSE
    BY <1>1, <1>4 DEF SaveFrame, WriteBack
  <2>2. disk' \in [PageIds -> AllContents] /\ \A q \in PageIds : q # p => disk'[q] = disk[q]
    BY <1>3, <2>1
  <2>3. disk'[p] = frame[f].data
    BY <1>3, <2>1
  <2>4. file_size' \in 0 .. (MaxPageId + 1) /\ file_size <= file_size' /\ p < file_size'
    BY <1>3, <2>1, PagesAssumption
  <2>5. FailedIsEmpty'
    BY <2>1 DEF FailedIsEmpty
  <2> QED
    BY <1>2, <2>1, <2>2, <2>3, <2>4, <2>5
<1>5. CASE ~frame[f].dirty
  <2>1. UNCHANGED <<disk, file_size, failbit>>
    BY <1>5 DEF SaveFrame, WriteBack
  <2>2. DataInv /\ p \notin unwritten /\ latest[p] # Junk => disk[p] = latest[p] /\ p < file_size
    BY <1>5 DEF DataInv, CleanIsStored
  <2>3. DataInv => FailedIsEmpty'
    BY <2>1 DEF DataInv, FailedIsEmpty
  <2>4. failbit' \in BOOLEAN /\ file_size <= file_size'
    BY <1>2, <1>3, <2>1, PagesAssumption
  <2> QED
    BY <1>3, <2>1, <2>2, <2>3, <2>4
<1> QED
  BY <1>4, <1>5

LEMMA FlushStep ==
    ASSUME PoolInv, NEW p \in PageIds, Flush(p)
    PROVE  PoolInv' /\ (DataInv => DataInv')
<1> DEFINE f == buffer_pages[p]
<1>1. /\ disk' \in [PageIds -> AllContents]
      /\ file_size' \in 0 .. (MaxPageId + 1)
      /\ file_size <= file_size'
      /\ failbit' \in BOOLEAN
      /\ \A q \in PageIds : q # p => disk'[q] = disk[q]
      /\ DataInv =>
            /\ p \notin unwritten /\ latest[p] # Junk => disk'[p] = latest[p] /\ p < file_size'
            /\ FailedIsEmpty'
  BY SavedPage DEF Flush
<1>2. /\ Resident(p) /\ f \in Frames
      /\ \A q \in PageIds : buffer_pages[q] = f => q = p
  BY ResidentFrame DEF Flush
<1>3. /\ frame' = [frame EXCEPT ![f].dirty = FALSE]
      /\ UNCHANGED <<free_pages, buffer_pages, pin_count, lru, next_page_id, recovered,
                      held, unwritten, latest>>
  BY DEF Flush
<1> HIDE DEF f
<1>4. /\ frame' \in [Frames -> [id : PageIds, data : AllContents, dirty : BOOLEAN]]
      /\ \A g \in Frames : g # f => frame'[g] = frame[g]
      /\ frame'[f].id = frame[f].id /\ frame'[f].data = frame[f].data
      /\ ~frame'[f].dirty
  BY <1>2, <1>3 DEF PoolInv, BufTypeOK
<1>a. \A q \in PageIds : Resident(q) => buffer_pages[q] \in Frames
  BY DEF PoolInv, BufTypeOK, Resident
<1>b. \A q \in PageIds : Resident(q) /\ q # p => frame'[buffer_pages[q]] = frame[buffer_pages[q]]
  BY <1>2, <1>4, <1>a
<1>5. BufTypeOK'
  BY <1>1, <1>3, <1>4 DEF PoolInv, BufTypeOK
<1>6. FreeListExact' /\ LruWithinFree'
  BY <1>3 DEF PoolInv, FreeListExact, LruWithinFree
<1>7. PinsAreReferences'
  BY <1>3, <1>4 DEF PoolInv, BufTypeOK, PinsAreReferences, Resident
<1>8. ASSUME DataInv PROVE NoLostWrite' /\ MadeHasContents'
  <2>1. ASSUME NEW q \in PageIds, latest[q] # Junk, Resident(q)
        PROVE  frame'[buffer_pages[q]].data = latest[q]
    BY <1>4, <1>8, <1>a, <2>1 DEF DataInv, NoLostWrite
  <2>2. ASSUME NEW q \in PageIds, latest[q] # Junk, ~Resident(q)
        PROVE  disk'[q] = latest[q] /\ q < file_size'
    <3>1. disk[q] = latest[q] /\ q < file_size /\ q # p
      BY <1>2, <1>8, <2>2 DEF DataInv, NoLostWrite
    <3> QED
      BY <1>1, <3>1 DEF PoolInv, BufTypeOK, PageIds
  <2>3. MadeHasContents'
    BY <1>3, <1>8 DEF DataInv, MadeHasContents
  <2> QED
    BY <1>3, <2>1, <2>2, <2>3 DEF NoLostWrite, Resident
<1>9. FreeIsClean' /\ NotYetMade'
  <2>1. ASSUME NEW g \in Frames, pin_count'[g] = 0 PROVE ~frame'[g].dirty
    <3>1. CASE g = f  BY <1>4, <3>1
    <3>2. CASE g # f  BY <1>3, <1>4, <2>1, <3>2 DEF PoolInv, FreeIsClean
    <3> QED  BY <3>1, <3>2
  <2> QED
    BY <1>3, <2>1 DEF PoolInv, FreeIsClean, NotYetMade, Resident
<1>10. ASSUME DataInv PROVE CleanIsStored'
  <2> SUFFICES ASSUME NEW q \in PageIds
               PROVE  /\ q \in unwritten => Resident(q) /\ ~frame'[buffer_pages[q]].dirty
                      /\ /\ Resident(q) /\ q \notin unwritten
                         /\ ~frame'[buffer_pages[q]].dirty
                         /\ latest[q] # Junk
                         => disk'[q] = latest[q] /\ q < file_size'
    BY <1>3 DEF CleanIsStored, Resident
  <2>1. CASE q = p
    BY <1>1, <1>2, <1>4, <1>10, <2>1 DEF f
  <2>2. CASE q # p
    <3>1. Resident(q) => frame'[buffer_pages[q]] = frame[buffer_pages[q]]
      BY <1>b, <2>2
    <3>2. disk'[q] = disk[q] /\ (q < file_size => q < file_size')
      BY <1>1, <2>2 DEF PoolInv, BufTypeOK, PageIds
    <3> QED
      BY <1>10, <3>1, <3>2 DEF DataInv, CleanIsStored
  <2> QED
    BY <2>1, <2>2
<1> QED
  BY <1>1, <1>5, <1>6, <1>7, <1>8, <1>9, <1>10 DEF PoolInv, DataInv

(* TouchPage changes nothing: the frame of a resident page is not listed. *)
LEMMA TouchStep ==
    ASSUME PoolInv, NEW p \in PageIds, TouchPage(p)
    PROVE  UNCHANGED bufVars
<1>1. ~In(lru, buffer_pages[p])
  BY ResidentFrame DEF TouchPage
<1> QED
  BY <1>1 DEF TouchPage, In, bufVars

LEMMA ReleaseStep ==
    ASSUME PoolInv, NEW p \in PageIds, Release(p)
    PROVE  PoolInv' /\ (DataInv => DataInv')
<1> DEFINE f == buffer_pages[p]
           last == pin_count[f] = 1
<1>1. /\ disk' \in [PageIds -> AllContents]
      /\ file_size' \in 0 .. (MaxPageId + 1)
      /\ file_size <= file_size'
      /\ failbit' \in BOOLEAN
      /\ \A q \in PageIds : q # p => disk'[q] = disk[q]
      /\ DataInv =>
            /\ latest[p] # Junk => disk'[p] = latest[p] /\ p < file_size'
            /\ FailedIsEmpty'
  BY SavedPage DEF Release
<1>2. /\ Resident(p) /\ f \in Frames /\ held[p] > 0 /\ pin_count[f] = held[p]
      /\ \A q \in PageIds : buffer_pages[q] = f => q = p
      /\ ~In(free_pages, f) /\ ~In(lru, f)
  BY ResidentFrame DEF Release
<1>3. /\ frame' = [frame EXCEPT ![f].dirty = FALSE]
      /\ pin_count' = [pin_count EXCEPT ![f] = @ - 1]
      /\ lru' = IF last THEN <<f>> \o lru ELSE lru
      /\ free_pages' = IF last THEN <<f>> \o free_pages ELSE free_pages
      /\ buffer_pages' = IF last THEN [buffer_pages EXCEPT ![p] = NoFrame] ELSE buffer_pages
      /\ held' = [held EXCEPT ![p] = @ - 1]
      /\ UNCHANGED <<next_page_id, recovered, unwritten, latest>>
      /\ p \notin unwritten
  BY DEF Release, UnPin
<1> HIDE DEF f
<1>4. /\ frame' \in [Frames -> [id : PageIds, data : AllContents, dirty : BOOLEAN]]
      /\ \A g \in Frames : g # f => frame'[g] = frame[g]
      /\ frame'[f].id = frame[f].id /\ frame'[f].data = frame[f].data
      /\ ~frame'[f].dirty
  BY <1>2, <1>3, ZenonT(40) DEF PoolInv, BufTypeOK
<1>a. \A q \in PageIds : Resident(q) => buffer_pages[q] \in Frames
  BY DEF PoolInv, BufTypeOK, Resident
<1>b. \A q \in PageIds : Resident(q) /\ q # p => frame'[buffer_pages[q]] = frame[buffer_pages[q]]
  BY <1>2, <1>4, <1>a
<1>5. /\ free_pages \in Seq(Frames) /\ lru \in Seq(Frames)
      /\ Distinct(free_pages) /\ Distinct(lru)
      /\ \A g \in Frames : In(free_pages, g) <=> pin_count[g] = 0
      /\ \A x : In(lru, x) => In(free_pages, x)
  BY ListForm DEF PoolInv, BufTypeOK
<1>6. /\ free_pages' \in Seq(Frames) /\ lru' \in Seq(Frames)
      /\ Distinct(free_pages') /\ Distinct(lru')
      /\ \A x : In(free_pages', x) <=> In(free_pages, x) \/ (last /\ x = f)
      /\ \A x : In(lru', x) <=> In(lru, x) \/ (last /\ x = f)
  <2>1. CASE last
    <3>1. free_pages' = <<f>> \o free_pages /\ lru' = <<f>> \o lru
      BY <1>3, <2>1
    <3>2. /\ free_pages' \in Seq(Frames) /\ Distinct(free_pages')
          /\ \A x : In(free_pages', x) <=> In(free_pages, x) \/ x = f
      BY <1>2, <1>5, <3>1, PushFront
    <3>3. /\ lru' \in Seq(Frames) /\ Distinct(lru')
          /\ \A x : In(lru', x) <=> In(lru, x) \/ x = f
      BY <1>2, <1>5, <3>1, PushFront
    <3> QED
      BY <2>1, <3>2, <3>3
  <2>2. CASE ~last
    BY <1>3, <1>5, <2>2
  <2> QED
    BY <2>1, <2>2
<1>7. /\ pin_count' \in [Frames -> Int]
      /\ pin_count'[f] = pin_count[f] - 1
      /\ \A g \in Frames : g # f => pin_count'[g] = pin_count[g]
      /\ pin_count'[f] = 0 <=> last
      /\ held' \in [PageIds -> Nat]
      /\ held'[p] = held[p] - 1
      /\ \A q \in PageIds : q # p => held'[q] = held[q]
  BY <1>2, <1>3 DEF PoolInv, BufTypeOK
<1>8. /\ buffer_pages' \in [PageIds -> Frames \union {NoFrame}]
      /\ buffer_pages'[p] = IF last THEN NoFrame ELSE f
      /\ \A q \in PageIds : q # p => buffer_pages'[q] = buffer_pages[q]
  BY <1>3 DEF PoolInv, BufTypeOK, f
<1>9. held[p] \in Nat /\ f # NoFrame
  BY <1>2 DEF PoolInv, BufTypeOK, Frames, NoFrame
<1> HIDE DEF last
<1>10. BufTypeOK'
  BY <1>1, <1>3, <1>4, <1>6, <1>7, <1>8 DEF PoolInv, BufTypeOK
<1>11. FreeListExact'
  <2>1. \A g \in Frames : In(free_pages', g) <=> pin_count'[g] = 0
    BY <1>2, <1>5, <1>6, <1>7
  <2> QED
    BY <1>6, <2>1 DEF FreeListExact, In, Distinct
<1>12. LruWithinFree'
  <2>1. \A x : In(lru', x) => In(free_pages', x)
    BY <1>5, <1>6
  <2> QED
    BY <1>6, <2>1 DEF LruWithinFree, In, Distinct
<1>13. PinsAreReferences'
  <2>1. ASSUME NEW q \in PageIds, Resident(q)'
        PROVE  /\ held'[q] > 0
               /\ pin_count'[buffer_pages'[q]] = held'[q]
               /\ frame'[buffer_pages'[q]].id = q
    <3>1. CASE q = p
      <4>1. ~last /\ buffer_pages'[p] = f
        BY <1>8, <2>1, <3>1 DEF Resident
      <4>2. frame[f].id = p
        BY <1>2 DEF PoolInv, PinsAreReferences, f
      <4>3. held[p] # 1
        BY <1>2, <4>1 DEF last
      <4>4. held'[p] > 0 /\ pin_count'[f] = held'[p]
        BY <1>2, <1>7, <1>9, <4>3
      <4> QED
        BY <1>4, <3>1, <4>1, <4>2, <4>4
    <3>2. CASE q # p
      <4>1. Resident(q) /\ buffer_pages'[q] = buffer_pages[q] /\ buffer_pages[q] # f
        BY <1>2, <1>8, <2>1, <3>2 DEF Resident
      <4>2. buffer_pages[q] \in Frames
        BY <4>1 DEF PoolInv, BufTypeOK, Resident
      <4>3. /\ held[q] > 0 /\ pin_count[buffer_pages[q]] = held[q]
            /\ frame[buffer_pages[q]].id = q
        BY <4>1 DEF PoolInv, PinsAreReferences
      <4>4. pin_count'[buffer_pages[q]] = pin_count[buffer_pages[q]] /\ held'[q] = held[q]
        BY <1>7, <3>2, <4>1, <4>2
      <4>5. frame'[buffer_pages[q]] = frame[buffer_pages[q]]
        BY <1>b, <3>2, <4>1
      <4> QED
        BY <4>1, <4>3, <4>4, <4>5
    <3> QED
      BY <3>1, <3>2
  <2>2. ASSUME NEW q \in PageIds, ~Resident(q)'
        PROVE  held'[q] = 0
    <3>1. CASE q = p
      BY <1>2, <1>7, <1>8, <1>9, <2>2, <3>1 DEF Resident, last
    <3>2. CASE q # p
      BY <1>7, <1>8, <2>2, <3>2 DEF PoolInv, PinsAreReferences, Resident
    <3> QED
      BY <3>1, <3>2
  <2>3. ASSUME NEW g \in Frames, pin_count'[g] # 0
        PROVE  \E q \in PageIds : buffer_pages'[q] = g
    <3>1. CASE g = f
      BY <1>7, <1>8, <2>3, <3>1
    <3>2. CASE g # f
      <4>1. PICK q \in PageIds : buffer_pages[q] = g
        BY <1>7, <2>3, <3>2 DEF PoolInv, PinsAreReferences
      <4> QED
        BY <1>8, <3>2, <4>1 DEF f
    <3> QED
      BY <3>1, <3>2
  <2> QED
    BY <2>1, <2>2, <2>3 DEF PinsAreReferences
<1>14. ASSUME DataInv PROVE NoLostWrite' /\ MadeHasContents'
  <2>0. MadeHasContents'
    BY <1>3, <1>14 DEF DataInv, MadeHasContents
  <2> SUFFICES ASSUME NEW q \in PageIds, latest[q] # Junk
               PROVE  IF Resident(q)' THEN frame'[buffer_pages'[q]].data = latest[q]
                      ELSE disk'[q] = latest[q] /\ q < file_size'
    BY <1>3, <2>0 DEF NoLostWrite
  <2>1. CASE q = p
    <3>1. frame[f].data = latest[p]
      BY <1>2, <1>14, <2>1 DEF DataInv, NoLostWrite, f
    <3>2. CASE last
      BY <1>1, <1>8, <1>14, <2>1, <3>2 DEF Resident
    <3>3. CASE ~last
      BY <1>4, <1>8, <1>9, <2>1, <3>1, <3>3 DEF Resident
    <3> QED
      BY <3>2, <3>3
  <2>2. CASE q # p
    <3>1. buffer_pages'[q] = buffer_pages[q] /\ disk'[q] = disk[q]
      BY <1>1, <1>8, <2>2
    <3>2. q < file_size => q < file_size'
      BY <1>1 DEF PoolInv, BufTypeOK, PageIds
    <3>3. Resident(q) => frame'[buffer_pages[q]].data = frame[buffer_pages[q]].data
      BY <1>b, <2>2
    <3> QED
      BY <1>14, <3>1, <3>2, <3>3 DEF DataInv, NoLostWrite, Resident
  <2> QED
    BY <2>1, <2>2
<1>15. FreeIsClean'
  <2>1. ASSUME NEW g \in Frames, pin_count'[g] = 0 PROVE ~frame'[g].dirty
    <3>1. CASE g = f  BY <1>4, <3>1
    <3>2. CASE g # f  BY <1>4, <1>7, <2>1, <3>2 DEF PoolInv, FreeIsClean
    <3> QED  BY <3>1, <3>2
  <2> QED
    BY <2>1 DEF FreeIsClean
<1>16. NotYetMade'
  BY <1>2, <1>3, <1>8 DEF PoolInv, NotYetMade, Resident
<1>17. ASSUME DataInv PROVE CleanIsStored'
  <2> SUFFICES ASSUME NEW q \in PageIds
               PROVE  /\ q \in unwritten => Resident(q)' /\ ~frame'[buffer_pages'[q]].dirty
                      /\ /\ Resident(q)' /\ q \notin unwritten
                         /\ ~frame'[buffer_pages'[q]].dirty
                         /\ latest[q] # Junk
                         => disk'[q] = latest[q] /\ q < file_size'
    BY <1>3 DEF CleanIsStored
  <2>1. CASE q = p
    BY <1>1, <1>3, <1>17, <2>1
  <2>2. CASE q # p
    <3>1. Resident(q) => frame'[buffer_pages[q]] = frame[buffer_pages[q]]
      BY <1>b, <2>2
    <3>2. disk'[q] = disk[q] /\ (q < file_size => q < file_size')
      BY <1>1, <2>2 DEF PoolInv, BufTypeOK, PageIds
    <3>3. buffer_pages'[q] = buffer_pages[q]
      BY <1>8, <2>2
    <3> QED
      BY <1>17, <3>1, <3>2, <3>3 DEF DataInv, CleanIsStored, Resident
  <2> QED
    BY <2>1, <2>2
<1> QED
  BY <1>1, <1>10, <1>11, <1>12, <1>13, <1>14, <1>15, <1>16, <1>17 DEF PoolInv, DataInv

-----------------------------------------------------------------------------
THEOREM BufInitInv == BufInit => BufInv
<1> SUFFICES ASSUME BufInit PROVE BufInv
  OBVIOUS
<1>1. NumFrames \in Nat /\ free_pages = [i \in 1 .. NumFrames |-> i - 1]
  BY FramesAssumption DEF BufInit
<1>2. free_pages \in Seq(Frames) /\ Len(free_pages) = NumFrames
  BY <1>1 DEF Frames
<1>3. BufTypeOK
  <2>1. frame \in [Frames -> [id : PageIds, data : AllContents, dirty : BOOLEAN]]
    <3>1. 0 \in PageIds
      BY PagesAssumption DEF PageIds
    <3> QED
      BY <3>1 DEF BufInit, AllContents
  <2>2. lru \in Seq(Frames)
    BY DEF BufInit
  <2>3. failbit \in BOOLEAN
    BY DEF BufInit
  <2>4. disk \in [PageIds -> AllContents] /\ latest \in [PageIds -> AllContents]
    BY DEF BufInit, AllContents
  <2>5. next_page_id \in 1 .. (MaxPageId + 1)
    BY PagesAssumption DEF BufInit
  <2>9. recovered \in BOOLEAN
    BY DEF BufInit
  <2>6. pin_count \in [Frames -> Int] /\ held \in [PageIds -> Nat]
    BY DEF BufInit
  <2>7. buffer_pages \in [PageIds -> Frames \union {NoFrame}]
    BY DEF BufInit
  <2>8. file_size \in 0 .. (MaxPageId + 1) /\ unwritten \subseteq PageIds
    BY DEF BufInit
  <2> QED
    BY <1>2, <2>1, <2>2, <2>3, <2>4, <2>5, <2>6, <2>7, <2>8, <2>9 DEF BufTypeOK
<1>4. FreeListExact
  <2>1. \A i, j \in 1 .. Len(free_pages) : free_pages[i] = free_pages[j] => i = j
    BY <1>1, <1>2
  <2>2. ASSUME NEW f \in Frames PROVE \E i \in 1 .. Len(free_pages) : free_pages[i] = f
    <3>1. f + 1 \in 1 .. NumFrames /\ free_pages[f + 1] = f
      BY <1>1 DEF Frames
    <3> QED
      BY <1>2, <3>1
  <2> QED
    BY <2>1, <2>2 DEF FreeListExact, BufInit
<1>5. LruWithinFree
  BY DEF BufInit, LruWithinFree
<1>6. PinsAreReferences /\ FreeIsClean /\ CleanIsStored
  BY DEF BufInit, PinsAreReferences, FreeIsClean, CleanIsStored, Resident
<1>7. NotYetMade
  BY DEF BufInit, NotYetMade
<1>8. NoLostWrite /\ FailedIsEmpty /\ MadeHasContents
  BY DEF BufInit, NoLostWrite, FailedIsEmpty, MadeHasContents, META_PAGE_ID, Resident, PageIds
<1> QED
  BY <1>3, <1>4, <1>5, <1>6, <1>7, <1>8 DEF BufInv, PoolInv, DataInv

(* Every operation of the pool preserves the invariant. *)
THEOREM BufInvariance == BufSpec => []BufInv
<1>1. BufInv /\ [BufNext]_bufVars => BufInv'
  <2> SUFFICES ASSUME BufInv, [BufNext]_bufVars PROVE BufInv'
    OBVIOUS
  <2>1. ASSUME UNCHANGED bufVars PROVE BufInv'
    <3>1. BufTypeOK' /\ FreeListExact' /\ LruWithinFree'
      BY <2>1 DEF bufVars, BufInv, PoolInv, BufTypeOK, FreeListExact, LruWithinFree
    <3>2. PinsAreReferences' /\ FreeIsClean' /\ NotYetMade'
      BY <2>1 DEF bufVars, BufInv, PoolInv, PinsAreReferences, FreeIsClean, NotYetMade, Resident
    <3>3. DataInv => DataInv'
      BY <2>1 DEF bufVars, DataInv, NoLostWrite, CleanIsStored, FailedIsEmpty,
                  MadeHasContents, Resident
    <3> QED
      BY <3>1, <3>2, <3>3 DEF BufInv, PoolInv
  <2>2. CASE NewPage
    BY <2>2, NewPageStep DEF BufInv
  <2>3. ASSUME NEW p \in PageIds, FetchResident(p) PROVE BufInv'
    BY <2>3, FetchResidentStep DEF BufInv
  <2>4. ASSUME NEW p \in PageIds, FetchLoad(p) PROVE BufInv'
    BY <2>4, FetchLoadStep DEF BufInv
  <2>5. ASSUME NEW p \in PageIds, NEW v \in Contents, Modify(p, v) PROVE BufInv'
    BY <2>5, ModifyStep DEF BufInv
  <2>6. ASSUME NEW p \in PageIds, Flush(p) PROVE BufInv'
    BY <2>6, FlushStep DEF BufInv
  <2>7. ASSUME NEW p \in PageIds, Release(p) PROVE BufInv'
    BY <2>7, ReleaseStep DEF BufInv
  <2>8. ASSUME NEW p \in PageIds, TouchPage(p) PROVE BufInv'
    BY <2>8, <2>1, TouchStep DEF BufInv
  <2>9. CASE RecoverReturns
    BY <2>9, RecoverStep DEF BufInv
  <2> QED
    BY <2>1, <2>2, <2>3, <2>4, <2>5, <2>6, <2>7, <2>8, <2>9 DEF BufNext
<1> QED
  BY BufInitInv, <1>1, PTL DEF BufSpec

(* The types hold for a pool of any size. *)
THEOREM BufTypeCorrect == BufSpec => []BufTypeOK
<1>1. BufInv => BufTypeOK
  BY DEF BufInv, PoolInv
<1> QED
  BY <1>1, BufInvariance, PTL

(* The free list is exactly the unpinned frames: none is given out twice. *)
THEOREM FreeListTheorem == BufSpec => []FreeListExact
<1>1. BufInv => FreeListExact
  BY DEF BufInv, PoolInv
<1> QED
  BY <1>1, BufInvariance, PTL

(* Frames are pinned exactly as often as callers hold their page. *)
THEOREM PinTheorem == BufSpec => []PinsAreReferences
<1>1. BufInv => PinsAreReferences
  BY DEF BufInv, PoolInv
<1> QED
  BY <1>1, BufInvariance, PTL

(***************************************************************************)
(* When the log and the file belong together, no page with contents is     *)
(* read through a failed stream and none loses what was last put into it,  *)
(* from MetaPage's fetch of page 0 of an empty file onwards.               *)
(***************************************************************************)
THEOREM NoLostWriteTheorem == LogMatchesFile /\ BufSpec => []NoLostWrite
<1> SUFFICES ASSUME LogMatchesFile PROVE BufSpec => []NoLostWrite
  OBVIOUS
<1>1. BufInv => NoLostWrite
  BY DEF BufInv, DataInv
<1> QED
  BY <1>1, BufInvariance, PTL

(* Every frame of the LRU list is on the free list: Evict has no victim. *)
THEOREM LruTheorem == BufSpec => []LruWithinFree
<1>1. BufInv => LruWithinFree
  BY DEF BufInv, PoolInv
<1> QED
  BY <1>1, BufInvariance, PTL
=============================================================================
