--------------------------- MODULE IndexPageProofs ---------------------------
(***************************************************************************)
(* Theorems about the two halves of index.html, LegacyPage and             *)
(* VictimBrowser, for any number of searches, chunks and requests, any     *)
(* victims and any files; and about the page that MCIndexPage composes.    *)
(***************************************************************************)
EXTENDS MCIndexPage, DataLemmas

-----------------------------------------------------------------------------
(***************************************************************************)
(* Pending requests.                                                       *)
(***************************************************************************)
\* The sequence without one of its positions.
LEMMA RequestsLeft ==
  ASSUME NEW S, NEW s \in Seq(S), NEW k \in 1..Len(s)
  PROVE  RemoveAt(s, k) \in Seq(S) /\ Len(RemoveAt(s, k)) = Len(s) - 1
<1> DEFINE a == SubSeq(s, 1, k - 1)
           b == SubSeq(s, k + 1, Len(s))
<1>1. a \in Seq(S) /\ Len(a) = k - 1
  BY SubSeqProperties
<1>2. b \in Seq(S) /\ Len(b) = Len(s) - k
  BY SubSeqProperties
<1> HIDE DEF a, b
<1>3. a \o b \in Seq(S) /\ Len(a \o b) = Len(a) + Len(b)
  BY <1>1, <1>2, ConcatProperties
<1>4. RemoveAt(s, k) = a \o b
  BY DEF RemoveAt, a, b
<1>5. Len(s) \in Nat /\ (k - 1) + (Len(s) - k) = Len(s) - 1
  BY LenProperties
<1> QED
  BY <1>1, <1>2, <1>3, <1>4, <1>5

\* Of one request none is left.
LEMMA OnlyRequestAnswered ==
  ASSUME NEW S, NEW s \in Seq(S), Len(s) = 1, NEW k \in 1..Len(s)
  PROVE  k = 1 /\ RemoveAt(s, k) = <<>>
<1>1. RemoveAt(s, k) \in Seq(S) /\ Len(RemoveAt(s, k)) = Len(s) - 1
  BY RequestsLeft
<1>2. Len(RemoveAt(s, k)) = 0
  BY <1>1
<1> QED
  BY <1>1, <1>2, EmptySeq

\* Where no request is pending, one more is the only one.
LEMMA FirstRequest ==
  ASSUME NEW S, NEW s \in Seq(S), NEW x \in S
  PROVE  /\ Append(s, x) \in Seq(S) /\ Append(s, x) # <<>>
         /\ s = <<>> => Append(s, x) = <<x>>
<1>1. Append(s, x) \in Seq(S) /\ Append(s, x) # <<>>
  BY AppendProperties
<1>2. ASSUME s = <<>> PROVE Append(s, x) = <<x>>
  BY <1>2
<1> QED
  BY <1>1, <1>2

-----------------------------------------------------------------------------
(***************************************************************************)
(* The victims of a result.                                                *)
(***************************************************************************)
VictimsNext == ListNext \/ ViewerNext

-----------------------------------------------------------------------------
(***************************************************************************)
(* The pages a result holds.                                               *)
(***************************************************************************)
Pages == 1 .. VictimPages

VictimTypes == [at: {"idle", "open", "told", "over"}, pages: Seq(Pages), cursor: Nat,
                asked: Seq(Pages), twice: BOOLEAN]

\* A page that is held, and has one behind it.
Followed(pages, p) == p < VictimPages /\ \E i \in DOMAIN pages : pages[i] = p

NoneSkipped(pages) ==
  \A i \in DOMAIN pages : pages[i] = 1 \/ \E j \in 1 .. (i - 1) : pages[j] + 1 = pages[i]

\* Asked for once at a time, a page is asked for behind the last one held.
InTurn(v) ==
  /\ \A i \in DOMAIN v.pages : v.pages[i] = i
  /\ v.cursor \in {0, Len(v.pages)}
  /\ v.asked \in {<<>>, <<Len(v.pages)>>}

Kept(v) ==
  /\ v \in VictimTypes
  /\ NoneSkipped(v.pages)
  /\ v.cursor # 0 => Followed(v.pages, v.cursor)
  /\ \A k \in DOMAIN v.asked : Followed(v.pages, v.asked[k])
  /\ v.at \in {"idle", "open"} => v.pages = <<>> /\ v.asked = <<>> /\ v.cursor = 0
  /\ ~v.twice => InTurn(v)

\* What is left of the requests was asked for before.
LEMMA StillFollowed ==
  ASSUME NEW v, Kept(v), NEW k \in DOMAIN v.asked
  PROVE  /\ k \in 1 .. Len(v.asked)
         /\ RemoveAt(v.asked, k) \in Seq(Pages)
         /\ \A i \in DOMAIN RemoveAt(v.asked, k) : Followed(v.pages, RemoveAt(v.asked, k)[i])
         /\ ~v.twice => v.asked = <<Len(v.pages)>> /\ RemoveAt(v.asked, k) = <<>>
<1>1. v.asked \in Seq(Pages) /\ k \in 1 .. Len(v.asked)
  BY DEF Kept, VictimTypes
<1>2. RemoveAt(v.asked, k) \in Seq(Pages)
  BY <1>1, RemoveAtIs
<1>3. \A i \in DOMAIN RemoveAt(v.asked, k) : Followed(v.pages, RemoveAt(v.asked, k)[i])
  <2> TAKE i \in DOMAIN RemoveAt(v.asked, k)
  <2>1. \E m \in DOMAIN v.asked : RemoveAt(v.asked, k)[i] = v.asked[m]
    BY <1>1, RemoveAtIs
  <2> QED
    BY <2>1 DEF Kept
<1>4. ~v.twice => v.asked = <<Len(v.pages)>> /\ RemoveAt(v.asked, k) = <<>>
  <2> SUFFICES ASSUME ~v.twice PROVE v.asked = <<Len(v.pages)>> /\ RemoveAt(v.asked, k) = <<>>
    OBVIOUS
  <2>1. v.asked = <<Len(v.pages)>>
    BY <1>1, EmptySeq DEF Kept, InTurn
  <2>2. Len(v.asked) = 1
    BY <2>1
  <2> QED
    BY <1>1, <2>1, <2>2, OnlyRequestAnswered
<1> QED
  BY <1>1, <1>2, <1>3, <1>4

\* A page that is served comes behind the one it was asked for with.
LEMMA ServedIsKept ==
  ASSUME NEW v, Kept(v), NEW k \in DOMAIN v.asked, NEW page, page = v.asked[k] + 1
  PROVE  /\ page \in Pages
         /\ Kept([v EXCEPT !.pages = Append(v.pages, page), !.cursor = NextCursor(page),
                           !.asked = RemoveAt(v.asked, k)])
<1> DEFINE w == [v EXCEPT !.pages = Append(v.pages, page), !.cursor = NextCursor(page),
                          !.asked = RemoveAt(v.asked, k)]
           n == Len(v.pages)
<1>1. /\ v \in VictimTypes /\ v.pages \in Seq(Pages) /\ v.asked \in Seq(Pages)
      /\ n \in Nat /\ DOMAIN v.pages = 1 .. n
  BY LenProperties DEF Kept, VictimTypes
<1>2. Followed(v.pages, v.asked[k]) /\ v.asked[k] \in Pages
  BY <1>1, ElementOfSeq DEF Kept
<1>3. page \in Pages
  BY <1>2, VictimAssumption DEF Followed, Pages
<1>4. /\ Append(v.pages, page) \in Seq(Pages) /\ Append(v.pages, page) # <<>>
      /\ DOMAIN Append(v.pages, page) = 1 .. n + 1 /\ Len(Append(v.pages, page)) = n + 1
      /\ \A i \in 1 .. n : Append(v.pages, page)[i] = v.pages[i]
      /\ Append(v.pages, page)[n + 1] = page
  BY <1>1, <1>3, AppendProperties
<1>5. NextCursor(page) \in Nat /\ NextCursor(page) \in {0, page}
  BY <1>3 DEF NextCursor, Pages
<1>6. /\ w \in VictimTypes /\ w.pages = Append(v.pages, page) /\ w.cursor = NextCursor(page)
      /\ w.asked = RemoveAt(v.asked, k) /\ w.at = v.at /\ w.twice = v.twice
  BY <1>1, <1>4, <1>5, StillFollowed DEF VictimTypes
<1> HIDE DEF w
<1>7. \A p : Followed(v.pages, p) => Followed(w.pages, p)
  BY <1>1, <1>4, <1>6 DEF Followed
<1>8. NoneSkipped(w.pages)
  <2> SUFFICES ASSUME NEW i \in 1 .. n + 1
               PROVE  w.pages[i] = 1 \/ \E j \in 1 .. (i - 1) : w.pages[j] + 1 = w.pages[i]
    BY <1>4, <1>6 DEF NoneSkipped
  <2>1. CASE i \in 1 .. n
    <3>1. v.pages[i] = 1 \/ \E j \in 1 .. (i - 1) : v.pages[j] + 1 = v.pages[i]
      BY <1>1, <2>1 DEF Kept, NoneSkipped
    <3>2. \A j \in 1 .. (i - 1) : j \in 1 .. n
      BY <1>1, <2>1
    <3> QED
      BY <1>4, <1>6, <2>1, <3>1, <3>2
  <2>2. CASE i = n + 1
    <3>1. PICK j \in 1 .. n : v.pages[j] = v.asked[k]
      BY <1>1, <1>2 DEF Followed
    <3>2. w.pages[j] + 1 = w.pages[i] /\ j \in 1 .. (i - 1)
      BY <1>1, <1>4, <1>6, <2>2, <3>1
    <3> QED
      BY <3>2
  <2> QED
    BY <1>1, <2>1, <2>2
<1>9. w.cursor # 0 => Followed(w.pages, w.cursor)
  <2> SUFFICES ASSUME NextCursor(page) # 0 PROVE Followed(w.pages, NextCursor(page))
    BY <1>6
  <2>1. page < VictimPages /\ NextCursor(page) = page
    BY DEF NextCursor
  <2>2. n + 1 \in DOMAIN w.pages /\ w.pages[n + 1] = page
    BY <1>1, <1>4, <1>6
  <2> QED
    BY <2>1, <2>2 DEF Followed
<1>10. \A i \in DOMAIN w.asked : Followed(w.pages, w.asked[i])
  BY <1>6, <1>7, StillFollowed
<1>11. v.at \notin {"idle", "open"}
  BY <1>1, EmptySeq DEF Kept
<1>12. ~w.twice => InTurn(w)
  <2> SUFFICES ASSUME ~v.twice PROVE InTurn(w)
    BY <1>6
  <2>1. v.asked = <<n>> /\ w.asked = <<>> /\ \A i \in 1 .. n : v.pages[i] = i
    BY <1>1, <1>6, StillFollowed DEF Kept, InTurn
  <2>2. page = n + 1
    BY <1>1, <2>1
  <2>3. \A i \in 1 .. n + 1 : w.pages[i] = i
    BY <1>1, <1>4, <1>6, <2>1, <2>2
  <2> QED
    BY <1>4, <1>5, <1>6, <2>1, <2>2, <2>3 DEF InTurn
<1>13. Kept(w)
  BY <1>6, <1>8, <1>9, <1>10, <1>11, <1>12 DEF Kept
<1> QED
  BY <1>3, <1>13 DEF w

\* A request that is refused, or that fails, leaves the pages as they are.
LEMMA RefusedIsKept ==
  ASSUME NEW v, Kept(v), NEW k \in DOMAIN v.asked, NEW cursor \in {0, v.cursor}
  PROVE  Kept([v EXCEPT !.cursor = cursor, !.asked = RemoveAt(v.asked, k)])
<1> DEFINE w == [v EXCEPT !.cursor = cursor, !.asked = RemoveAt(v.asked, k)]
<1>1. v \in VictimTypes /\ v.asked \in Seq(Pages) /\ cursor \in Nat
  BY DEF Kept, VictimTypes
<1>2. /\ w \in VictimTypes /\ w.pages = v.pages /\ w.cursor = cursor
      /\ w.asked = RemoveAt(v.asked, k) /\ w.at = v.at /\ w.twice = v.twice
  BY <1>1, StillFollowed DEF VictimTypes
<1> HIDE DEF w
<1>3. v.at \notin {"idle", "open"}
  BY <1>1, EmptySeq DEF Kept
<1>4. ~w.twice => InTurn(w)
  BY <1>2, StillFollowed DEF Kept, InTurn
<1>5. Kept(w)
  BY <1>2, <1>3, <1>4, StillFollowed DEF Kept
<1> QED
  BY <1>5 DEF w

\* Another page is asked for.
LEMMA AskedIsKept ==
  ASSUME NEW v, Kept(v), v.cursor # 0
  PROVE  Kept([v EXCEPT !.asked = Append(v.asked, v.cursor),
                        !.twice = v.twice \/ v.asked # <<>>])
<1> DEFINE w == [v EXCEPT !.asked = Append(v.asked, v.cursor), !.twice = v.twice \/ v.asked # <<>>]
           n == Len(v.asked)
<1>1. /\ v \in VictimTypes /\ v.asked \in Seq(Pages) /\ v.pages \in Seq(Pages)
      /\ n \in Nat /\ DOMAIN v.asked = 1 .. n
  BY LenProperties DEF Kept, VictimTypes
<1>2. Followed(v.pages, v.cursor) /\ v.cursor \in Pages
  BY <1>1, ElementOfSeq DEF Kept, Followed
<1>3. /\ Append(v.asked, v.cursor) \in Seq(Pages)
      /\ DOMAIN Append(v.asked, v.cursor) = 1 .. n + 1
      /\ \A i \in 1 .. n : Append(v.asked, v.cursor)[i] = v.asked[i]
      /\ Append(v.asked, v.cursor)[n + 1] = v.cursor
  BY <1>1, <1>2, AppendProperties
<1>4. /\ w \in VictimTypes /\ w.pages = v.pages /\ w.cursor = v.cursor /\ w.at = v.at
      /\ w.asked = Append(v.asked, v.cursor) /\ (w.twice <=> v.twice \/ v.asked # <<>>)
  BY <1>1, <1>3 DEF VictimTypes
<1> HIDE DEF w
<1>5. \A i \in DOMAIN w.asked : Followed(w.pages, w.asked[i])
  <2> SUFFICES ASSUME NEW i \in 1 .. n + 1 PROVE Followed(v.pages, Append(v.asked, v.cursor)[i])
    BY <1>3, <1>4
  <2>1. CASE i \in 1 .. n
    BY <1>1, <1>3, <2>1 DEF Kept
  <2>2. CASE i = n + 1
    BY <1>2, <1>3, <2>2
  <2> QED
    BY <1>1, <2>1, <2>2
<1>6. ~w.twice => InTurn(w)
  <2> SUFFICES ASSUME ~v.twice, v.asked = <<>> PROVE InTurn(w)
    BY <1>4
  <2>1. InTurn(v) /\ v.cursor = Len(v.pages)
    BY DEF Kept, InTurn
  <2>2. w.asked = <<v.cursor>>
    BY <1>1, <1>2, <1>4, FirstRequest
  <2> QED
    BY <1>4, <2>1, <2>2 DEF InTurn
<1>7. v.at \notin {"idle", "open"}
  BY DEF Kept
<1>8. Kept(w)
  BY <1>4, <1>5, <1>6, <1>7 DEF Kept
<1> QED
  BY <1>8 DEF w

\* The results, the current one and the one the list was drawn from, which have victims.
PagesInv ==
  /\ victims \in [Results -> VictimTypes]
  /\ \A r \in Results : Kept(victims[r])
  /\ current \in Results \cup {NoSearch}
  /\ current # NoSearch => victims[current].pages # <<>>

LEMMA NoneHeldAtFirst == VictimsInit => PagesInv
<1> SUFFICES ASSUME VictimsInit PROVE PagesInv
  OBVIOUS
<1>1. <<>> \in Seq(Pages) /\ DOMAIN <<>> = {} /\ Len(<<>>) = 0
  BY EmptySeq
<1>2. NoVictims \in VictimTypes
  BY <1>1 DEF NoVictims, VictimTypes
<1>3. Kept(NoVictims)
  BY <1>1, <1>2 DEF Kept, NoVictims, NoneSkipped, InTurn
<1> QED
  BY <1>2, <1>3 DEF VictimsInit, PagesInv

\* What an answer does to the result it was asked for.
LEMMA AnsweredPages ==
  ASSUME PagesInv, NEW r \in Results, NEW k \in DOMAIN victims[r].asked,
         PageServed(r, k) \/ PageRefused(r, k) \/ PageFails(r, k)
  PROVE  /\ \E v \in VictimTypes : Kept(v) /\ victims' = [victims EXCEPT ![r] = v]
         /\ victims'[r].pages # <<>>
<1>1. Kept(victims[r]) /\ victims[r] \in VictimTypes
  BY DEF PagesInv
<1> DEFINE v == victims[r]
           page == v.asked[k] + 1
           served == [v EXCEPT !.pages = Append(v.pages, page), !.cursor = NextCursor(page),
                               !.asked = RemoveAt(v.asked, k)]
           failed(c) == [v EXCEPT !.cursor = c, !.asked = RemoveAt(v.asked, k)]
<1>2. Kept(served) /\ Kept(failed(0)) /\ Kept(failed(v.cursor))
  BY <1>1, ServedIsKept, RefusedIsKept
<1>3. served.pages # <<>> /\ v.pages # <<>>
  <2>1. v.pages \in Seq(Pages) /\ Followed(v.pages, v.asked[k])
    BY <1>1 DEF Kept, VictimTypes
  <2>2. v.pages # <<>>
    BY <2>1, EmptySeq DEF Followed
  <2>3. v.asked[k] + 1 \in Pages
    BY <1>1, ServedIsKept
  <2> QED
    BY <1>1, <2>1, <2>2, <2>3, AppendProperties DEF VictimTypes
<1>4. \E w \in {served, failed(0), failed(v.cursor)} : victims' = [victims EXCEPT ![r] = w]
  <2>1. CASE PageServed(r, k)
    BY <2>1 DEF PageServed
  <2>2. CASE PageRefused(r, k)
    BY <2>2 DEF PageRefused
  <2>3. CASE PageFails(r, k)
    <3>1. failed(v.cursor) = [v EXCEPT !.asked = RemoveAt(v.asked, k)]
      BY <1>1 DEF VictimTypes
    <3> QED
      BY <2>3, <3>1 DEF PageFails
  <2> QED
    BY <2>1, <2>2, <2>3
<1>5. PICK w \in {served, failed(0), failed(v.cursor)} : victims' = [victims EXCEPT ![r] = w]
  BY <1>4
<1>6. Kept(w) /\ w \in VictimTypes /\ w.pages # <<>>
  <2>1. \A c : failed(c).pages = v.pages
    BY <1>1 DEF VictimTypes
  <2>2. Kept(w)
    BY <1>2
  <2>3. w.pages # <<>>
    BY <1>3, <2>1
  <2> QED
    BY <2>2, <2>3 DEF Kept
<1> QED
  BY <1>5, <1>6 DEF PagesInv

LEMMA PagesStep == PagesInv /\ VictimsNext => PagesInv'
<1> SUFFICES ASSUME PagesInv, VictimsNext PROVE PagesInv'
  OBVIOUS
<1>1. /\ victims \in [Results -> VictimTypes] /\ \A q \in Results : Kept(victims[q])
      /\ current \in Results \cup {NoSearch}
      /\ current # NoSearch => victims[current].pages # <<>>
  BY DEF PagesInv
<1>2. ASSUME NEW r \in Results, NEW v \in VictimTypes, Kept(v),
             victims' = [victims EXCEPT ![r] = v],
             victims[r].pages # <<>> => v.pages # <<>>,
             \/ current' \in {current, NoSearch}
             \/ current' = r /\ v.pages # <<>>
      PROVE  PagesInv'
  BY <1>1, <1>2 DEF PagesInv
<1>3. ASSUME NEW r \in Results, SearchBegins(r) PROVE PagesInv'
  <2> DEFINE v == [victims[r] EXCEPT !.at = "open"]
  <2>1. Kept(v) /\ v.pages = victims[r].pages
    <3>1. Kept(victims[r]) /\ victims[r] \in VictimTypes /\ victims[r].at = "idle"
      BY <1>1, <1>3 DEF SearchBegins
    <3>2. /\ v \in VictimTypes /\ v.pages = victims[r].pages /\ v.cursor = victims[r].cursor
          /\ v.asked = victims[r].asked /\ v.twice = victims[r].twice
      BY <3>1 DEF VictimTypes
    <3> HIDE DEF v
    <3> QED
      BY <3>1, <3>2 DEF Kept, InTurn
  <2>2. victims' = [victims EXCEPT ![r] = v] /\ current' = NoSearch
    BY <1>3 DEF SearchBegins
  <2>3. PICK w \in VictimTypes : Kept(w) /\ w.pages = victims[r].pages /\ victims' = [victims EXCEPT ![r] = w]
    BY <2>1, <2>2 DEF Kept
  <2>4. current' \in Results \cup {NoSearch} /\ current' \in {current, NoSearch}
    BY <2>2
  <2> HIDE DEF v
  <2> QED
    BY <1>2, <2>3, <2>4
<1>4. ASSUME NEW r \in Results, VictimsEvent(r) PROVE PagesInv'
  <2> DEFINE v == [victims[r] EXCEPT !.at = "told", !.pages = <<1>>, !.cursor = NextCursor(1)]
  <2>1. Kept(v) /\ v.pages # <<>>
    <3>1. Kept(victims[r]) /\ victims[r] \in VictimTypes /\ victims[r].at = "open"
      BY <1>1, <1>4 DEF VictimsEvent
    <3>2. /\ NextCursor(1) \in Nat /\ NextCursor(1) \in {0, 1}
          /\ (NextCursor(1) = 1 => 1 < VictimPages) /\ 1 \in Pages /\ <<1>> \in Seq(Pages)
      BY VictimAssumption DEF NextCursor, Pages
    <3>3. /\ v \in VictimTypes /\ v.pages = <<1>> /\ v.cursor = NextCursor(1)
          /\ v.asked = <<>> /\ v.at = "told"
      BY <3>1, <3>2 DEF VictimTypes, Kept
    <3> HIDE DEF v
    <3>4. <<1>>[1] = 1 /\ DOMAIN <<1>> = {1} /\ Len(<<1>>) = 1 /\ DOMAIN <<>> = {}
      OBVIOUS
    <3> QED
      BY <3>2, <3>3, <3>4 DEF Kept, InTurn, NoneSkipped, Followed
  <2>2. victims' = [victims EXCEPT ![r] = v] /\ current' = r
    BY <1>4 DEF VictimsEvent
  <2>3. v \in VictimTypes
    BY <2>1 DEF Kept
  <2> HIDE DEF v
  <2> QED
    BY <1>2, <2>1, <2>2, <2>3
<1>5. ASSUME NEW r \in Results, ResultsDrawn(r) PROVE PagesInv'
  <2> DEFINE v == [victims[r] EXCEPT !.at = "over"]
  <2>1. Kept(v) /\ v.pages = victims[r].pages
    <3>1. Kept(victims[r]) /\ victims[r] \in VictimTypes
      BY <1>1
    <3>2. /\ v \in VictimTypes /\ v.pages = victims[r].pages /\ v.cursor = victims[r].cursor
          /\ v.asked = victims[r].asked /\ v.twice = victims[r].twice /\ v.at = "over"
      BY <3>1 DEF VictimTypes
    <3> HIDE DEF v
    <3> QED
      BY <3>1, <3>2 DEF Kept, InTurn
  <2>2. victims' = [victims EXCEPT ![r] = v] /\ current' = current
    BY <1>5 DEF ResultsDrawn
  <2>3. PICK w \in VictimTypes : Kept(w) /\ w.pages = victims[r].pages /\ victims' = [victims EXCEPT ![r] = w]
    BY <2>1, <2>2 DEF Kept
  <2>4. current' \in Results \cup {NoSearch} /\ current' \in {current, NoSearch}
    BY <1>1, <2>2
  <2> HIDE DEF v
  <2> QED
    BY <1>2, <2>3, <2>4
<1>6. CASE LoadMoreVictims
  <2>1. current \in Results /\ current' = current /\ victims[current].cursor # 0
    BY <1>1, <1>6 DEF LoadMoreVictims
  <2> DEFINE u == victims[current]
             v == [u EXCEPT !.asked = Append(u.asked, u.cursor), !.twice = u.twice \/ u.asked # <<>>]
  <2>2. Kept(v) /\ v.pages = u.pages
    <3>1. Kept(u) /\ u \in VictimTypes
      BY <1>1, <2>1
    <3> QED
      BY <2>1, <3>1, AskedIsKept DEF VictimTypes
  <2>3. victims' = [victims EXCEPT ![current] = v]
    BY <1>6 DEF LoadMoreVictims
  <2>4. PICK r \in Results, w \in VictimTypes :
          /\ Kept(w) /\ w.pages = victims[r].pages /\ victims' = [victims EXCEPT ![r] = w]
          /\ current' = current
    BY <2>1, <2>2, <2>3 DEF Kept
  <2>5. current' \in Results \cup {NoSearch} /\ current' \in {current, NoSearch}
    BY <2>1
  <2> HIDE DEF v, u
  <2> QED
    BY <1>2, <2>4, <2>5
<1>7. CASE VictimAnswers
  <2>1. PICK r \in Results : \E k \in DOMAIN victims[r].asked :
          PageServed(r, k) \/ PageRefused(r, k) \/ PageFails(r, k)
    BY <1>7 DEF VictimAnswers
  <2>2. PICK v \in VictimTypes : Kept(v) /\ victims' = [victims EXCEPT ![r] = v]
    BY <2>1, AnsweredPages
  <2>3. v.pages # <<>>
    <3>1. victims'[r].pages # <<>>
      BY <2>1, AnsweredPages
    <3> QED
      BY <1>1, <2>2, <3>1
  <2>4. current' = current
    BY <1>7 DEF VictimAnswers
  <2> QED
    BY <1>1, <1>2, <2>2, <2>3, <2>4
<1>8. CASE UNCHANGED <<victims, current>>
  BY <1>1, <1>8 DEF PagesInv
<1>9. \/ \E r \in Results : SearchBegins(r) \/ VictimsEvent(r) \/ ResultsDrawn(r)
      \/ LoadMoreVictims \/ VictimAnswers \/ UNCHANGED <<victims, current>>
  BY DEF VictimsNext, ListNext, ViewerNext, ToggleVictimTree, ManifestAnswered,
         ViewVictimFile, FileAnswers, FileAnswered, CloseFileViewer
<1> QED
  BY <1>3, <1>4, <1>5, <1>6, <1>7, <1>8, <1>9
-----------------------------------------------------------------------------

-----------------------------------------------------------------------------
(***************************************************************************)
(* The list.                                                               *)
(***************************************************************************)
CardTypes == [log: Logs, idx: Nat]

\* The cards of result r, and what they are if its victims are on these pages.
Own(cards, r) == {k \in DOMAIN cards : cards[k].log[1] = r}

ListIs(cards, r, pages, mixed) ==
  /\ Own(cards, r) = DOMAIN cards \/ mixed
  /\ \A k \in Own(cards, r) :
       cards[k].idx \in DOMAIN pages /\ cards[k] = Card(r, pages[cards[k].idx], cards[k].idx)
  /\ \A i \in DOMAIN pages : \E k \in Own(cards, r) : cards[k].idx = i
  /\ \A j, k \in Own(cards, r) : j < k => cards[j].idx < cards[k].idx

ListInv ==
  /\ list.drawn \in Results \cup {NoSearch}
  /\ list.cards \in Seq(CardTypes)
  /\ list.mixed \in BOOLEAN
  /\ list \in [drawn: Results \cup {NoSearch}, cards: Seq(CardTypes), button: BOOLEAN,
               shown: BOOLEAN, mixed: BOOLEAN]
  /\ list.drawn = NoSearch => list.cards = <<>>
  /\ list.drawn # NoSearch =>
       /\ victims[list.drawn].pages # <<>>
       /\ ListIs(list.cards, list.drawn, victims[list.drawn].pages, list.mixed)

LEMMA CardsAre ==
  ASSUME NEW r \in Results, NEW pages \in Seq(Pages)
  PROVE  /\ CardsOf(r, pages) \in Seq(CardTypes) /\ DOMAIN CardsOf(r, pages) = DOMAIN pages
         /\ Len(CardsOf(r, pages)) = Len(pages)
         /\ \A i \in DOMAIN pages : CardsOf(r, pages)[i] = Card(r, pages[i], i)
<1>1. Len(pages) \in Nat /\ DOMAIN pages = 1 .. Len(pages)
  BY LenProperties
<1>2. \A i \in 1 .. Len(pages) : Card(r, pages[i], i) \in CardTypes
  <2> TAKE i \in 1 .. Len(pages)
  <2>1. pages[i] \in Pages /\ i \in Nat
    BY ElementOfSeq, <1>1
  <2> QED
    BY <2>1 DEF Card, CardTypes, Logs, Pages
<1>3. CardsOf(r, pages) = [i \in 1 .. Len(pages) |-> Card(r, pages[i], i)]
  BY DEF CardsOf
<1> QED
  BY <1>1, <1>2, <1>3

\* The property, in these terms.
LEMMA ListIsHeld ==
  ASSUME PagesInv, ListInv
  PROVE  ListShowsWhatIsHeld
<1>1. CASE list.drawn = NoSearch
  BY <1>1 DEF ListInv, ListShowsWhatIsHeld
<1>2. CASE list.drawn # NoSearch
  <2> DEFINE r == list.drawn
             pages == victims[r].pages
  <2>1. r \in Results /\ pages \in Seq(Pages)
    BY <1>2 DEF ListInv, PagesInv, VictimTypes
  <2>2. /\ DOMAIN CardsOf(r, pages) = DOMAIN pages
        /\ \A i \in DOMAIN pages : CardsOf(r, pages)[i] = Card(r, pages[i], i)
    BY <2>1, CardsAre
  <2>3. ListIs(list.cards, r, pages, list.mixed)
    BY <1>2 DEF ListInv
  <2> QED
    BY <1>2, <2>2, <2>3 DEF ListShowsWhatIsHeld, ListIs, Own
<1> QED
  BY <1>1, <1>2

\* Drawn anew, the list is that of the current result.
LEMMA DrawnList ==
  ASSUME NEW r \in Results, NEW pages \in Seq(Pages)
  PROVE  ListIs(CardsOf(r, pages), r, pages, FALSE)
<1>1. /\ DOMAIN CardsOf(r, pages) = DOMAIN pages /\ DOMAIN pages = 1 .. Len(pages)
      /\ \A i \in DOMAIN pages : CardsOf(r, pages)[i] = Card(r, pages[i], i)
  BY CardsAre
<1>2. \A i \in DOMAIN pages : Card(r, pages[i], i).log[1] = r /\ Card(r, pages[i], i).idx = i
  BY DEF Card
<1>3. Own(CardsOf(r, pages), r) = DOMAIN pages
  BY <1>1, <1>2 DEF Own
<1> QED
  BY <1>1, <1>2, <1>3 DEF ListIs

\* A page of its own result comes behind the cards.
LEMMA OwnCardAdded ==
  ASSUME NEW r, NEW cards \in Seq(CardTypes), NEW pages \in Seq(Pages), NEW mixed,
         ListIs(cards, r, pages, mixed), NEW p \in Pages,
         NEW card \in CardTypes, card = Card(r, p, Len(pages) + 1)
  PROVE  ListIs(Append(cards, card), r, Append(pages, p), mixed)
<1> DEFINE n == Len(cards)
           m == Len(pages)
           new == Append(cards, card)
           held == Append(pages, p)
<1>1. /\ n \in Nat /\ DOMAIN cards = 1 .. n /\ DOMAIN new = 1 .. n + 1
      /\ new[n + 1] = card /\ \A k \in 1 .. n : new[k] = cards[k]
  BY AppendProperties, LenProperties
<1>2. /\ m \in Nat /\ DOMAIN pages = 1 .. m /\ DOMAIN held = 1 .. m + 1
      /\ held[m + 1] = p /\ \A i \in 1 .. m : held[i] = pages[i]
  BY AppendProperties, LenProperties
<1>3. card.idx = m + 1 /\ card.log[1] = r /\ card = Card(r, p, m + 1)
  BY DEF Card
<1> HIDE DEF n, m, new, held
<1>4. Own(new, r) = Own(cards, r) \cup {n + 1}
  BY <1>1, <1>3 DEF Own
<1>5. Own(cards, r) \subseteq 1 .. n
  BY <1>1 DEF Own
<1>6. \A k \in Own(cards, r) :
        new[k].idx \in 1 .. m /\ new[k] = Card(r, pages[new[k].idx], new[k].idx)
  BY <1>1, <1>2, <1>5 DEF ListIs
<1>7. Own(new, r) = DOMAIN new \/ mixed
  BY <1>1, <1>4 DEF ListIs
<1>8. \A k \in Own(new, r) :
        new[k].idx \in DOMAIN held /\ new[k] = Card(r, held[new[k].idx], new[k].idx)
  BY <1>1, <1>2, <1>3, <1>4, <1>6
<1>9. \A i \in DOMAIN held : \E k \in Own(new, r) : new[k].idx = i
  <2> SUFFICES ASSUME NEW i \in 1 .. m + 1 PROVE \E k \in Own(new, r) : new[k].idx = i
    BY <1>2
  <2>1. CASE i = m + 1
    BY <1>1, <1>3, <1>4, <2>1
  <2>2. CASE i \in 1 .. m
    <3>1. PICK k \in Own(cards, r) : cards[k].idx = i
      BY <1>2, <2>2 DEF ListIs
    <3> QED
      BY <1>1, <1>4, <1>5, <3>1
  <2> QED
    BY <1>2, <2>1, <2>2
<1>10. \A j, k \in Own(new, r) : j < k => new[j].idx < new[k].idx
  <2> SUFFICES ASSUME NEW j \in Own(new, r), NEW k \in Own(new, r), j < k
               PROVE  new[j].idx < new[k].idx
    OBVIOUS
  <2>1. j \in Own(cards, r) /\ j \in 1 .. n
    BY <1>1, <1>4, <1>5
  <2>2. CASE k = n + 1
    BY <1>1, <1>2, <1>3, <1>6, <2>1, <2>2
  <2>3. CASE k \in Own(cards, r)
    BY <1>1, <1>5, <2>1, <2>3 DEF ListIs
  <2> QED
    BY <1>4, <2>2, <2>3
<1>11. ListIs(new, r, held, mixed)
  BY <1>7, <1>8, <1>9, <1>10 DEF ListIs
<1> QED
  BY <1>11 DEF new, held

\* A page of another result mixes with them, and leaves them as they are.
LEMMA OtherCardAdded ==
  ASSUME NEW r, NEW cards \in Seq(CardTypes), NEW pages, NEW mixed,
         ListIs(cards, r, pages, mixed), NEW card \in CardTypes, card.log[1] # r
  PROVE  ListIs(Append(cards, card), r, pages, TRUE)
<1> DEFINE n == Len(cards)
           new == Append(cards, card)
<1>1. /\ n \in Nat /\ DOMAIN cards = 1 .. n /\ DOMAIN new = 1 .. n + 1
      /\ new[n + 1] = card /\ \A k \in 1 .. n : new[k] = cards[k]
  BY AppendProperties, LenProperties
<1> HIDE DEF n, new
<1>2. Own(new, r) = Own(cards, r) /\ \A k \in Own(cards, r) : new[k] = cards[k]
  BY <1>1 DEF Own
<1>3. ListIs(new, r, pages, TRUE)
  BY <1>2 DEF ListIs
<1> QED
  BY <1>3 DEF new

LEMMA ListAtFirst == VictimsInit => ListInv
<1>1. <<>> \in Seq(CardTypes)
  OBVIOUS
<1> QED
  BY <1>1 DEF VictimsInit, ListInv

\* A page is answered.
LEMMA AnsweredList ==
  ASSUME PagesInv, ListInv, VictimAnswers
  PROVE  ListInv'
<1>0. PICK r \in Results : \E k \in DOMAIN victims[r].asked :
        PageServed(r, k) \/ PageRefused(r, k) \/ PageFails(r, k)
  BY DEF VictimAnswers
<1>1. PICK i \in DOMAIN victims[r].asked :
        PageServed(r, i) \/ PageRefused(r, i) \/ PageFails(r, i)
  BY <1>0
<1> DEFINE v == victims[r]
           page == v.asked[i] + 1
           d == list.drawn
<1>2. /\ v \in VictimTypes /\ Kept(v) /\ v.pages \in Seq(Pages) /\ page \in Pages
      /\ Len(v.pages) \in Nat
  <2>1. Kept(v)
    BY DEF PagesInv
  <2> QED
    BY <2>1, ServedIsKept, LenProperties DEF Kept, VictimTypes
<1>3. /\ d \in Results => victims[d] \in VictimTypes /\ victims[d].pages \in Seq(Pages)
      /\ d \in Results \cup {NoSearch} /\ list.cards \in Seq(CardTypes)
      /\ victims \in [Results -> VictimTypes]
  BY DEF PagesInv, ListInv, VictimTypes
<1>4. CASE list' = list /\ (d # NoSearch => victims'[d].pages = victims[d].pages)
  BY <1>4 DEF ListInv
<1>5. CASE PageServed(r, i) /\ list.cards # <<>>
  <2> DEFINE card == Card(r, page, Len(v.pages) + 1)
  <2>1. /\ list' = [list EXCEPT !.cards = Append(list.cards, card), !.mixed = list.mixed \/ r # d]
        /\ victims'[r].pages = Append(v.pages, page)
        /\ \A q \in Results : q # r => victims'[q] = victims[q]
    BY <1>2, <1>3, <1>5 DEF PageServed, VictimTypes
  <2>2. card \in CardTypes /\ card.log[1] = r
    BY <1>2 DEF Card, CardTypes, Logs, Pages
  <2>3. d # NoSearch /\ d \in Results /\ ListIs(list.cards, d, victims[d].pages, list.mixed)
    BY <1>3, <1>5 DEF ListInv
  <2>4. Append(list.cards, card) \in Seq(CardTypes)
    BY <1>3, <2>2, AppendProperties
  <2>5. /\ list'.drawn = d /\ list'.cards = Append(list.cards, card)
        /\ (list'.mixed <=> list.mixed \/ r # d) /\ list'.mixed \in BOOLEAN
        /\ list' \in [drawn: Results \cup {NoSearch}, cards: Seq(CardTypes), button: BOOLEAN,
                      shown: BOOLEAN, mixed: BOOLEAN]
    BY <2>1, <2>4 DEF ListInv
  <2> HIDE DEF card
  <2>6. victims'[d].pages # <<>> /\ ListIs(list'.cards, d, victims'[d].pages, list'.mixed)
    <3>1. CASE d = r
      <4>1. ListIs(Append(list.cards, card), d, Append(v.pages, page), list.mixed)
        BY <1>2, <1>3, <2>2, <2>3, <3>1, OwnCardAdded DEF card
      <4>2. list'.mixed = list.mixed
        BY <2>5, <3>1 DEF ListInv
      <4>3. Append(v.pages, page) # <<>>
        BY <1>2, AppendProperties
      <4> QED
        BY <2>1, <2>5, <3>1, <4>1, <4>2, <4>3
    <3>2. CASE d # r
      <4>1. ListIs(Append(list.cards, card), d, victims[d].pages, TRUE)
        BY <1>3, <2>2, <2>3, <3>2, OtherCardAdded
      <4>2. list'.mixed = TRUE /\ victims'[d].pages = victims[d].pages
        BY <2>1, <2>3, <2>5, <3>2
      <4>3. victims[d].pages # <<>>
        BY <2>3 DEF ListInv
      <4> QED
        BY <2>5, <4>1, <4>2, <4>3
    <3> QED
      BY <3>1, <3>2
  <2> QED
    BY <2>3, <2>4, <2>5, <2>6 DEF ListInv
<1>6. CASE PageServed(r, i) /\ list.cards = <<>>
  <2>1. d = NoSearch
    <3> SUFFICES ASSUME d # NoSearch PROVE FALSE
      OBVIOUS
    <3>1. d \in Results /\ victims[d].pages # <<>> /\ ListIs(<<>>, d, victims[d].pages, list.mixed)
      BY <1>3, <1>6 DEF ListInv
    <3>2. Own(<<>>, d) = {}
      BY DEF Own
    <3>3. DOMAIN victims[d].pages = {}
      BY <3>1, <3>2 DEF ListIs
    <3>4. DOMAIN victims[d].pages = 1 .. Len(victims[d].pages) /\ Len(victims[d].pages) \in Nat
      BY <1>3, <3>1, LenProperties
    <3>5. Len(victims[d].pages) = 0
      <4>1. \A n \in Nat : 1 .. n = {} => n = 0
        OBVIOUS
      <4> QED
        BY <3>3, <3>4, <4>1
    <3> QED
      BY <1>3, <3>1, <3>5, EmptySeq
  <2>2. list' = list
    BY <1>6 DEF PageServed
  <2> QED
    BY <1>4, <2>1, <2>2
<1>7. CASE PageRefused(r, i) \/ PageFails(r, i)
  <2>1. list' = list /\ \A q \in Results : victims'[q].pages = victims[q].pages
    <3>1. PICK w : victims' = [victims EXCEPT ![r] = w] /\ w.pages = v.pages
      <4>1. /\ [v EXCEPT !.cursor = 0, !.asked = RemoveAt(v.asked, i)].pages = v.pages
            /\ [v EXCEPT !.asked = RemoveAt(v.asked, i)].pages = v.pages
        BY <1>2 DEF VictimTypes
      <4> QED
        BY <1>7, <4>1 DEF PageRefused, PageFails
    <3>2. list' = list
      BY <1>7 DEF PageRefused, PageFails
    <3> QED
      BY <1>3, <3>1, <3>2
  <2>2. d # NoSearch => victims'[d].pages = victims[d].pages
    BY <1>3, <2>1
  <2> QED
    BY <1>4, <2>1, <2>2
<1> QED
  BY <1>1, <1>5, <1>6, <1>7

LEMMA ListStep == PagesInv /\ ListInv /\ VictimsNext => ListInv'
<1> SUFFICES ASSUME PagesInv, ListInv, VictimsNext PROVE ListInv'
  OBVIOUS
<1>1. /\ victims \in [Results -> VictimTypes] /\ current \in Results \cup {NoSearch}
      /\ current # NoSearch => victims[current].pages # <<>>
      /\ \A r \in Results : Kept(victims[r]) /\ victims[r].pages \in Seq(Pages)
  BY DEF PagesInv, VictimTypes
<1>2. ASSUME NEW b \in BOOLEAN, list' = [list EXCEPT !.shown = b],
             \A r \in Results : victims[r].pages # <<>> => victims'[r].pages = victims[r].pages
      PROVE  ListInv'
  BY <1>2 DEF ListInv
<1>3. ASSUME list' = list,
             \A r \in Results : victims[r].pages # <<>> => victims'[r].pages = victims[r].pages
      PROVE  ListInv'
  BY <1>3 DEF ListInv
<1>4. ASSUME NEW r \in Results, SearchBegins(r) PROVE ListInv'
  <2>1. \A q \in Results : victims'[q].pages = victims[q].pages
    BY <1>1, <1>4 DEF SearchBegins, VictimTypes
  <2> QED
    BY <1>2, <1>4, <2>1 DEF SearchBegins
<1>5. ASSUME NEW r \in Results, VictimsEvent(r) PROVE ListInv'
  <2>1. victims[r].pages = <<>>
    BY <1>1, <1>5 DEF VictimsEvent, Kept
  <2>2. \A q \in Results : q # r => victims'[q] = victims[q]
    BY <1>1, <1>5 DEF VictimsEvent
  <2> QED
    BY <1>3, <1>5, <2>1, <2>2 DEF VictimsEvent
<1>6. ASSUME NEW r \in Results, ResultsDrawn(r) PROVE ListInv'
  <2> DEFINE cards == IF current = NoSearch THEN <<>> ELSE CardsOf(current, victims[current].pages)
  <2>1. \A q \in Results : victims'[q].pages = victims[q].pages
    BY <1>1, <1>6 DEF ResultsDrawn, VictimTypes
  <2>2. list' = [drawn |-> current, cards |-> cards, shown |-> TRUE, mixed |-> FALSE,
                 button |-> current # NoSearch /\ victims[current].cursor # 0]
    BY <1>6 DEF ResultsDrawn
  <2>3. CASE current = NoSearch
    <3>1. cards = <<>> /\ <<>> \in Seq(CardTypes)
      BY <2>3
    <3> QED
      BY <2>2, <2>3, <3>1 DEF ListInv
  <2>4. CASE current # NoSearch
    <3>1. /\ cards \in Seq(CardTypes)
          /\ ListIs(cards, current, victims[current].pages, FALSE)
      BY <1>1, <2>4, CardsAre, DrawnList
    <3> HIDE DEF cards
    <3>2. current \in Results /\ victims[current].pages # <<>>
      BY <1>1, <2>4
    <3>3. (current # NoSearch /\ victims[current].cursor # 0) \in BOOLEAN
      OBVIOUS
    <3>4. /\ list'.drawn = current /\ list'.cards = cards /\ list'.mixed = FALSE
          /\ list' \in [drawn: Results \cup {NoSearch}, cards: Seq(CardTypes), button: BOOLEAN,
                        shown: BOOLEAN, mixed: BOOLEAN]
      BY <2>2, <3>1, <3>2, <3>3
    <3> QED
      BY <2>1, <2>4, <3>1, <3>2, <3>4 DEF ListInv
  <2> QED
    BY <2>3, <2>4
<1>7. CASE LoadMoreVictims
  <2>1. \A q \in Results : victims'[q].pages = victims[q].pages
    BY <1>1, <1>7 DEF LoadMoreVictims, VictimTypes
  <2> QED
    BY <1>3, <1>7, <2>1 DEF LoadMoreVictims
<1>8. CASE VictimAnswers
  BY <1>8, AnsweredList
<1>9. CASE UNCHANGED <<victims, list>>
  BY <1>3, <1>9
<1>10. \/ \E r \in Results : SearchBegins(r) \/ VictimsEvent(r) \/ ResultsDrawn(r)
       \/ LoadMoreVictims \/ VictimAnswers \/ UNCHANGED <<victims, list>>
  BY DEF VictimsNext, ListNext, ViewerNext, ToggleVictimTree, ManifestAnswered,
         ViewVictimFile, FileAnswers, FileAnswered, CloseFileViewer
<1> QED
  BY <1>4, <1>5, <1>6, <1>7, <1>8, <1>9, <1>10
-----------------------------------------------------------------------------

-----------------------------------------------------------------------------
(***************************************************************************)
(* The trees.                                                              *)
(***************************************************************************)
ElementTypes == [open: BOOLEAN, body: {"empty", "loading", "tree", "error"},
                 of: Logs \cup {NoLog}, orphan: BOOLEAN]

RequestTypes == [log: Logs, at: Nat]

\* An element that has settled, of the card with this number and this log.
SettledTree(tree, k, queue, cached, mixed, log) ==
  /\ tree.open => tree.body # "empty"
  /\ tree.body = "loading" => tree.orphan \/ \E i \in DOMAIN queue : queue[i].at = k
  /\ tree.body = "tree" => tree.of \in cached /\ (mixed \/ tree.of = log)

\* An answer that is to come is for the log of the card whose element waits for it.
AnswersAreFor(queue, cards, mixed) ==
  \A i \in DOMAIN queue : queue[i].at # 0 =>
    queue[i].at \in DOMAIN cards /\ (mixed \/ queue[i].log = cards[queue[i].at].log)

TreesAre(elements, queue, cached, cards, mixed) ==
  /\ elements \in Seq(ElementTypes) /\ queue \in Seq(RequestTypes) /\ cached \in SUBSET Logs
  /\ DOMAIN cards = 1 .. Len(elements)
  /\ AnswersAreFor(queue, cards, mixed)
  /\ \A k \in DOMAIN cards :
       SettledTree(elements[k], k, queue, cached, mixed, cards[k].log)

TreesInv ==
  /\ trees \in [elements: Seq(ElementTypes), asked: Seq(RequestTypes), cached: SUBSET Logs]
  /\ TreesAre(trees.elements, trees.asked, trees.cached, list.cards, list.mixed)

LEMMA TreesInvSettles == TreesInv => TreesSettle
  BY DEF TreesInv, TreesAre, SettledTree, TreesSettle

LEMMA TreesAtFirst == VictimsInit => TreesInv
<1>1. <<>> \in Seq(ElementTypes) /\ <<>> \in Seq(RequestTypes) /\ DOMAIN <<>> = {}
  OBVIOUS
<1> QED
  BY <1>1 DEF VictimsInit, TreesInv, TreesAre, AnswersAreFor

\* A request that is not the one answered is still pending.
LEMMA StillAsked ==
  ASSUME NEW S, NEW q \in Seq(S), NEW i \in 1 .. Len(q), NEW m \in 1 .. Len(q), m # i
  PROVE  \E k \in DOMAIN RemoveAt(q, i) : RemoveAt(q, i)[k] = q[m]
<1> DEFINE rest == RemoveAt(q, i)
           k == IF m < i THEN m ELSE m - 1
<1>1. rest \in Seq(S) /\ Len(rest) = Len(q) - 1 /\ Len(q) \in Nat /\ DOMAIN rest = 1 .. Len(q) - 1
  <2>1. rest \in Seq(S) /\ Len(rest) = Len(q) - 1
    BY RequestsLeft
  <2> QED
    BY <2>1, LenProperties
<1>2. k \in 1 .. Len(q) - 1 /\ (IF k < i THEN k ELSE k + 1) = m
  <2> DEFINE n == Len(q)
  <2>1. n \in Nat /\ i \in 1 .. n /\ m \in 1 .. n
    BY <1>1
  <2> HIDE DEF n
  <2>2. CASE m < i
    BY <2>1, <2>2
  <2>3. CASE m > i
    BY <2>1, <2>3
  <2> QED
    BY <2>1, <2>2, <2>3 DEF n
<1>3. \E x \in DOMAIN q : rest[k] = q[x] /\ x = (IF k < i THEN k ELSE k + 1)
  <2>1. \A y \in DOMAIN rest :
          \E x \in DOMAIN q : rest[y] = q[x] /\ x = (IF y < i THEN y ELSE y + 1)
    BY RemoveAtIs
  <2> HIDE DEF k, rest
  <2> QED
    BY <1>1, <1>2, <2>1
<1> HIDE DEF k, rest
<1>4. k \in DOMAIN rest /\ rest[k] = q[m]
  BY <1>1, <1>2, <1>3
<1> QED
  BY <1>4 DEF rest

LEMMA Listed ==
  ASSUME NEW S, NEW n \in Nat, NEW f \in [1 .. n -> S]
  PROVE  f \in Seq(S) /\ Len(f) = n
  OBVIOUS

\* Requests whose elements have left the page.
LEMMA DetachedAre ==
  ASSUME NEW queue \in Seq(RequestTypes)
  PROVE  /\ Detached(queue) \in Seq(RequestTypes)
         /\ \A i \in DOMAIN Detached(queue) : Detached(queue)[i].at = 0
<1>1. Len(queue) \in Nat /\ \A i \in 1 .. Len(queue) : queue[i] \in RequestTypes
  BY LenProperties, ElementOfSeq
<1>2. \A i \in 1 .. Len(queue) :
        [queue[i] EXCEPT !.at = 0] \in RequestTypes /\ [queue[i] EXCEPT !.at = 0].at = 0
  <2>1. \A a \in RequestTypes : [a EXCEPT !.at = 0] \in RequestTypes /\ [a EXCEPT !.at = 0].at = 0
    BY DEF RequestTypes
  <2> QED
    BY <1>1, <2>1
<1>3. Detached(queue) = [i \in 1 .. Len(queue) |-> [queue[i] EXCEPT !.at = 0]]
  BY DEF Detached
<1>4. Detached(queue) \in [1 .. Len(queue) -> RequestTypes]
  BY <1>2, <1>3
<1>5. Detached(queue) \in Seq(RequestTypes)
  BY <1>1, <1>4, Listed
<1>6. DOMAIN Detached(queue) = 1 .. Len(queue)
  BY <1>4
<1>7. \A i \in DOMAIN Detached(queue) : Detached(queue)[i].at = 0
  BY <1>2, <1>3, <1>6
<1> QED
  BY <1>5, <1>7

\* Built again, the elements keep what they show, and wait for nothing.
LEMMA RebuiltOld ==
  ASSUME TreesInv, NEW old,
         old = [i \in 1 .. Len(trees.elements) |->
                  [trees.elements[i] EXCEPT
                     !.orphan = @ \/ \E k \in DOMAIN trees.asked : trees.asked[k].at = i]]
  PROVE  TreesAre(old, Detached(trees.asked), trees.cached, list.cards, list.mixed)
<1> DEFINE n == Len(trees.elements)
           E == trees.elements
           awaited(i) == \E k \in DOMAIN trees.asked : trees.asked[k].at = i
           built(i) == [E[i] EXCEPT !.orphan = E[i].orphan \/ awaited(i)]
           D == Detached(trees.asked)
<1>1. /\ E \in Seq(ElementTypes) /\ trees.asked \in Seq(RequestTypes) /\ trees.cached \in SUBSET Logs
      /\ DOMAIN list.cards = 1 .. n /\ n \in Nat
      /\ \A i \in 1 .. n : E[i] \in ElementTypes
  BY LenProperties, ElementOfSeq DEF TreesInv, TreesAre
<1>2. ASSUME NEW i \in 1 .. n
      PROVE  /\ built(i) \in ElementTypes /\ built(i).open = E[i].open
             /\ built(i).body = E[i].body /\ built(i).of = E[i].of
             /\ built(i).orphan = (E[i].orphan \/ awaited(i))
  <2>1. E[i] \in ElementTypes /\ (E[i].orphan \/ awaited(i)) \in BOOLEAN
    BY <1>1 DEF ElementTypes
  <2>2. \A e \in ElementTypes, b \in BOOLEAN :
          /\ [e EXCEPT !.orphan = b] \in ElementTypes /\ [e EXCEPT !.orphan = b].orphan = b
          /\ [e EXCEPT !.orphan = b].open = e.open /\ [e EXCEPT !.orphan = b].body = e.body
          /\ [e EXCEPT !.orphan = b].of = e.of
    BY DEF ElementTypes
  <2> HIDE DEF E, awaited
  <2> QED
    BY <2>1, <2>2
<1>3. D \in Seq(RequestTypes) /\ \A i \in DOMAIN D : D[i].at = 0
  BY <1>1, DetachedAre
<1>4. old = [i \in 1 .. n |-> built(i)]
  OBVIOUS
<1> HIDE DEF built, D
<1>5. old \in Seq(ElementTypes) /\ Len(old) = n /\ \A i \in 1 .. n : old[i] = built(i)
  <2>1. old \in [1 .. n -> ElementTypes]
    BY <1>2, <1>4
  <2> HIDE DEF n
  <2>2. old \in Seq(ElementTypes) /\ Len(old) = n
    BY <1>1, <2>1, Listed
  <2>3. \A i \in 1 .. n : old[i] = built(i)
    BY <1>4
  <2> QED
    BY <2>2, <2>3
<1>6. ASSUME NEW k \in DOMAIN list.cards
      PROVE  SettledTree(old[k], k, D, trees.cached, list.mixed, list.cards[k].log)
  <2>1. SettledTree(E[k], k, trees.asked, trees.cached, list.mixed, list.cards[k].log)
    BY <1>6 DEF TreesInv, TreesAre
  <2>2. k \in 1 .. n
    BY <1>1
  <2> QED
    BY <1>2, <1>5, <2>1, <2>2 DEF SettledTree
<1>7. AnswersAreFor(D, list.cards, list.mixed)
  BY <1>3 DEF AnswersAreFor
<1>8. TreesAre(old, D, trees.cached, list.cards, list.mixed)
  BY <1>1, <1>3, <1>5, <1>6, <1>7 DEF TreesAre
<1> QED
  BY <1>8 DEF D

\* A card behind the others comes with an element of its own.
LEMMA RebuiltWithNew ==
  ASSUME NEW old, NEW queue, NEW cached, NEW cards \in Seq(CardTypes), NEW mixed \in BOOLEAN,
         TreesAre(old, queue, cached, cards, mixed), \A i \in DOMAIN queue : queue[i].at = 0,
         NEW card \in CardTypes, NEW wider \in BOOLEAN, mixed => wider
  PROVE  TreesAre(Append(old, NewElement), queue, cached, Append(cards, card), wider)
<1> DEFINE n == Len(old)
           new == Append(old, NewElement)
           longer == Append(cards, card)
<1>1. /\ old \in Seq(ElementTypes) /\ queue \in Seq(RequestTypes) /\ cached \in SUBSET Logs
      /\ n \in Nat /\ DOMAIN cards = 1 .. n /\ Len(cards) = n
  <2>1. old \in Seq(ElementTypes) /\ n \in Nat /\ DOMAIN cards = 1 .. n
    BY LenProperties DEF TreesAre
  <2>2. DOMAIN cards = 1 .. Len(cards) /\ Len(cards) \in Nat
    BY LenProperties
  <2>3. \A a, b \in Nat : 1 .. a = 1 .. b => a = b
    OBVIOUS
  <2> QED
    BY <2>1, <2>2, <2>3 DEF TreesAre
<1>2. NewElement \in ElementTypes /\ NewElement.open = FALSE /\ NewElement.body = "empty"
  BY DEF NewElement, ElementTypes
<1>3. /\ new \in Seq(ElementTypes) /\ Len(new) = n + 1 /\ new[n + 1] = NewElement
      /\ \A i \in 1 .. n : new[i] = old[i]
  BY <1>1, <1>2, AppendProperties
<1>4. DOMAIN longer = 1 .. n + 1 /\ \A i \in 1 .. n : longer[i] = cards[i]
  BY <1>1, AppendProperties
<1> HIDE DEF n, new, longer
<1>5. AnswersAreFor(queue, longer, wider)
  BY DEF AnswersAreFor
<1>6. ASSUME NEW k \in DOMAIN longer
      PROVE  SettledTree(new[k], k, queue, cached, wider, longer[k].log)
  <2>1. CASE k \in 1 .. n
    <3>1. SettledTree(old[k], k, queue, cached, mixed, cards[k].log)
      BY <1>1, <2>1 DEF TreesAre
    <3> QED
      BY <1>3, <1>4, <2>1, <3>1 DEF SettledTree
  <2>2. CASE k = n + 1
    BY <1>2, <1>3, <2>2 DEF SettledTree
  <2> QED
    BY <1>1, <1>4, <2>1, <2>2
<1>7. TreesAre(new, queue, cached, longer, wider)
  BY <1>1, <1>3, <1>4, <1>5, <1>6 DEF TreesAre
<1> QED
  BY <1>7 DEF new, longer

\* The card whose element a click acts on: of one result, it is the clicked one's.
LEMMA FirstNumberedIs ==
  ASSUME ListInv, NEW k \in DOMAIN list.cards
  PROVE  /\ FirstNumbered(k) \in DOMAIN list.cards /\ FirstNumbered(k) # 0
         /\ list.mixed \/ list.cards[FirstNumbered(k)].log = list.cards[k].log
<1> DEFINE cards == list.cards
           S == {j \in 1 .. k : cards[j].idx = cards[k].idx}
           Is(j) == /\ cards[j].idx = cards[k].idx
                    /\ \A i \in 1 .. (j - 1) : cards[i].idx # cards[k].idx
<1>1. cards \in Seq(CardTypes) /\ DOMAIN cards = 1 .. Len(cards) /\ Len(cards) \in Nat
  BY LenProperties DEF ListInv
<1>2. k \in Nat /\ k >= 1 /\ k \in S /\ S \subseteq Nat
  BY <1>1
<1>3. PICK m \in S : \A j \in S : m <= j
  <2> HIDE DEF S
  <2> QED
    BY <1>2, LeastNatural
<1>4. m \in 1 .. k /\ Is(m)
  <2>1. m \in 1 .. k /\ cards[m].idx = cards[k].idx
    OBVIOUS
  <2>2. ASSUME NEW i \in 1 .. (m - 1), cards[i].idx = cards[k].idx PROVE FALSE
    <3>1. i \in S /\ i < m
      BY <1>2, <2>1, <2>2
    <3> QED
      BY <1>2, <1>3, <2>1, <3>1
  <2> QED
    BY <2>1, <2>2
<1>5. FirstNumbered(k) \in 1 .. k /\ Is(FirstNumbered(k))
  <2>1. FirstNumbered(k) = CHOOSE j \in 1 .. k : Is(j)
    BY DEF FirstNumbered
  <2> HIDE DEF Is
  <2> QED
    BY <1>4, <2>1
<1> DEFINE j == FirstNumbered(k)
<1>6. j \in DOMAIN cards /\ j # 0 /\ cards[j].idx = cards[k].idx
  BY <1>1, <1>2, <1>5
<1>7. ASSUME ~list.mixed PROVE cards[j].log = cards[k].log
  <2>1. list.drawn # NoSearch
    BY <1>1 DEF ListInv
  <2>2. ListIs(cards, list.drawn, victims[list.drawn].pages, list.mixed)
    BY <2>1 DEF ListInv
  <2>3. j \in Own(cards, list.drawn) /\ k \in Own(cards, list.drawn)
    BY <1>6, <1>7, <2>2 DEF ListIs
  <2> HIDE DEF j
  <2> QED
    BY <1>6, <2>2, <2>3 DEF ListIs
<1> QED
  BY <1>6, <1>7

\* One element shows something else, and what was pending still is.
LEMMA OneElementChanges ==
  ASSUME TreesInv, NEW j \in DOMAIN list.cards, NEW e \in ElementTypes,
         NEW queue \in Seq(RequestTypes), NEW cached \in SUBSET Logs, trees.cached \subseteq cached,
         AnswersAreFor(queue, list.cards, list.mixed),
         SettledTree(e, j, queue, cached, list.mixed, list.cards[j].log),
         \A i \in DOMAIN trees.asked : trees.asked[i].at # j =>
           \E m \in DOMAIN queue : queue[m].at = trees.asked[i].at
  PROVE  TreesAre([trees.elements EXCEPT ![j] = e], queue, cached, list.cards, list.mixed)
<1> DEFINE E == trees.elements
           new == [E EXCEPT ![j] = e]
<1>1. E \in Seq(ElementTypes) /\ DOMAIN list.cards = 1 .. Len(E) /\ Len(E) \in Nat
  BY LenProperties DEF TreesInv, TreesAre
<1>2. new \in Seq(ElementTypes) /\ Len(new) = Len(E)
  BY <1>1, ExceptSeq
<1>3. ASSUME NEW k \in DOMAIN list.cards
      PROVE  SettledTree(new[k], k, queue, cached, list.mixed, list.cards[k].log)
  <2>1. SettledTree(E[k], k, trees.asked, trees.cached, list.mixed, list.cards[k].log)
    BY <1>3 DEF TreesInv, TreesAre
  <2>2. CASE k = j
    BY <1>1, <2>2
  <2>3. CASE k # j
    <3>1. new[k] = E[k]
      BY <1>1, <2>3
    <3>2. (\E i \in DOMAIN trees.asked : trees.asked[i].at = k)
            => \E m \in DOMAIN queue : queue[m].at = k
      BY <2>3
    <3> HIDE DEF E, new
    <3> QED
      BY <2>1, <3>1, <3>2 DEF SettledTree
  <2> QED
    BY <2>2, <2>3
<1>4. TreesAre(new, queue, cached, list.cards, list.mixed)
  <2> HIDE DEF E, new
  <2> QED
    BY <1>1, <1>2, <1>3 DEF TreesAre
<1> QED
  BY <1>4
-----------------------------------------------------------------------------

\* What is left of the requests.
LEMMA AnswersLeft ==
  ASSUME TreesInv, NEW i \in DOMAIN trees.asked
  PROVE  /\ RemoveAt(trees.asked, i) \in Seq(RequestTypes)
         /\ AnswersAreFor(RemoveAt(trees.asked, i), list.cards, list.mixed)
         /\ \A k \in DOMAIN trees.asked : trees.asked[k].at # trees.asked[i].at =>
              \E m \in DOMAIN RemoveAt(trees.asked, i) :
                RemoveAt(trees.asked, i)[m].at = trees.asked[k].at
<1>1. /\ trees.asked \in Seq(RequestTypes) /\ DOMAIN trees.asked = 1 .. Len(trees.asked)
      /\ AnswersAreFor(trees.asked, list.cards, list.mixed)
  BY LenProperties DEF TreesInv, TreesAre
<1>2. /\ RemoveAt(trees.asked, i) \in Seq(RequestTypes)
      /\ \A m \in DOMAIN RemoveAt(trees.asked, i) :
           \E k \in DOMAIN trees.asked : RemoveAt(trees.asked, i)[m] = trees.asked[k]
  <2> DEFINE A == trees.asked
  <2>1. A \in Seq(RequestTypes) /\ i \in 1 .. Len(A)
    BY <1>1
  <2> HIDE DEF A
  <2>2. /\ RemoveAt(A, i) \in Seq(RequestTypes)
        /\ \A m \in DOMAIN RemoveAt(A, i) : \E k \in DOMAIN A : RemoveAt(A, i)[m] = A[k]
    BY <2>1, RemoveAtIs
  <2> QED
    BY <2>2 DEF A
<1>3. AnswersAreFor(RemoveAt(trees.asked, i), list.cards, list.mixed)
  <2> DEFINE rest == RemoveAt(trees.asked, i)
  <2> SUFFICES ASSUME NEW m \in DOMAIN rest, rest[m].at # 0
               PROVE  /\ rest[m].at \in DOMAIN list.cards
                      /\ list.mixed \/ rest[m].log = list.cards[rest[m].at].log
    BY DEF AnswersAreFor
  <2>1. PICK k \in DOMAIN trees.asked : rest[m] = trees.asked[k]
    BY <1>2
  <2> QED
    BY <1>1, <2>1 DEF AnswersAreFor
<1>4. ASSUME NEW k \in DOMAIN trees.asked, trees.asked[k].at # trees.asked[i].at
      PROVE  \E m \in DOMAIN RemoveAt(trees.asked, i) :
               RemoveAt(trees.asked, i)[m].at = trees.asked[k].at
  <2>1. \E m \in DOMAIN RemoveAt(trees.asked, i) : RemoveAt(trees.asked, i)[m] = trees.asked[k]
    BY <1>1, <1>4, StillAsked
  <2> QED
    BY <2>1
<1> QED
  BY <1>2, <1>3, <1>4

LEMMA ToggleStep ==
  ASSUME TreesInv, ListInv, NEW k \in DOMAIN list.cards, ToggleVictimTree(k)
  PROVE  TreesInv'
<1> DEFINE j == FirstNumbered(k)
           log == list.cards[k].log
           A == trees.asked
           E == trees.elements
<1>1. /\ j \in DOMAIN list.cards /\ j # 0
      /\ list.mixed \/ list.cards[j].log = log
  BY FirstNumberedIs
<1>2. /\ A \in Seq(RequestTypes) /\ trees.cached \in SUBSET Logs /\ E[j] \in ElementTypes
      /\ AnswersAreFor(A, list.cards, list.mixed) /\ log \in Logs /\ Len(A) \in Nat
      /\ DOMAIN A = 1 .. Len(A) /\ j \in Nat
      /\ SettledTree(E[j], j, A, trees.cached, list.mixed, list.cards[j].log)
  <2>1. E \in Seq(ElementTypes) /\ DOMAIN list.cards = 1 .. Len(E)
    BY DEF TreesInv, TreesAre
  <2>2. list.cards[k] \in CardTypes
    BY ElementOfSeq, LenProperties DEF ListInv
  <2>3. E[j] \in ElementTypes
    BY <1>1, <2>1, ElementOfSeq
  <2> QED
    BY <1>1, <2>1, <2>2, <2>3, LenProperties DEF TreesInv, TreesAre, CardTypes
<1>3. list' = list
  BY DEF ToggleVictimTree
<1>4. ASSUME NEW e \in ElementTypes, NEW queue \in Seq(RequestTypes),
             trees' = [trees EXCEPT !.elements = [E EXCEPT ![j] = e], !.asked = queue],
             AnswersAreFor(queue, list.cards, list.mixed),
             SettledTree(e, j, queue, trees.cached, list.mixed, list.cards[j].log),
             \A i \in DOMAIN A : \E m \in DOMAIN queue : queue[m].at = A[i].at
      PROVE  TreesInv'
  <2>1. TreesAre([E EXCEPT ![j] = e], queue, trees.cached, list.cards, list.mixed)
    BY <1>1, <1>2, <1>4, OneElementChanges
  <2>2. [E EXCEPT ![j] = e] \in Seq(ElementTypes)
    BY <2>1 DEF TreesAre
  <2> HIDE DEF j, E
  <2>3. /\ trees'.elements = [E EXCEPT ![j] = e] /\ trees'.asked = queue
        /\ trees'.cached = trees.cached
        /\ trees' \in [elements: Seq(ElementTypes), asked: Seq(RequestTypes), cached: SUBSET Logs]
    BY <1>4, <2>2 DEF TreesInv
  <2> QED
    BY <1>3, <2>1, <2>3 DEF TreesInv
<1>5. CASE E[j].open /\ CloseTree(j)
  <2> DEFINE e == [E[j] EXCEPT !.open = FALSE]
  <2>1. /\ e \in ElementTypes /\ e.body = E[j].body /\ e.orphan = E[j].orphan
        /\ e.of = E[j].of /\ e.open = FALSE
    BY <1>2 DEF ElementTypes
  <2>2. trees' = [trees EXCEPT !.elements = [E EXCEPT ![j] = e], !.asked = A]
    BY <1>5 DEF CloseTree, TreesInv
  <2> HIDE DEF e
  <2>3. SettledTree(e, j, A, trees.cached, list.mixed, list.cards[j].log)
    BY <1>2, <2>1 DEF SettledTree
  <2> QED
    BY <1>2, <1>4, <2>1, <2>2, <2>3
<1>6. CASE ShowCached(j, log)
  <2> DEFINE e == [open |-> TRUE, body |-> "tree", of |-> log, orphan |-> FALSE]
  <2>1. e \in ElementTypes
    BY <1>2 DEF ElementTypes
  <2>2. trees' = [trees EXCEPT !.elements = [E EXCEPT ![j] = e], !.asked = A]
    BY <1>6 DEF ShowCached, TreesInv
  <2>3. SettledTree(e, j, A, trees.cached, list.mixed, list.cards[j].log)
    BY <1>1, <1>6 DEF SettledTree, ShowCached
  <2> HIDE DEF e
  <2> QED
    BY <1>2, <1>4, <2>1, <2>2, <2>3
<1>7. CASE FetchManifest(j, log)
  <2> DEFINE e == [open |-> TRUE, body |-> "loading", of |-> NoLog, orphan |-> FALSE]
             q == [log |-> log, at |-> j]
             queue == Append(A, q)
  <2>1. e \in ElementTypes /\ q \in RequestTypes /\ q.at = j /\ q.log = log
    BY <1>2 DEF ElementTypes, RequestTypes
  <2>2. trees' = [trees EXCEPT !.elements = [E EXCEPT ![j] = e], !.asked = queue]
    BY <1>7 DEF FetchManifest, TreesInv
  <2>3. /\ queue \in Seq(RequestTypes) /\ DOMAIN queue = 1 .. Len(A) + 1
        /\ queue[Len(A) + 1] = q /\ \A i \in 1 .. Len(A) : queue[i] = A[i]
    BY <1>2, <2>1, AppendProperties
  <2> HIDE DEF q, queue
  <2>4. AnswersAreFor(queue, list.cards, list.mixed)
    <3> SUFFICES ASSUME NEW i \in 1 .. Len(A) + 1, queue[i].at # 0
                 PROVE  /\ queue[i].at \in DOMAIN list.cards
                        /\ list.mixed \/ queue[i].log = list.cards[queue[i].at].log
      BY <2>3 DEF AnswersAreFor
    <3>1. CASE i \in 1 .. Len(A)
      BY <1>2, <2>3, <3>1 DEF AnswersAreFor
    <3>2. CASE i = Len(A) + 1
      BY <1>1, <2>1, <2>3, <3>2
    <3> QED
      BY <1>2, <3>1, <3>2
  <2>5. Len(A) + 1 \in DOMAIN queue /\ queue[Len(A) + 1].at = j
    BY <1>2, <2>1, <2>3
  <2>6. SettledTree(e, j, queue, trees.cached, list.mixed, list.cards[j].log)
    BY <2>5 DEF SettledTree
  <2>7. \A i \in DOMAIN A : \E m \in DOMAIN queue : queue[m].at = A[i].at
    BY <1>2, <2>3
  <2> HIDE DEF e
  <2> QED
    BY <1>4, <2>1, <2>2, <2>3, <2>4, <2>6, <2>7
<1> QED
  BY <1>5, <1>6, <1>7 DEF ToggleVictimTree

LEMMA ManifestStep ==
  ASSUME TreesInv, ListInv, NEW i \in DOMAIN trees.asked, ManifestAnswered(i)
  PROVE  TreesInv'
<1> DEFINE j == trees.asked[i].at
           log == trees.asked[i].log
           rest == RemoveAt(trees.asked, i)
           E == trees.elements
           shown == [E[j] EXCEPT !.body = "tree", !.of = log]
           failed == ErrorBody(E[j])
<1>1. /\ trees.asked \in Seq(RequestTypes) /\ trees.cached \in SUBSET Logs /\ log \in Logs
      /\ j \in Nat /\ AnswersAreFor(trees.asked, list.cards, list.mixed)
      /\ E \in Seq(ElementTypes)
  <2>1. trees.asked \in Seq(RequestTypes) /\ i \in 1 .. Len(trees.asked)
    BY LenProperties DEF TreesInv, TreesAre
  <2>2. trees.asked[i] \in RequestTypes
    BY <2>1, ElementOfSeq
  <2> QED
    BY <2>1, <2>2 DEF TreesInv, TreesAre, RequestTypes
<1>2. /\ rest \in Seq(RequestTypes) /\ AnswersAreFor(rest, list.cards, list.mixed)
      /\ \A k \in DOMAIN trees.asked : trees.asked[k].at # j =>
           \E m \in DOMAIN rest : rest[m].at = trees.asked[k].at
  BY AnswersLeft
<1>3. PICK e \in {shown, failed}, cached \in {trees.cached, trees.cached \cup {log}} :
        /\ trees' = [elements |-> Written(j, e), asked |-> rest, cached |-> cached]
        /\ (e = shown /\ log \in cached) \/ e = failed
  <2>1. \/ trees' = [elements |-> Written(j, shown), asked |-> rest,
                     cached |-> trees.cached \cup {log}]
        \/ trees' = [elements |-> Written(j, failed), asked |-> rest, cached |-> trees.cached]
    BY DEF ManifestAnswered
  <2> HIDE DEF rest, shown, failed, log, j
  <2> QED
    BY <2>1
<1>4. cached \in SUBSET Logs /\ trees.cached \subseteq cached /\ list' = list
  BY <1>1 DEF ManifestAnswered
<1>5. CASE j = 0
  <2>1. trees' = [elements |-> E, asked |-> rest, cached |-> cached]
    BY <1>3, <1>5 DEF Written
  <2>2. ASSUME NEW k \in DOMAIN list.cards
        PROVE  SettledTree(E[k], k, rest, cached, list.mixed, list.cards[k].log)
    <3>1. SettledTree(E[k], k, trees.asked, trees.cached, list.mixed, list.cards[k].log)
      BY <2>2 DEF TreesInv, TreesAre
    <3>2. k # 0
      BY <2>2, LenProperties DEF ListInv
    <3>3. (\E m \in DOMAIN trees.asked : trees.asked[m].at = k) => \E m \in DOMAIN rest : rest[m].at = k
      BY <1>2, <1>5, <3>2
    <3> HIDE DEF E, rest
    <3> QED
      BY <1>4, <3>1, <3>3 DEF SettledTree
  <2>3. TreesAre(E, rest, cached, list.cards, list.mixed)
    BY <1>2, <1>4, <2>2 DEF TreesInv, TreesAre
  <2> HIDE DEF E, rest
  <2> QED
    BY <1>1, <1>2, <1>4, <2>1, <2>3 DEF TreesInv
<1>6. CASE j # 0
  <2>1. j \in DOMAIN list.cards /\ (list.mixed \/ log = list.cards[j].log)
    BY <1>1, <1>6 DEF AnswersAreFor
  <2>2. E[j] \in ElementTypes
    <3>1. DOMAIN list.cards = 1 .. Len(E)
      BY DEF TreesInv, TreesAre
    <3> QED
      BY <1>1, <2>1, <3>1, ElementOfSeq
  <2>3. e \in ElementTypes /\ SettledTree(e, j, rest, cached, list.mixed, list.cards[j].log)
    <3>1. CASE e = shown /\ log \in cached
      <4>1. shown \in ElementTypes /\ shown.body = "tree" /\ shown.of = log
        BY <1>1, <2>2 DEF ElementTypes
      <4> HIDE DEF shown
      <4> QED
        BY <2>1, <3>1, <4>1 DEF SettledTree
    <3>2. CASE e = failed
      <4>1. failed \in ElementTypes /\ failed.body = "error"
        BY <2>2 DEF ErrorBody, ElementTypes
      <4> HIDE DEF failed
      <4> QED
        BY <3>2, <4>1 DEF SettledTree
    <3> QED
      BY <1>3, <3>1, <3>2
  <2>4. trees' = [elements |-> [E EXCEPT ![j] = e], asked |-> rest, cached |-> cached]
    BY <1>3, <1>6 DEF Written
  <2> HIDE DEF E, rest, log, shown, failed
  <2>5. TreesAre([E EXCEPT ![j] = e], rest, cached, list.cards, list.mixed)
    BY <1>2, <1>4, <2>1, <2>3, OneElementChanges DEF E
  <2> HIDE DEF j
  <2>6. [E EXCEPT ![j] = e] \in Seq(ElementTypes)
    BY <2>5 DEF TreesAre
  <2> QED
    BY <1>2, <1>4, <2>4, <2>5, <2>6 DEF TreesInv
<1> QED
  BY <1>5, <1>6

LEMMA TreesStep == PagesInv /\ ListInv /\ TreesInv /\ VictimsNext => TreesInv'
<1> SUFFICES ASSUME PagesInv, ListInv, TreesInv, VictimsNext PROVE TreesInv'
  OBVIOUS
<1>1. ASSUME trees' = trees, list'.cards = list.cards, list'.mixed = list.mixed PROVE TreesInv'
  BY <1>1 DEF TreesInv
<1>2. ASSUME NEW r \in Results, ResultsDrawn(r) PROVE TreesInv'
  <2> DEFINE n == Len(list'.cards)
             new == [k \in 1 .. n |-> NewElement]
             queue == Detached(trees.asked)
  <2>1. ListInv'
    BY ListStep
  <2>2. list'.cards \in Seq(CardTypes) /\ n \in Nat /\ DOMAIN list'.cards = 1 .. n
    BY <2>1, LenProperties DEF ListInv
  <2>3. trees' = [trees EXCEPT !.elements = new, !.asked = queue]
    <3>1. list'.cards = IF current = NoSearch THEN <<>> ELSE CardsOf(current, victims[current].pages)
      BY <1>2 DEF ResultsDrawn
    <3> QED
      BY <1>2, <3>1 DEF ResultsDrawn
  <2>4. NewElement \in ElementTypes /\ NewElement.open = FALSE /\ NewElement.body = "empty"
    BY DEF NewElement, ElementTypes
  <2>5. /\ queue \in Seq(RequestTypes) /\ \A i \in DOMAIN queue : queue[i].at = 0
        /\ trees.cached \in SUBSET Logs
    BY DetachedAre DEF TreesInv, TreesAre
  <2>6. new \in Seq(ElementTypes) /\ Len(new) = n
    <3>1. new \in [1 .. n -> ElementTypes]
      BY <2>4
    <3> HIDE DEF new, n
    <3> QED
      BY <2>2, <3>1, Listed
  <2>7. \A k \in 1 .. n : new[k] = NewElement
    OBVIOUS
  <2> HIDE DEF n, new, queue
  <2>8. trees'.elements = new /\ trees'.asked = queue /\ trees'.cached = trees.cached
        /\ trees' \in [elements: Seq(ElementTypes), asked: Seq(RequestTypes), cached: SUBSET Logs]
    BY <2>3, <2>5, <2>6 DEF TreesInv
  <2>9. TreesAre(new, queue, trees.cached, list'.cards, list'.mixed)
    BY <2>2, <2>4, <2>5, <2>6, <2>7 DEF TreesAre, AnswersAreFor, SettledTree
  <2> QED
    BY <2>8, <2>9 DEF TreesInv
<1>3. ASSUME NEW r \in Results, NEW i \in DOMAIN victims[r].asked,
             PageServed(r, i) \/ PageRefused(r, i) \/ PageFails(r, i)
      PROVE  TreesInv'
  <2> DEFINE old == [k \in 1 .. Len(trees.elements) |->
                       [trees.elements[k] EXCEPT
                          !.orphan = @ \/ \E m \in DOMAIN trees.asked : trees.asked[m].at = k]]
             queue == Detached(trees.asked)
  <2>1. TreesAre(old, queue, trees.cached, list.cards, list.mixed)
    BY RebuiltOld
  <2>2. \A k \in DOMAIN queue : queue[k].at = 0
    BY DetachedAre DEF TreesInv, TreesAre
  <2>3. ASSUME NEW elements, NEW cards, NEW mixed,
               trees' = [trees EXCEPT !.elements = elements, !.asked = queue],
               list'.cards = cards, list'.mixed = mixed,
               TreesAre(elements, queue, trees.cached, cards, mixed)
        PROVE  TreesInv'
    <3> HIDE DEF queue
    <3>1. elements \in Seq(ElementTypes) /\ queue \in Seq(RequestTypes)
      BY <2>3 DEF TreesAre
    <3>2. /\ trees'.elements = elements /\ trees'.asked = queue /\ trees'.cached = trees.cached
          /\ trees' \in [elements: Seq(ElementTypes), asked: Seq(RequestTypes), cached: SUBSET Logs]
      BY <2>3, <3>1 DEF TreesInv
    <3> QED
      BY <2>3, <3>2 DEF TreesInv
  <2>4. CASE PageServed(r, i) /\ list.cards # <<>>
    <3> DEFINE card == Card(r, victims[r].asked[i] + 1, Len(victims[r].pages) + 1)
    <3>1. list' = [list EXCEPT !.cards = Append(@, card), !.mixed = @ \/ r # list.drawn]
      BY <2>4 DEF PageServed
    <3>2. trees' = [trees EXCEPT !.elements = Append(old, NewElement), !.asked = queue]
      BY <2>4 DEF PageServed, RebuiltTrees
    <3>3. card \in CardTypes
      <4>1. Kept(victims[r]) /\ victims[r].pages \in Seq(Pages)
        BY DEF PagesInv, VictimTypes
      <4>2. victims[r].asked[i] + 1 \in Pages /\ Len(victims[r].pages) \in Nat
        BY <4>1, ServedIsKept, LenProperties
      <4> QED
        BY <4>2 DEF Card, CardTypes, Logs, Pages
    <3> HIDE DEF card, old, queue
    <3>4. /\ list'.cards = Append(list.cards, card)
          /\ list'.mixed \in BOOLEAN /\ (list.mixed => list'.mixed)
          /\ list.cards \in Seq(CardTypes) /\ list.mixed \in BOOLEAN
      BY <3>1 DEF ListInv
    <3>5. TreesAre(Append(old, NewElement), queue, trees.cached, Append(list.cards, card),
                   list'.mixed)
      BY <2>1, <2>2, <3>3, <3>4, RebuiltWithNew
    <3> QED
      BY <2>3, <3>2, <3>4, <3>5
  <2>5. CASE PageRefused(r, i) /\ list.cards # <<>>
    <3>1. trees' = [trees EXCEPT !.elements = old, !.asked = queue] /\ list' = list
      BY <2>5 DEF PageRefused, RebuiltTrees
    <3> HIDE DEF old, queue
    <3> QED
      BY <2>1, <2>3, <3>1
  <2>6. CASE trees' = trees /\ list' = list
    BY <1>1, <2>6
  <2> QED
    BY <1>3, <2>4, <2>5, <2>6 DEF PageServed, PageRefused, PageFails
<1>4. CASE VictimAnswers
  BY <1>3, <1>4 DEF VictimAnswers
<1>5. ASSUME NEW r \in Results, SearchBegins(r) PROVE TreesInv'
  BY <1>1, <1>5 DEF SearchBegins, ListInv
<1>6. CASE UNCHANGED <<list, trees>>
  BY <1>1, <1>6
<1>7. \/ \E r \in Results : SearchBegins(r) \/ ResultsDrawn(r)
      \/ VictimAnswers \/ UNCHANGED <<list, trees>>
      \/ \E k \in DOMAIN list.cards : ToggleVictimTree(k)
      \/ \E i \in DOMAIN trees.asked : ManifestAnswered(i)
  BY DEF VictimsNext, ListNext, ViewerNext, VictimsEvent, LoadMoreVictims,
         ViewVictimFile, FileAnswers, FileAnswered, CloseFileViewer
<1> QED
  BY <1>2, <1>4, <1>5, <1>6, <1>7, ToggleStep, ManifestStep
-----------------------------------------------------------------------------

-----------------------------------------------------------------------------
(***************************************************************************)
(* The viewer.                                                             *)
(***************************************************************************)
ViewerTypes == [visible: BOOLEAN, title: Files \cup {"none"},
                content: Files \cup {"none", "loading", "error"}, asked: Seq(Files),
                overtaken: SUBSET Files]

\* A file still to come is that of the title, or was when the title was opened.
ViewerInv ==
  /\ viewer \in ViewerTypes
  /\ ViewerShowsItsFile
  /\ \A i \in DOMAIN viewer.asked : viewer.asked[i] \in viewer.overtaken \cup {viewer.title}

LEMMA ViewerAtFirst == VictimsInit => ViewerInv
<1>1. <<>> \in Seq(Files) /\ DOMAIN <<>> = {}
  OBVIOUS
<1> QED
  BY <1>1 DEF VictimsInit, ViewerInv, ViewerTypes, ViewerShowsItsFile

LEMMA ViewerStep == ViewerInv /\ VictimsNext => ViewerInv'
<1> SUFFICES ASSUME ViewerInv, VictimsNext PROVE ViewerInv'
  OBVIOUS
<1>1. /\ viewer \in ViewerTypes /\ viewer.asked \in Seq(Files)
      /\ DOMAIN viewer.asked = 1 .. Len(viewer.asked) /\ Len(viewer.asked) \in Nat
  BY LenProperties DEF ViewerInv, ViewerTypes
<1>2. ASSUME NEW f \in Files, ViewVictimFile(f) PROVE ViewerInv'
  <2> DEFINE queue == Append(viewer.asked, f)
             n == Len(viewer.asked)
             pending == Range(viewer.asked)
  <2>1. /\ queue \in Seq(Files) /\ queue # <<>> /\ DOMAIN queue = 1 .. n + 1
        /\ queue[n + 1] = f /\ \A i \in 1 .. n : queue[i] = viewer.asked[i]
    BY <1>1, AppendProperties
  <2>2. /\ pending \in SUBSET Files
        /\ \A i \in 1 .. n : viewer.asked[i] \in pending
    BY <1>1, ElementOfSeq DEF Range
  <2>3. viewer' = [viewer EXCEPT !.visible = TRUE, !.title = f, !.content = "loading",
                                 !.asked = queue, !.overtaken = pending]
    BY <1>1, <1>2 DEF ViewVictimFile, OpensEmpty, ViewerTypes
  <2> HIDE DEF queue, pending
  <2>4. /\ viewer' \in ViewerTypes /\ viewer'.title = f /\ viewer'.content = "loading"
        /\ viewer'.asked = queue /\ viewer'.overtaken = pending
    BY <1>1, <2>1, <2>2, <2>3 DEF ViewerTypes
  <2>5. \A i \in DOMAIN queue : queue[i] \in pending \cup {f}
    <3> TAKE i \in DOMAIN queue
    <3>1. i \in 1 .. n \/ i = n + 1
      BY <1>1, <2>1
    <3> QED
      BY <2>1, <2>2, <3>1
  <2> QED
    BY <2>1, <2>4, <2>5 DEF ViewerInv, ViewerShowsItsFile
<1>3. ASSUME NEW i \in DOMAIN viewer.asked, FileAnswered(i) PROVE ViewerInv'
  <2> DEFINE rest == RemoveAt(viewer.asked, i)
  <2>1. i \in 1 .. Len(viewer.asked) /\ viewer.asked[i] \in Files
    BY <1>1, ElementOfSeq
  <2>2. /\ rest \in Seq(Files)
        /\ \A k \in DOMAIN rest : \E m \in DOMAIN viewer.asked : rest[k] = viewer.asked[m]
    <3> DEFINE A == viewer.asked
    <3>1. A \in Seq(Files) /\ i \in 1 .. Len(A)
      BY <1>1
    <3> HIDE DEF A
    <3>2. /\ RemoveAt(A, i) \in Seq(Files)
          /\ \A k \in DOMAIN RemoveAt(A, i) : \E m \in DOMAIN A : RemoveAt(A, i)[k] = A[m]
      BY <3>1, RemoveAtIs
    <3> QED
      BY <3>2 DEF A
  <2>3. PICK text \in {viewer.asked[i], "error"} :
          viewer' = [viewer EXCEPT !.content = text, !.asked = rest]
    BY <1>3 DEF FileAnswered
  <2>4. text # "loading" /\ text \in Files \cup {"error"}
    BY <2>1, VictimAssumption
  <2> HIDE DEF rest
  <2>5. /\ viewer' \in ViewerTypes /\ viewer'.title = viewer.title /\ viewer'.content = text
        /\ viewer'.asked = rest /\ viewer'.overtaken = viewer.overtaken
        /\ viewer'.visible = viewer.visible
    BY <1>1, <2>2, <2>3, <2>4 DEF ViewerTypes
  <2>6. text \in {"error", viewer.title} \cup viewer.overtaken
    BY DEF ViewerInv
  <2> QED
    BY <2>2, <2>4, <2>5, <2>6 DEF ViewerInv, ViewerShowsItsFile
<1>4. CASE CloseFileViewer
  BY <1>1, <1>4 DEF CloseFileViewer, ViewerInv, ViewerTypes, ViewerShowsItsFile
<1>5. CASE UNCHANGED viewer
  BY <1>5 DEF ViewerInv, ViewerShowsItsFile
<1>6. \/ \E f \in Files : ViewVictimFile(f)
      \/ \E i \in DOMAIN viewer.asked : FileAnswered(i)
      \/ CloseFileViewer \/ UNCHANGED viewer
  BY DEF VictimsNext, ListNext, ViewerNext, SearchBegins, VictimsEvent, ResultsDrawn,
         LoadMoreVictims, VictimAnswers, ToggleVictimTree, ManifestAnswered, FileAnswers
<1> QED
  BY <1>2, <1>3, <1>4, <1>5, <1>6

-----------------------------------------------------------------------------
(***************************************************************************)
(* All of them.                                                            *)
(***************************************************************************)
VictimsInv == PagesInv /\ ListInv /\ TreesInv /\ ViewerInv

LEMMA VictimsInvInit == VictimsInit => VictimsInv
  BY NoneHeldAtFirst, ListAtFirst, TreesAtFirst, ViewerAtFirst DEF VictimsInv

LEMMA VictimsInvStep == VictimsInv /\ [VictimsNext]_victimVars => VictimsInv'
<1> SUFFICES ASSUME VictimsInv, [VictimsNext]_victimVars PROVE VictimsInv'
  OBVIOUS
<1>1. CASE VictimsNext
  BY <1>1, PagesStep, ListStep, TreesStep, ViewerStep DEF VictimsInv
<1>2. CASE UNCHANGED victimVars
  BY <1>2 DEF victimVars, VictimsInv, PagesInv, ListInv, TreesInv, ViewerInv, ViewerShowsItsFile
<1> QED
  BY <1>1, <1>2

LEMMA VictimsInvImplies == VictimsInv => VictimsAreShown
<1> SUFFICES ASSUME VictimsInv PROVE VictimsAreShown
  OBVIOUS
<1>1. NoPageIsSkipped
  BY DEF VictimsInv, PagesInv, Kept, NoneSkipped, InTurn, NoPageIsSkipped
<1> QED
  BY <1>1, ListIsHeld, TreesInvSettles DEF VictimsInv, ViewerInv, VictimsAreShown
-----------------------------------------------------------------------------

-----------------------------------------------------------------------------
(***************************************************************************)
(* The search of the page: its operators.                                  *)
(***************************************************************************)
\* Rows the server answers, one chunk after the other.
LEMMA ChunksAreRows ==
  ASSUME NEW s \in Owners, NEW c \in Nat, NEW n \in Nat
  PROVE  /\ [i \in 1 .. n |-> <<s, c + i>>] \in Rows
         /\ Len([i \in 1 .. n |-> <<s, c + i>>]) = n
         /\ \A i \in 1 .. n : [k \in 1 .. n |-> <<s, c + k>>][i] = <<s, c + i>>
  BY DEF Rows

\* The rows on the page are the first of an object's.
LEMMA RowsShownFirst ==
  ASSUME NEW rows \in Rows, NEW page \in Nat
  PROVE  /\ RowsShown(rows, page) \in Rows
         /\ \A i \in DOMAIN RowsShown(rows, page) :
              i \in DOMAIN rows /\ RowsShown(rows, page)[i] = rows[i]
<1> DEFINE n == IF page + 1 < Len(rows) THEN page + 1 ELSE Len(rows)
<1>1. Len(rows) \in Nat /\ n \in Nat /\ n <= Len(rows) /\ DOMAIN rows = 1 .. Len(rows)
  BY LenProperties DEF Rows
<1>2. RowsShown(rows, page) = SubSeq(rows, 1, n)
  BY DEF RowsShown
<1> HIDE DEF n
<1>3. \A i \in 1 .. n : rows[i] \in Owners \X Nat
  BY <1>1, ElementOfSeq DEF Rows
<1>4. /\ SubSeq(rows, 1, n) \in Rows
      /\ Len(SubSeq(rows, 1, n)) = n
      /\ \A i \in 1 .. n : SubSeq(rows, 1, n)[i] = rows[i]
  BY <1>1, <1>3, SubSeqProperties DEF Rows
<1>5. DOMAIN SubSeq(rows, 1, n) = 1 .. n
  BY <1>4, LenProperties DEF Rows
<1> QED
  BY <1>1, <1>2, <1>4, <1>5

\* An entry goes first, the others move by one, the oldest may go.
LEMMA HistoryFirst ==
  ASSUME history \in Seq(Owners), NEW o \in Owners
  PROVE  LET n == IF Len(history) + 1 > HistoryCap THEN HistoryCap ELSE Len(history) + 1
             saved == SubSeq(<<o>> \o history, 1, n)
         IN  /\ saved \in Seq(Owners) /\ Len(saved) <= HistoryCap
             /\ saved # <<>> /\ saved[1] = o
             /\ \A i \in DOMAIN saved : 
                  i = 1 \/ (i - 1 \in DOMAIN history /\ saved[i] = history[i - 1])
<1> DEFINE n == IF Len(history) + 1 > HistoryCap THEN HistoryCap ELSE Len(history) + 1
           all == <<o>> \o history
           saved == SubSeq(all, 1, n)
<1>1. /\ Len(history) \in Nat /\ n \in 1 .. Len(history) + 1 /\ n <= HistoryCap
      /\ DOMAIN history = 1 .. Len(history)
  BY LegacyPageAssumption, LenProperties
<1>2. /\ all \in Seq(Owners) /\ Len(all) = Len(history) + 1 /\ all[1] = o
      /\ \A i \in 2 .. Len(history) + 1 : all[i] = history[i - 1]
  <2>1. <<o>> \in Seq(Owners) /\ Len(<<o>>) = 1 /\ <<o>>[1] = o
    OBVIOUS
  <2> DEFINE first == <<o>>
  <2> HIDE DEF first
  <2>2. /\ first \o history \in Seq(Owners)
        /\ Len(first \o history) = Len(first) + Len(history)
        /\ \A i \in 1 .. Len(first) + Len(history) :
             (first \o history)[i] = IF i <= Len(first) THEN first[i] ELSE history[i - Len(first)]
    BY <2>1, ConcatProperties DEF first
  <2>3. Len(first) = 1 /\ first[1] = o
    BY <2>1 DEF first
  <2>4. all = first \o history
    BY DEF first
  <2> HIDE DEF all
  <2> QED
    BY <1>1, <2>2, <2>3, <2>4
<1> HIDE DEF n, all
<1>3. \A i \in 1 .. n : all[i] \in Owners
  <2>1. \A i \in 1 .. n : i \in 1 .. Len(all)
    BY <1>1, <1>2
  <2> QED
    BY <1>2, <2>1, ElementOfSeq
<1>4. /\ saved \in Seq(Owners) /\ Len(saved) = n
      /\ \A i \in 1 .. n : saved[i] = all[i]
  BY <1>1, <1>3, SubSeqProperties
<1> HIDE DEF saved
<1>5. DOMAIN saved = 1 .. n
  BY <1>4, LenProperties
<1>6. saved # <<>> /\ saved[1] = o
  BY <1>1, <1>2, <1>4
<1>7. \A i \in DOMAIN saved : i = 1 \/ (i - 1 \in DOMAIN history /\ saved[i] = history[i - 1])
  BY <1>1, <1>2, <1>4, <1>5
<1>8. Len(saved) <= HistoryCap
  BY <1>1, <1>4
<1> QED
  BY <1>4, <1>6, <1>7, <1>8 DEF saved, all, n

-----------------------------------------------------------------------------
(***************************************************************************)
(* The search of the page: its steps.                                      *)
(***************************************************************************)
LEMMA OwnersAreNumbers == Owners \subseteq Nat /\ Searches \subseteq Owners
  BY LegacyPageAssumption DEF Owners, Nobody

\* What the parts of the invariant say of the types.
LEMMA LegacyTypesHold == LegacyTyped => LegacyTypeOK
  BY DEF LegacyTyped, LegacyTypeOK, ResultTypes, PagerTypes, Owners

LEMMA LegacyInvInit == LegacyInit => LegacyInv
<1> SUFFICES ASSUME LegacyInit PROVE LegacyInv
  OBVIOUS
<1> USE DEF LegacyInit, Nobody, NoCursor, NewResult
<1>1. <<>> \in Rows /\ <<>> \in Seq(Loads) /\ <<>> \in Seq(Owners) /\ Len(<<>>) = 0
  BY EmptySeq DEF Rows
<1>2. LegacyTyped
  <2>1. legacy \in [Searches -> Coroutines]
    BY DEF Coroutines
  <2>2. result \in ResultTypes
    BY LegacyPageAssumption DEF ResultTypes, Owners
  <2>3. pager \in PagerTypes
    BY <1>1 DEF PagerTypes
  <2>4. screen \in ScreenTypes
    <3>1. 0 \in Owners /\ {} \in SUBSET {"breach", "sherlock"} /\ <<>> \in Rows
      BY <1>1 DEF Owners
    <3>2. screen = [scan |-> FALSE, button |-> TRUE, results |-> FALSE, target |-> 0,
                    rows |-> <<>>, social |-> 0, notRun |-> {}]
      OBVIOUS
    <3> HIDE DEF LegacyInit
    <3> QED
      BY <3>1, <3>2 DEF ScreenTypes
  <2>5. oathnet \in [Searches -> Rows]
    BY <1>1
  <2>6. modulesRan \subseteq {"breach", "sherlock"} /\ overlap \in BOOLEAN
    OBVIOUS
  <2>7. history \in Seq(Owners) /\ Len(history) <= HistoryCap
    <3>1. history = <<>> /\ 0 <= HistoryCap
      BY LegacyPageAssumption
    <3> HIDE DEF LegacyInit
    <3> QED
      BY <1>1, <3>1
  <2> QED
    BY <2>1, <2>2, <2>3, <2>4, <2>5, <2>6, <2>7, Zenon DEF LegacyTyped
<1>3. ButtonsWait
  BY DEF ButtonsWait
<1>4. AloneInv
  BY LegacyPageAssumption
     DEF AloneInv, OneWriter, Busy, OneLoad, RowsComeOnceInOrder, RowsAreAnnounced, PageIsDrawn,
         HistoryIsOlder
<1> QED
  BY <1>2, <1>3, <1>4 DEF LegacyInv

\* A new search takes everything over; if nothing was pending, nobody else writes.
LEMMA StartSearchStep ==
  ASSUME LegacyInv, NEW s \in Searches, StartSearch(s)
  PROVE  LegacyInv'
<1> USE DEF Nobody, NoCursor
<1>1. /\ legacy \in [Searches -> Coroutines] /\ result \in ResultTypes
      /\ pager \in PagerTypes /\ screen \in ScreenTypes
      /\ history \in Seq(Owners) /\ s \in Nat
  BY LegacyPageAssumption DEF LegacyInv, LegacyTyped
<1>2. /\ legacy[s].at = "idle"
      /\ \A r \in Searches : r < s => legacy[r].at # "idle"
      /\ legacy' = [legacy EXCEPT ![s].at = "posting"]
      /\ result' = [owner |-> s, oathnet |-> Nobody, sherlock |-> Nobody, cursor |-> NoCursor]
      /\ screen' = [screen EXCEPT !.scan = TRUE, !.button = FALSE, !.results = FALSE]
      /\ overlap' = (overlap \/ Pending)
      /\ UNCHANGED <<oathnet, modulesRan, pager, history, asked>>
  BY DEF StartSearch, FreshResult, NewResult
<1>3. /\ legacy' \in [Searches -> Coroutines]
      /\ legacy'[s].at = "posting" /\ legacy'[s].sent = legacy[s].sent
      /\ legacy'[s].timer = legacy[s].timer
      /\ \A r \in Searches : r # s => legacy'[r] = legacy[r]
  BY <1>1, <1>2 DEF Coroutines
<1>4. /\ screen' \in ScreenTypes /\ ~screen'.results /\ ~screen'.button
      /\ screen'.target = screen.target
  BY <1>1, <1>2 DEF ScreenTypes
<1>5. LegacyTyped'
  BY <1>1, <1>2, <1>3, <1>4, LegacyPageAssumption DEF LegacyInv, LegacyTyped, ResultTypes, Owners
<1>6. ButtonsWait'
  BY <1>2, <1>3 DEF LegacyInv, ButtonsWait
<1>7. AloneInv'
  <2> SUFFICES ASSUME ~overlap' PROVE AloneInv'
    BY DEF AloneInv
  <2>1. /\ ~overlap /\ pager.loads = <<>> /\ \A r \in Searches : ~Busy(r)
        /\ OneWriter /\ RowsComeOnceInOrder /\ HistoryIsOlder
    BY <1>2 DEF Pending, LegacyInv, AloneInv
  <2>2. /\ \A r \in Searches : legacy[r].at \notin {"posting", "reading"} /\ ~legacy[r].timer
        /\ \A r \in Searches : legacy[r].at # "idle" <=> r <= result.owner
    BY <2>1 DEF Busy, OneWriter
  <2>3. result.owner \in Nat /\ result.owner < s
    BY <1>1, <1>2, <2>2, LegacyPageAssumption DEF ResultTypes, Owners
  <2>4. OneWriter'
    <3>1. \A r \in Searches : legacy'[r].at # "idle" <=> r <= s
      BY <1>1, <1>2, <1>3, <2>2, <2>3, LegacyPageAssumption
    <3> QED
      BY <1>2, <1>3, <1>4, <2>2, <3>1 DEF OneWriter, Busy
  <2>5. OneLoad' /\ RowsComeOnceInOrder' /\ PageIsDrawn'
    BY <1>2, <1>4, <2>1 DEF OneLoad, RowsComeOnceInOrder, PageIsDrawn
  <2>6. RowsAreAnnounced'
    BY <1>2, <1>3, <1>4, <2>2 DEF RowsAreAnnounced
  <2>7. HistoryIsOlder'
    <3>1. \A i \in DOMAIN history : history[i] \in Nat /\ history[i] <= result.owner
      <4>1. DOMAIN history = 1 .. Len(history) /\ \A i \in 1 .. Len(history) : history[i] \in Owners
        BY <1>1, LenProperties, ElementOfSeq
      <4> QED
        BY <2>1, <4>1, OwnersAreNumbers DEF HistoryIsOlder
    <3>2. \A i \in DOMAIN history : history[i] < s
      BY <1>1, <2>3, <3>1
    <3> QED
      BY <1>1, <1>2, <1>3, <1>4, <2>1, <2>2, <3>1, <3>2 DEF HistoryIsOlder, Complete
  <2> QED
    BY <2>4, <2>5, <2>6, <2>7 DEF AloneInv
<1> QED
  BY <1>5, <1>6, <1>7 DEF LegacyInv

\* The places the coroutine of one search takes while it posts and reads; the rest of
\* the state follows.
LEMMA SearchMoves ==
  ASSUME LegacyInv, NEW s \in Searches, NEW c \in Coroutines,
         legacy[s].at \in {"posting", "reading"},
         legacy' = [legacy EXCEPT ![s] = c],
         c.at # "idle",
         (c.at \in {"posting", "reading"} /\ "oathnet" \notin c.sent) =>
           "oathnet" \notin legacy[s].sent,
         Complete(s) => Complete(s)',
         c.timer => \/ legacy[s].timer /\ (Complete(s) => modulesRan' = modulesRan)
                    \/ /\ ~Complete(s) /\ Complete(s)'
                       /\ "breach" \in NotRunPanels' => "oathnet" \notin legacy[s].sent,
         modulesRan' \subseteq {"breach", "sherlock"},
         result' \in ResultTypes,
         \E who \in {result.sherlock, s} : result' = [result EXCEPT !.sherlock = who],
         screen' \in ScreenTypes,
         screen'.results = screen.results, screen'.target = screen.target,
         screen'.rows = screen.rows, screen'.social = screen.social,
         screen'.notRun = screen.notRun,
         \/ c.at \in {"posting", "reading"} /\ screen'.button = screen.button
         \/ screen'.button,
         UNCHANGED <<oathnet, pager, history, overlap, asked>>
  PROVE  LegacyInv'
<1> USE DEF Nobody, NoCursor
<1>1. /\ legacy \in [Searches -> Coroutines] /\ result \in ResultTypes
      /\ pager \in PagerTypes /\ screen \in ScreenTypes
  BY DEF LegacyInv, LegacyTyped
<1>2. /\ legacy' \in [Searches -> Coroutines] /\ legacy'[s] = c
      /\ \A r \in Searches : r # s => legacy'[r] = legacy[r]
  BY <1>1
<1>3. /\ result'.owner = result.owner /\ result'.oathnet = result.oathnet
      /\ result'.cursor = result.cursor /\ result'.sherlock \in {result.sherlock, s}
  BY <1>1 DEF ResultTypes
<1>4. LegacyTyped'
  BY <1>2 DEF LegacyInv, LegacyTyped
<1>5. ButtonsWait'
  BY <1>1, <1>2 DEF LegacyInv, ButtonsWait
<1>6. AloneInv'
  <2> SUFFICES ASSUME ~overlap' PROVE AloneInv'
    BY DEF AloneInv
  <2>1. /\ OneWriter /\ OneLoad /\ RowsComeOnceInOrder /\ RowsAreAnnounced /\ PageIsDrawn
        /\ HistoryIsOlder
    BY DEF LegacyInv, AloneInv
  <2>2. s = result.owner /\ \A r \in Searches : r # s => ~Busy(r)
    BY <2>1 DEF OneWriter, Busy
  <2>3. \A r \in Searches : r # s => legacy[r].at \notin {"posting", "reading"} /\ ~legacy[r].timer
    BY <2>2 DEF Busy
  <2>4. OneWriter'
    <3>1. \A r \in Searches : legacy'[r].at # "idle" <=> r <= result.owner
      BY <1>2, <2>1 DEF OneWriter
    <3>2. \A r \in Searches : Busy(r)' => r = result.owner
      BY <1>2, <2>2, <2>3 DEF Busy
    <3>3. screen'.results => \A r \in Searches : ~legacy'[r].timer
      BY <1>2, <2>1, <2>2 DEF OneWriter, RowsAreAnnounced
    <3> QED
      BY <1>3, <2>1, <2>2, <3>1, <3>2, <3>3 DEF OneWriter
  <2>5. OneLoad' /\ RowsComeOnceInOrder' /\ PageIsDrawn'
    BY <1>3, <2>1 DEF OneLoad, RowsComeOnceInOrder, PageIsDrawn
  <2>6. RowsAreAnnounced'
    <3>1. (c.at \in {"posting", "reading"} /\ "oathnet" \notin c.sent) => result.oathnet = Nobody
      BY <2>1 DEF RowsAreAnnounced
    <3>2. c.timer => Complete(s)' /\ ("breach" \in NotRunPanels' => result.oathnet = Nobody)
      <4>1. CASE legacy[s].timer /\ (Complete(s) => modulesRan' = modulesRan)
        BY <2>1, <4>1 DEF RowsAreAnnounced, NotRunPanels
      <4>2. CASE /\ ~Complete(s) /\ Complete(s)'
                 /\ "breach" \in NotRunPanels' => "oathnet" \notin legacy[s].sent
        BY <2>1, <4>2 DEF RowsAreAnnounced
      <4> QED
        BY <4>1, <4>2
    <3>3. screen.results => Complete(s)'
      BY <2>1, <2>2 DEF RowsAreAnnounced
    <3> QED
      BY <1>2, <1>3, <2>1, <2>2, <2>3, <3>1, <3>2, <3>3 DEF RowsAreAnnounced
  <2>7. HistoryIsOlder'
    <3>1. (c.timer \/ (c.at \in {"posting", "reading"} /\ ~Complete(s)')) =>
            \A i \in DOMAIN history : history[i] < s
      BY <2>1 DEF HistoryIsOlder
    <3> QED
      BY <1>2, <1>3, <2>1, <2>3, <3>1 DEF HistoryIsOlder
  <2> QED
    BY <2>4, <2>5, <2>6, <2>7 DEF AloneInv
<1> QED
  BY <1>4, <1>5, <1>6 DEF LegacyInv

\* The answer of the POST, the events and the end of the stream.
LEMMA RespondStep ==
  ASSUME LegacyInv, NEW s \in Searches, Respond(s)
  PROVE  LegacyInv'
<1>1. /\ legacy \in [Searches -> Coroutines] /\ result \in ResultTypes /\ screen \in ScreenTypes
      /\ modulesRan \subseteq {"breach", "sherlock"}
  BY DEF LegacyInv, LegacyTyped
<1>2. /\ legacy[s] \in Coroutines /\ legacy[s].at = "posting"
      /\ UNCHANGED <<result, oathnet, modulesRan, pager, history, overlap, asked>>
  BY <1>1 DEF Respond
<1>3. \A place \in {"reading", "ended"} : [legacy[s] EXCEPT !.at = place] \in Coroutines
  BY <1>2 DEF Coroutines
<1>4. result = [result EXCEPT !.sherlock = result.sherlock]
  BY <1>1 DEF ResultTypes
<1>5. ~Complete(s)
  BY <1>2 DEF Complete
<1>6. CASE legacy' = [legacy EXCEPT ![s].at = "reading"] /\ UNCHANGED screen
  <2> DEFINE c == [legacy[s] EXCEPT !.at = "reading"]
  <2>1. /\ c \in Coroutines /\ c.at = "reading" /\ c.sent = legacy[s].sent
        /\ c.timer = legacy[s].timer
    BY <1>2, <1>3 DEF Coroutines
  <2>2. legacy' = [legacy EXCEPT ![s] = c]
    BY <1>6
  <2> HIDE DEF c
  <2> QED
    BY <1>1, <1>2, <1>4, <1>5, <1>6, <2>1, <2>2, SearchMoves
<1>7. CASE legacy' = [legacy EXCEPT ![s].at = "ended"] /\ SearchFails(s)
  <2> DEFINE c == [legacy[s] EXCEPT !.at = "ended"]
  <2>1. /\ c \in Coroutines /\ c.at = "ended" /\ c.sent = legacy[s].sent
        /\ c.timer = legacy[s].timer
    BY <1>2, <1>3 DEF Coroutines
  <2>2. legacy' = [legacy EXCEPT ![s] = c]
    BY <1>7
  <2>3. /\ screen' \in ScreenTypes /\ screen'.button
        /\ screen'.results = screen.results /\ screen'.target = screen.target
        /\ screen'.rows = screen.rows /\ screen'.social = screen.social
        /\ screen'.notRun = screen.notRun
    BY <1>1, <1>7 DEF SearchFails, ScreenTypes
  <2> HIDE DEF c
  <2> QED
    BY <1>1, <1>2, <1>4, <1>5, <2>1, <2>2, <2>3, SearchMoves
<1> QED
  BY <1>6, <1>7 DEF Respond

LEMMA OnStartStep ==
  ASSUME LegacyInv, NEW s \in Searches, OnStart(s)
  PROVE  LegacyInv'
<1> DEFINE c == [legacy[s] EXCEPT !.sent = {"start"}]
<1>1. /\ legacy \in [Searches -> Coroutines] /\ result \in ResultTypes /\ screen \in ScreenTypes
  BY DEF LegacyInv, LegacyTyped
<1>2. /\ legacy[s] \in Coroutines /\ legacy[s].at = "reading" /\ legacy[s].sent = {}
      /\ modulesRan' = {}
      /\ UNCHANGED <<result, oathnet, pager, screen, history, overlap, asked>>
  BY <1>1 DEF OnStart, Receive
<1>3. /\ c \in Coroutines /\ c.at = "reading" /\ c.sent = {"start"}
      /\ c.timer = legacy[s].timer
  BY <1>2 DEF Coroutines
<1>4. result = [result EXCEPT !.sherlock = result.sherlock]
  BY <1>1 DEF ResultTypes
<1>5. legacy' = [legacy EXCEPT ![s] = c]
  BY DEF OnStart
<1>6. ~Complete(s)
  BY <1>2 DEF Complete
<1> HIDE DEF c
<1> QED
  BY <1>1, <1>2, <1>3, <1>4, <1>5, <1>6, SearchMoves

LEMMA OnSherlockStep ==
  ASSUME LegacyInv, NEW s \in Searches, OnSherlock(s)
  PROVE  LegacyInv'
<1> DEFINE c == [legacy[s] EXCEPT !.sent = @ \cup {"sherlock"}]
<1>1. /\ legacy \in [Searches -> Coroutines] /\ result \in ResultTypes /\ screen \in ScreenTypes
      /\ modulesRan \subseteq {"breach", "sherlock"}
  BY DEF LegacyInv, LegacyTyped
<1>2. /\ legacy[s] \in Coroutines /\ legacy[s].at = "reading" /\ "done" \notin legacy[s].sent
      /\ result' = [result EXCEPT !.sherlock = s]
      /\ UNCHANGED <<oathnet, modulesRan, pager, screen, history, overlap, asked>>
  BY <1>1 DEF OnSherlock, Receive
<1>3. /\ c \in Coroutines /\ c.at = "reading" /\ c.sent = legacy[s].sent \cup {"sherlock"}
      /\ c.timer = legacy[s].timer
  BY <1>2 DEF Coroutines
<1>4. result' \in ResultTypes
  BY <1>1, <1>2, OwnersAreNumbers DEF ResultTypes
<1>5. legacy' = [legacy EXCEPT ![s] = c]
  BY DEF OnSherlock
<1>6. ~Complete(s)
  BY <1>2 DEF Complete
<1> HIDE DEF c
<1> QED
  BY <1>1, <1>2, <1>3, <1>4, <1>5, <1>6, SearchMoves

LEMMA OnDoneStep ==
  ASSUME LegacyInv, NEW s \in Searches, OnDone(s)
  PROVE  LegacyInv'
<1> DEFINE c == [legacy[s] EXCEPT !.sent = @ \cup {"done"}, !.timer = TRUE]
<1>1. /\ legacy \in [Searches -> Coroutines] /\ result \in ResultTypes /\ screen \in ScreenTypes
  BY DEF LegacyInv, LegacyTyped
<1>2. /\ legacy[s] \in Coroutines /\ legacy[s].at = "reading" /\ "done" \notin legacy[s].sent
      /\ modulesRan' = ModulesRun(s)
      /\ UNCHANGED <<result, oathnet, pager, screen, history, overlap, asked>>
  BY <1>1 DEF OnDone, Receive
<1>3. /\ c \in Coroutines /\ c.at = "reading" /\ c.sent = legacy[s].sent \cup {"done"}
      /\ c.timer
  BY <1>2 DEF Coroutines
<1>4. result = [result EXCEPT !.sherlock = result.sherlock]
  BY <1>1 DEF ResultTypes
<1>5. legacy' = [legacy EXCEPT ![s] = c]
  BY DEF OnDone
<1>6. ~Complete(s)
  BY <1>2 DEF Complete
<1> HIDE DEF c
<1>7. Complete(s)'
  BY <1>1, <1>3, <1>5 DEF Complete
<1>8. /\ modulesRan' \subseteq {"breach", "sherlock"}
      /\ "breach" \in NotRunPanels' => "oathnet" \notin legacy[s].sent
  BY <1>2 DEF ModulesRun, NotRunPanels
<1> QED
  BY <1>1, <1>2, <1>3, <1>4, <1>5, <1>6, <1>7, <1>8, SearchMoves

LEMMA StreamEndsStep ==
  ASSUME LegacyInv, NEW s \in Searches, StreamEnds(s)
  PROVE  LegacyInv'
<1> DEFINE c == [legacy[s] EXCEPT !.at = "ended", !.sent = {}]
<1>1. /\ legacy \in [Searches -> Coroutines] /\ result \in ResultTypes /\ screen \in ScreenTypes
      /\ modulesRan \subseteq {"breach", "sherlock"}
  BY DEF LegacyInv, LegacyTyped
<1>2. /\ legacy[s] \in Coroutines /\ legacy[s].at = "reading"
      /\ UNCHANGED <<result, oathnet, modulesRan, pager, history, overlap, asked>>
  BY <1>1 DEF StreamEnds
<1>3. c \in Coroutines /\ c.at = "ended" /\ c.timer = legacy[s].timer
  BY <1>2 DEF Coroutines
<1>4. result = [result EXCEPT !.sherlock = result.sherlock]
  BY <1>1 DEF ResultTypes
<1>5. legacy' = [legacy EXCEPT ![s] = c]
  BY DEF StreamEnds
<1> HIDE DEF c
<1>6. Complete(s)'
  BY <1>1, <1>3, <1>5 DEF Complete
<1>7. /\ screen' \in ScreenTypes /\ screen'.button
      /\ screen'.results = screen.results /\ screen'.target = screen.target
      /\ screen'.rows = screen.rows /\ screen'.social = screen.social
      /\ screen'.notRun = screen.notRun
  BY <1>1 DEF StreamEnds, ReadingEnds, SearchFails, ScreenTypes
<1> QED
  BY <1>1, <1>2, <1>3, <1>4, <1>5, <1>6, <1>7, SearchMoves

\* The rows of a search that is not on the page yet.
LEMMA OnOathnetStep ==
  ASSUME LegacyInv, NEW s \in Searches, OnOathnet(s)
  PROVE  LegacyInv'
<1> USE DEF Nobody, NoCursor
<1> DEFINE c == [legacy[s] EXCEPT !.sent = @ \cup {"oathnet"}]
<1>1. /\ legacy \in [Searches -> Coroutines] /\ result \in ResultTypes /\ screen \in ScreenTypes
      /\ pager \in PagerTypes /\ oathnet \in [Searches -> Rows]
  BY DEF LegacyInv, LegacyTyped
<1>2. /\ legacy[s] \in Coroutines /\ legacy[s].at = "reading" /\ "done" \notin legacy[s].sent
      /\ legacy' = [legacy EXCEPT ![s] = c]
      /\ UNCHANGED <<modulesRan, pager, screen, history, overlap, asked>>
  BY <1>1 DEF OnOathnet, Receive
<1>3. PICK rows \in {<<>>, FirstPage(s)} :
        /\ oathnet' = [oathnet EXCEPT ![s] = rows]
        /\ result' = [result EXCEPT !.oathnet = s, !.cursor = CursorAfter(rows)]
  BY DEF OnOathnet
<1>4. /\ c \in Coroutines /\ c.at = "reading" /\ c.sent = legacy[s].sent \cup {"oathnet"}
      /\ c.timer = legacy[s].timer
  BY <1>2 DEF Coroutines
<1> HIDE DEF c
<1>5. /\ legacy' \in [Searches -> Coroutines] /\ legacy'[s] = c
      /\ \A r \in Searches : r # s => legacy'[r] = legacy[r]
  BY <1>1, <1>2, <1>4
<1>6. /\ rows \in Rows /\ Len(rows) \in 0 .. Chunks
      /\ \A i \in DOMAIN rows : rows[i] = <<s, i>>
  <2>1. CASE rows = <<>>
    BY <2>1, EmptySeq, LegacyPageAssumption DEF Rows
  <2>2. CASE rows = FirstPage(s)
    <3> DEFINE n == IF ApiPage < Chunks THEN ApiPage ELSE Chunks
    <3>1. n \in Nat /\ n \in 0 .. Chunks
      BY LegacyPageAssumption
    <3>2. rows = [i \in 1 .. n |-> <<s, i>>]
      BY <2>2 DEF FirstPage
    <3> HIDE DEF n
    <3>3. rows \in Rows /\ Len(rows) = n
      BY <3>1, <3>2, OwnersAreNumbers DEF Rows
    <3> QED
      BY <3>1, <3>2, <3>3
  <2> QED
    BY <2>1, <2>2
<1>7. /\ CursorAfter(rows) \in 0 .. Chunks
      /\ CursorAfter(rows) # 0 => CursorAfter(rows) = Len(rows)
  BY <1>6, LegacyPageAssumption DEF CursorAfter
<1>8. /\ result' \in ResultTypes
      /\ result'.owner = result.owner /\ result'.oathnet = s /\ result'.sherlock = result.sherlock
      /\ result'.cursor = CursorAfter(rows)
  BY <1>1, <1>3, <1>7, OwnersAreNumbers DEF ResultTypes
<1>9. /\ oathnet' \in [Searches -> Rows] /\ oathnet'[s] = rows
      /\ \A r \in Searches : r # s => oathnet'[r] = oathnet[r]
  BY <1>1, <1>3, <1>6
<1>10. LegacyTyped'
  BY <1>2, <1>5, <1>8, <1>9 DEF LegacyInv, LegacyTyped
<1>11. ButtonsWait'
  BY <1>2, <1>4, <1>5 DEF LegacyInv, ButtonsWait
<1>12. AloneInv'
  <2> SUFFICES ASSUME ~overlap' PROVE AloneInv'
    BY DEF AloneInv
  <2>1. /\ OneWriter /\ OneLoad /\ RowsComeOnceInOrder /\ RowsAreAnnounced /\ PageIsDrawn
        /\ HistoryIsOlder
    BY <1>2 DEF LegacyInv, AloneInv
  <2>2. s = result.owner /\ \A r \in Searches : r # s => ~Busy(r)
    BY <1>2, <2>1 DEF OneWriter, Busy
  <2>3. \A r \in Searches : r # s => legacy[r].at \notin {"posting", "reading"} /\ ~legacy[r].timer
    BY <2>2 DEF Busy
  <2>4. ~Complete(s) /\ ~Complete(s)'
    BY <1>2, <1>4, <1>5 DEF Complete
  <2>5. ~legacy[s].timer /\ ~screen.results /\ pager.loads = <<>>
    BY <2>1, <2>2, <2>4 DEF RowsAreAnnounced, OneLoad
  <2>6. OneWriter'
    <3>1. \A r \in Searches : legacy'[r].at # "idle" <=> r <= result.owner
      BY <1>2, <1>4, <1>5, <2>1 DEF OneWriter
    <3>2. \A r \in Searches : Busy(r)' => r = result.owner
      BY <1>5, <2>2, <2>3 DEF Busy
    <3> QED
      BY <1>2, <1>8, <2>1, <2>2, <2>5, <3>1, <3>2 DEF OneWriter
  <2>7. OneLoad'
    BY <1>2, <1>7, <1>8, <1>9, <2>5, LegacyPageAssumption DEF OneLoad
  <2>8. RowsComeOnceInOrder'
    BY <1>6, <1>9, <2>1, <1>2 DEF RowsComeOnceInOrder
  <2>9. PageIsDrawn'
    BY <1>2, <2>5 DEF PageIsDrawn
  <2>10. RowsAreAnnounced'
    BY <1>2, <1>4, <1>5, <2>3, <2>5 DEF RowsAreAnnounced
  <2>11. HistoryIsOlder'
    BY <1>2, <1>4, <1>5, <1>8, <2>1, <2>3, <2>4 DEF HistoryIsOlder
  <2> QED
    BY <2>6, <2>7, <2>8, <2>9, <2>10, <2>11 DEF AloneInv
<1> QED
  BY <1>10, <1>11, <1>12 DEF LegacyInv

\* The results are drawn and recorded.
LEMMA TimerFiresStep ==
  ASSUME LegacyInv, NEW s \in Searches, TimerFires(s)
  PROVE  LegacyInv'
<1> USE DEF Nobody, NoCursor
<1> DEFINE c == [legacy[s] EXCEPT !.timer = FALSE]
           rows == IF result.oathnet = Nobody THEN <<>> ELSE oathnet[result.oathnet]
<1>1. /\ legacy \in [Searches -> Coroutines] /\ result \in ResultTypes /\ screen \in ScreenTypes
      /\ pager \in PagerTypes /\ oathnet \in [Searches -> Rows] /\ history \in Seq(Owners)
      /\ modulesRan \subseteq {"breach", "sherlock"} /\ overlap \in BOOLEAN
  BY DEF LegacyInv, LegacyTyped
<1>2. /\ legacy[s] \in Coroutines /\ legacy[s].timer
      /\ legacy' = [legacy EXCEPT ![s] = c]
      /\ UNCHANGED <<result, oathnet, modulesRan, overlap, asked>>
  BY <1>1 DEF TimerFires
<1>3. /\ c \in Coroutines /\ c.at = legacy[s].at /\ c.sent = legacy[s].sent /\ ~c.timer
  BY <1>2 DEF Coroutines
<1> HIDE DEF c
<1>4. /\ legacy' \in [Searches -> Coroutines] /\ legacy'[s] = c
      /\ \A r \in Searches : r # s => legacy'[r] = legacy[r]
  BY <1>1, <1>2, <1>3
<1>5. rows \in Rows
  BY <1>1, EmptySeq DEF ResultTypes, Owners, Rows
<1>6. /\ RowsShown(rows, 0) \in Rows
      /\ \A i \in DOMAIN RowsShown(rows, 0) : i \in DOMAIN rows /\ RowsShown(rows, 0)[i] = rows[i]
  BY <1>5, RowsShownFirst
<1>7. /\ screen' = [screen EXCEPT !.scan = FALSE, !.results = TRUE, !.target = result.owner,
                      !.rows = RowsShown(rows, 0), !.social = result.sherlock,
                      !.notRun = NotRunPanels]
      /\ pager' = [pager EXCEPT !.page = 0, !.visible = {},
                     !.more = IF rows = <<>> THEN "none" ELSE MoreButton(rows, 0, result.cursor)]
  BY DEF TimerFires, RenderResults, RenderBreaches
<1> HIDE DEF rows
<1>8. NotRunPanels \in SUBSET {"breach", "sherlock"}
  BY DEF NotRunPanels
<1>9. /\ screen' \in ScreenTypes /\ screen'.results /\ screen'.target = result.owner
      /\ screen'.rows = RowsShown(rows, 0) /\ screen'.social = result.sherlock
      /\ screen'.notRun = NotRunPanels /\ screen'.button = screen.button
  BY <1>1, <1>6, <1>7, <1>8 DEF ScreenTypes, ResultTypes
<1>10. MoreButton(rows, 0, result.cursor) \in {"none", "ready"}
  BY DEF MoreButton
<1>11. /\ pager' \in PagerTypes /\ pager'.visible = {} /\ pager'.loads = pager.loads
       /\ pager'.more \in {"none", "ready"}
  BY <1>1, <1>7, <1>10 DEF PagerTypes
<1>12. /\ history' \in Seq(Owners) /\ Len(history') <= HistoryCap
       /\ history' # <<>> /\ history'[1] = result.owner
       /\ \A i \in DOMAIN history' :
            i = 1 \/ (i - 1 \in DOMAIN history /\ history'[i] = history[i - 1])
  <2> DEFINE o == result.owner
             n == IF Len(history) + 1 > HistoryCap THEN HistoryCap ELSE Len(history) + 1
             saved == SubSeq(<<o>> \o history, 1, n)
  <2>1. o \in Owners
    BY <1>1 DEF ResultTypes
  <2>2. history' = saved
    BY DEF TimerFires, SaveHistory
  <2> HIDE DEF o
  <2>3. /\ saved \in Seq(Owners) /\ Len(saved) <= HistoryCap
        /\ saved # <<>> /\ saved[1] = o
        /\ \A i \in DOMAIN saved :
             i = 1 \/ (i - 1 \in DOMAIN history /\ saved[i] = history[i - 1])
    BY <1>1, <2>1, HistoryFirst
  <2> HIDE DEF saved
  <2>4. saved[1] = result.owner
    BY <2>3 DEF o
  <2>5. history' \in Seq(Owners) /\ Len(history') <= HistoryCap
    BY <2>2, <2>3, Zenon
  <2>6. history' # <<>> /\ history'[1] = result.owner
    BY <2>2, <2>3, <2>4, Zenon
  <2>7. \A i \in DOMAIN history' :
          i = 1 \/ (i - 1 \in DOMAIN history /\ history'[i] = history[i - 1])
    BY <2>2, <2>3, Zenon
  <2> QED
    BY <2>5, <2>6, <2>7
<1>13. LegacyTyped'
  BY <1>1, <1>2, <1>4, <1>9, <1>11, <1>12 DEF LegacyTyped
<1>14. ButtonsWait'
  BY <1>3, <1>4, <1>9, <1>11 DEF LegacyInv, ButtonsWait
<1>15. AloneInv'
  <2> SUFFICES ASSUME ~overlap' PROVE AloneInv'
    BY DEF AloneInv
  <2>1. /\ OneWriter /\ OneLoad /\ RowsComeOnceInOrder /\ RowsAreAnnounced /\ PageIsDrawn
        /\ HistoryIsOlder
    BY <1>2 DEF LegacyInv, AloneInv
  <2>2. s = result.owner /\ \A r \in Searches : r # s => ~Busy(r)
    BY <1>2, <2>1 DEF OneWriter, Busy
  <2>3. \A r \in Searches : r # s => legacy[r].at \notin {"posting", "reading"} /\ ~legacy[r].timer
    BY <2>2 DEF Busy
  <2>4. Complete(s) /\ Complete(s)'
    BY <1>2, <1>3, <1>4, <2>1 DEF RowsAreAnnounced, Complete
  <2>5. ~screen.results /\ pager.loads = <<>>
    BY <1>2, <2>1 DEF OneWriter, OneLoad
  <2>6. OneWriter'
    <3>1. \A r \in Searches : legacy'[r].at # "idle" <=> r <= result.owner
      BY <1>3, <1>4, <2>1 DEF OneWriter
    <3>2. \A r \in Searches : (Busy(r)' => r = result.owner) /\ ~legacy'[r].timer
      BY <1>3, <1>4, <2>2, <2>3 DEF Busy
    <3> QED
      BY <1>2, <2>1, <3>1, <3>2 DEF OneWriter
  <2>7. OneLoad' /\ RowsComeOnceInOrder'
    BY <1>2, <1>11, <2>1, <2>5 DEF OneLoad, RowsComeOnceInOrder
  <2>8. \A i \in DOMAIN screen'.rows : screen'.rows[i] = <<result.owner, i>>
    <3>1. CASE result.oathnet = Nobody
      BY <1>6, <1>9, <3>1 DEF rows
    <3>2. CASE result.oathnet = result.owner /\ result.owner \in Searches
      <4>1. rows = oathnet[result.owner]
        BY <3>2, LegacyPageAssumption DEF rows
      <4>2. \A i \in DOMAIN rows : rows[i] = <<result.owner, i>>
        BY <1>2, <2>1, <3>2, <4>1 DEF RowsComeOnceInOrder
      <4> QED
        BY <1>6, <1>9, <4>2
    <3> QED
      BY <2>1, <2>2, <3>1, <3>2 DEF OneWriter
  <2>9. PageIsDrawn'
    BY <1>2, <1>9, <1>11, <2>1, <2>8 DEF PageIsDrawn, OneWriter
  <2>10. RowsAreAnnounced'
    <3>1. "breach" \in NotRunPanels => result.oathnet = Nobody
      BY <1>2, <2>1 DEF RowsAreAnnounced
    <3>2. result.oathnet = Nobody => screen'.rows = <<>>
      <4>1. rows \in Rows /\ (result.oathnet = Nobody => rows = <<>>)
        BY <1>5 DEF rows
      <4> DEFINE shown == RowsShown(rows, 0)
      <4>2. shown \in Seq(Owners \X Nat) /\ screen'.rows = shown
        BY <1>6, <1>9 DEF Rows
      <4>3. rows = <<>> => \A i \in DOMAIN shown : FALSE
        BY <1>6
      <4> HIDE DEF shown
      <4>4. Len(shown) \in Nat /\ DOMAIN shown = 1 .. Len(shown)
        BY <4>2, LenProperties
      <4>5. rows = <<>> => Len(shown) = 0
        BY <4>3, <4>4
      <4> QED
        BY <4>1, <4>2, <4>5, EmptySeq
    <3> QED
      BY <1>2, <1>3, <1>4, <1>9, <2>1, <2>2, <2>3, <2>4, <3>1, <3>2 DEF RowsAreAnnounced
  <2>11. HistoryIsOlder'
    <3>1. \A i \in DOMAIN history : history[i] \in Nat /\ history[i] < result.owner
      <4>1. DOMAIN history = 1 .. Len(history) /\ \A i \in 1 .. Len(history) : history[i] \in Owners
        BY <1>1, LenProperties, ElementOfSeq
      <4> QED
        BY <1>2, <2>1, <2>2, <4>1, OwnersAreNumbers DEF HistoryIsOlder
    <3>2. result.owner \in Nat /\ DOMAIN history = 1 .. Len(history)
          /\ DOMAIN history' = 1 .. Len(history')
      BY <1>1, <1>12, OwnersAreNumbers, LenProperties DEF ResultTypes
    <3>3. \A i \in DOMAIN history' : history'[i] <= result.owner
      BY <1>12, <3>1, <3>2
    <3>4. \A i, k \in DOMAIN history' : i < k => history'[i] > history'[k]
      <4> SUFFICES ASSUME NEW i \in DOMAIN history', NEW k \in DOMAIN history', i < k
                   PROVE  history'[i] > history'[k]
        OBVIOUS
      <4>1. k # 1 /\ k - 1 \in DOMAIN history /\ history'[k] = history[k - 1]
        BY <1>12, <3>2
      <4>2. CASE i = 1
        BY <1>12, <3>1, <3>2, <4>1, <4>2
      <4>3. CASE i # 1
        <5>1. i - 1 \in DOMAIN history /\ history'[i] = history[i - 1] /\ i - 1 < k - 1
          BY <1>12, <3>2, <4>3
        <5> QED
          BY <2>1, <4>1, <5>1 DEF HistoryIsOlder
      <4> QED
        BY <4>2, <4>3
    <3>5. \A r \in Searches :
            ~(legacy'[r].timer \/ (legacy'[r].at \in {"posting", "reading"} /\ ~Complete(r)'))
      BY <1>3, <1>4, <2>3, <2>4
    <3> QED
      BY <1>2, <1>9, <1>12, <3>3, <3>4, <3>5 DEF HistoryIsOlder
  <2> QED
    BY <2>6, <2>7, <2>9, <2>10, <2>11 DEF AloneInv
<1> QED
  BY <1>13, <1>14, <1>15 DEF LegacyInv

\* Back to an empty page: whoever was busy goes on, which makes it an overlap.
LEMMA NewSearchStep ==
  ASSUME LegacyInv, NewSearch
  PROVE  LegacyInv'
<1> USE DEF Nobody, NoCursor
<1>1. result \in ResultTypes /\ pager \in PagerTypes /\ screen \in ScreenTypes
  BY DEF LegacyInv, LegacyTyped
<1>2. /\ screen' = [screen EXCEPT !.results = FALSE, !.notRun = {}]
      /\ modulesRan' = {}
      /\ result' = [result EXCEPT !.cursor = NoCursor]
      /\ pager' = [pager EXCEPT !.page = 0]
      /\ overlap' = (overlap \/ Pending)
      /\ UNCHANGED <<legacy, oathnet, history, asked>>
  BY DEF NewSearch
<1>3. /\ screen' \in ScreenTypes /\ ~screen'.results /\ screen'.button = screen.button
      /\ screen'.target = screen.target
  BY <1>1, <1>2 DEF ScreenTypes
<1>4. /\ pager' \in PagerTypes /\ pager'.loads = pager.loads /\ pager'.more = pager.more
  BY <1>1, <1>2 DEF PagerTypes
<1>5. /\ result' \in ResultTypes /\ result'.owner = result.owner /\ result'.cursor = 0
      /\ result'.oathnet = result.oathnet /\ result'.sherlock = result.sherlock
  BY <1>1, <1>2, LegacyPageAssumption DEF ResultTypes
<1>6. LegacyTyped'
  BY <1>2, <1>3, <1>4, <1>5 DEF LegacyInv, LegacyTyped
<1>7. ButtonsWait'
  BY <1>2, <1>3, <1>4 DEF LegacyInv, ButtonsWait
<1>8. AloneInv'
  <2> SUFFICES ASSUME ~overlap' PROVE AloneInv'
    BY DEF AloneInv
  <2>1. /\ ~overlap /\ pager.loads = <<>> /\ \A r \in Searches : ~Busy(r)
        /\ OneWriter /\ RowsComeOnceInOrder /\ HistoryIsOlder
    BY <1>2 DEF Pending, LegacyInv, AloneInv
  <2>2. \A r \in Searches : legacy[r].at \notin {"posting", "reading"} /\ ~legacy[r].timer
    BY <2>1 DEF Busy
  <2>3. OneWriter' /\ OneLoad' /\ RowsComeOnceInOrder' /\ PageIsDrawn'
    BY <1>2, <1>3, <1>4, <1>5, <2>1, <2>2
       DEF OneWriter, OneLoad, RowsComeOnceInOrder, PageIsDrawn, Busy
  <2>4. RowsAreAnnounced'
    BY <1>2, <1>3, <2>2 DEF RowsAreAnnounced
  <2>5. HistoryIsOlder'
    BY <1>2, <1>3, <1>5, <2>1, <2>2 DEF HistoryIsOlder
  <2> QED
    BY <2>3, <2>4, <2>5 DEF AloneInv
<1> QED
  BY <1>6, <1>7, <1>8 DEF LegacyInv

\* A step of the pager that starts and ends no request, and draws rows of the object.
LEMMA PagerMoves ==
  ASSUME LegacyInv, screen.results,
         pager' \in PagerTypes, pager'.loads = pager.loads,
         pager'.more \in {pager.more, "none", "ready"},
         (pager'.more # pager.more) => pager.more = "ready",
         screen' \in ScreenTypes,
         \E rows \in Rows : screen' = [screen EXCEPT !.rows = rows],
         ~overlap => /\ \A i \in DOMAIN screen'.rows : screen'.rows[i] = <<screen.target, i>>
                     /\ \A i \in pager'.visible : <<screen.target, i>> \in asked',
         screen'.rows = screen.rows \/ result.oathnet # Nobody,
         UNCHANGED <<legacy, result, oathnet, modulesRan, history, overlap>>
  PROVE  LegacyInv'
<1> USE DEF Nobody, NoCursor
<1>1. /\ screen'.results /\ screen'.button = screen.button /\ screen'.target = screen.target
      /\ screen'.social = screen.social /\ screen'.notRun = screen.notRun
  BY DEF LegacyInv, LegacyTyped, ScreenTypes
<1>2. LegacyTyped'
  BY DEF LegacyInv, LegacyTyped
<1>3. ButtonsWait'
  BY <1>1 DEF LegacyInv, ButtonsWait
<1>4. AloneInv'
  <2> SUFFICES ASSUME ~overlap' PROVE AloneInv'
    BY DEF AloneInv
  <2>1. /\ OneWriter /\ OneLoad /\ RowsComeOnceInOrder /\ RowsAreAnnounced /\ PageIsDrawn
        /\ HistoryIsOlder
    BY DEF LegacyInv, AloneInv
  <2>2. OneWriter' /\ RowsComeOnceInOrder' /\ HistoryIsOlder'
    BY <1>1, <2>1 DEF OneWriter, RowsComeOnceInOrder, HistoryIsOlder, Busy, Complete
  <2>3. OneLoad'
    BY <1>1, <2>1 DEF OneLoad
  <2>4. RowsAreAnnounced'
    BY <1>1, <2>1 DEF RowsAreAnnounced, Complete, NotRunPanels
  <2>5. PageIsDrawn'
    BY <1>1, <2>1 DEF PageIsDrawn
  <2> QED
    BY <2>2, <2>3, <2>4, <2>5 DEF AloneInv
<1> QED
  BY <1>2, <1>3, <1>4 DEF LegacyInv

\* The rows of the object on the page are those of the search in the header.
LEMMA ObjectOfThePage ==
  ASSUME LegacyInv, ~overlap, screen.results, result.oathnet # Nobody
  PROVE  /\ result.oathnet = result.owner /\ result.owner = screen.target
         /\ result.owner \in Searches
         /\ \A i \in DOMAIN oathnet[result.oathnet] :
              oathnet[result.oathnet][i] = <<screen.target, i>>
<1>1. OneWriter /\ RowsComeOnceInOrder /\ PageIsDrawn /\ result \in ResultTypes
  BY DEF LegacyInv, LegacyTyped, AloneInv
<1>2. result.oathnet = result.owner /\ result.owner = screen.target /\ result.owner \in Searches
  BY <1>1 DEF OneWriter, PageIsDrawn, ResultTypes, Owners
<1> QED
  BY <1>1, <1>2 DEF RowsComeOnceInOrder

LEMMA LoadMoreLocallyStep ==
  ASSUME LegacyInv, LoadMoreLocally
  PROVE  LegacyInv'
<1> DEFINE rows == oathnet[result.oathnet]
           shown == RowsShown(rows, pager.page + 1)
           more == MoreButton(rows, pager.page + 1, result.cursor)
<1>1. /\ result \in ResultTypes /\ pager \in PagerTypes /\ screen \in ScreenTypes
      /\ oathnet \in [Searches -> Rows]
  BY DEF LegacyInv, LegacyTyped
<1>2. /\ screen.results /\ pager.more = "ready" /\ result.oathnet # Nobody
      /\ screen' = [screen EXCEPT !.rows = shown]
      /\ pager' = [pager EXCEPT !.page = @ + 1, !.more = more]
      /\ UNCHANGED <<legacy, result, oathnet, modulesRan, history, overlap, asked>>
  BY DEF LoadMoreLocally, CanLoadMore
<1>3. rows \in Rows /\ pager.page + 1 \in Nat
  <2>1. result.oathnet \in Searches
    BY <1>1, <1>2 DEF ResultTypes, Owners
  <2>2. pager.page \in Nat
    BY <1>1 DEF PagerTypes
  <2> QED
    BY <1>1, <2>1, <2>2
<1>4. shown \in Rows /\ \A i \in DOMAIN shown : i \in DOMAIN rows /\ shown[i] = rows[i]
  BY <1>3, RowsShownFirst
<1>5. more \in {"none", "ready"}
  BY DEF MoreButton
<1>6. ~overlap => \A i \in DOMAIN rows : rows[i] = <<screen.target, i>>
  BY <1>2, ObjectOfThePage
<1> DEFINE next == pager.page + 1
<1> HIDE DEF rows, shown, more
<1>7. screen' \in ScreenTypes /\ screen'.rows = shown
  BY <1>1, <1>2, <1>4 DEF ScreenTypes
<1>8. /\ pager' \in PagerTypes /\ pager'.loads = pager.loads /\ pager'.more = more
      /\ pager'.visible = pager.visible
  <2>1. pager' = [pager EXCEPT !.page = next, !.more = more]
    BY <1>2
  <2>2. next \in Nat
    BY <1>3
  <2> HIDE DEF next
  <2> QED
    BY <1>1, <1>5, <2>1, <2>2 DEF PagerTypes
<1>9. ~overlap => \A i \in pager'.visible : <<screen.target, i>> \in asked'
  BY <1>2, <1>8 DEF LegacyInv, AloneInv, PageIsDrawn
<1>10. ~overlap => \A i \in DOMAIN screen'.rows : screen'.rows[i] = <<screen.target, i>>
  BY <1>4, <1>6, <1>7
<1> QED
  BY <1>2, <1>4, <1>5, <1>7, <1>8, <1>9, <1>10, PagerMoves

LEMMA TogglePwdStep ==
  ASSUME LegacyInv, NEW i \in Toggled, TogglePwd(i)
  PROVE  LegacyInv'
<1> DEFINE visible == IF i \in pager.visible THEN pager.visible \ {i} ELSE pager.visible \cup {i}
<1>1. pager \in PagerTypes /\ screen \in ScreenTypes
  BY DEF LegacyInv, LegacyTyped
<1>2. /\ screen.results /\ i \in DOMAIN screen.rows
      /\ pager' = [pager EXCEPT !.visible = visible]
      /\ asked' = asked \cup {screen.rows[i]}
      /\ UNCHANGED <<legacy, result, oathnet, modulesRan, screen, history, overlap>>
  BY <1>1 DEF TogglePwd, PagerTypes
<1>3. visible \in SUBSET Nat
  <2>1. pager.visible \subseteq Nat /\ i \in Nat
    <3>1. i \in 1 .. Chunks
      BY LegacyPageAssumption
    <3>2. pager.visible \in SUBSET Nat
      BY <1>1 DEF PagerTypes
    <3> QED
      BY <3>1, <3>2
  <2>2. pager.visible \ {i} \subseteq Nat /\ pager.visible \cup {i} \subseteq Nat
    BY <2>1
  <2> QED
    BY <2>2
<1>4. /\ pager' \in PagerTypes /\ pager'.loads = pager.loads /\ pager'.more = pager.more
      /\ pager'.visible = visible
  <2> HIDE DEF visible
  <2> QED
    BY <1>1, <1>2, <1>3 DEF PagerTypes
<1>5. ASSUME ~overlap
      PROVE  /\ \A k \in DOMAIN screen.rows : screen.rows[k] = <<screen.target, k>>
             /\ \A k \in pager'.visible : <<screen.target, k>> \in asked'
  BY <1>2, <1>4, <1>5 DEF LegacyInv, AloneInv, PageIsDrawn
<1>6. \E rows \in Rows : screen' = [screen EXCEPT !.rows = rows]
  <2>1. screen.rows \in Rows /\ screen = [screen EXCEPT !.rows = screen.rows]
    BY <1>1 DEF ScreenTypes
  <2> QED
    BY <1>2, <2>1
<1> HIDE DEF visible
<1> QED
  BY <1>1, <1>2, <1>4, <1>5, <1>6, PagerMoves

LEMMA RevealAllPasswordsStep ==
  ASSUME LegacyInv, RevealAllPasswords
  PROVE  LegacyInv'
<1> DEFINE rows == oathnet[result.oathnet]
           visible == pager.visible \cup DOMAIN rows
<1>1. /\ result \in ResultTypes /\ pager \in PagerTypes /\ screen \in ScreenTypes
      /\ oathnet \in [Searches -> Rows]
  BY DEF LegacyInv, LegacyTyped
<1>2. /\ screen.results /\ result.oathnet # Nobody
      /\ pager' = [pager EXCEPT !.visible = visible]
      /\ asked' = asked \cup Range(rows)
      /\ UNCHANGED <<legacy, result, oathnet, modulesRan, screen, history, overlap>>
  BY DEF RevealAllPasswords
<1>3. rows \in Rows
  BY <1>1, <1>2 DEF ResultTypes, Owners
<1>4. DOMAIN rows \subseteq Nat
  BY <1>3, LenProperties DEF Rows
<1>5. ~overlap => \A i \in DOMAIN rows : rows[i] = <<screen.target, i>>
  BY <1>2, ObjectOfThePage
<1> HIDE DEF rows
<1>6. visible \in SUBSET Nat
  BY <1>1, <1>4 DEF PagerTypes
<1>7. ~overlap => \A i \in visible : <<screen.target, i>> \in asked'
  <2>1. \A i \in DOMAIN rows : rows[i] \in Range(rows)
    BY DEF Range
  <2>2. ~overlap => \A i \in pager.visible : <<screen.target, i>> \in asked
    BY <1>2 DEF LegacyInv, AloneInv, PageIsDrawn
  <2> QED
    BY <1>2, <1>5, <2>1, <2>2
<1> HIDE DEF visible
<1>8. /\ pager' \in PagerTypes /\ pager'.loads = pager.loads /\ pager'.more = pager.more
      /\ pager'.visible = visible
  BY <1>1, <1>2, <1>6 DEF PagerTypes
<1>9. ~overlap => \A k \in DOMAIN screen.rows : screen.rows[k] = <<screen.target, k>>
  BY <1>2 DEF LegacyInv, AloneInv, PageIsDrawn
<1>10. \E shown \in Rows : screen' = [screen EXCEPT !.rows = shown]
  <2>1. screen.rows \in Rows /\ screen = [screen EXCEPT !.rows = screen.rows]
    BY <1>1 DEF ScreenTypes
  <2> QED
    BY <1>2, <2>1
<1> QED
  BY <1>1, <1>2, <1>7, <1>8, <1>9, <1>10, PagerMoves

\* A request for more rows: the button waits for its answer.
LEMMA LoadMoreRemotelyStep ==
  ASSUME LegacyInv, LoadMoreRemotely
  PROVE  LegacyInv'
<1> USE DEF Nobody, NoCursor
<1> DEFINE load == [object |-> result.oathnet, query |-> result.owner, cursor |-> result.cursor]
<1>1. result \in ResultTypes /\ pager \in PagerTypes /\ screen \in ScreenTypes
  BY DEF LegacyInv, LegacyTyped
<1>2. /\ screen.results /\ pager.more = "ready" /\ result.oathnet # Nobody
      /\ result.cursor # NoCursor
      /\ pager' = [pager EXCEPT !.more = "loading", !.loads = Append(pager.loads, load)]
      /\ UNCHANGED <<legacy, result, oathnet, modulesRan, screen, history, overlap, asked>>
  BY DEF LoadMoreRemotely, CanLoadMore, ButtonWhileLoading
<1>3. load \in Loads
  BY <1>1, <1>2, LegacyPageAssumption DEF ResultTypes, Owners, Loads
<1> HIDE DEF load
<1>4. /\ Append(pager.loads, load) \in Seq(Loads) /\ Append(pager.loads, load) # <<>>
      /\ pager.loads = <<>> => Append(pager.loads, load) = <<load>>
  BY <1>1, <1>3, FirstRequest DEF PagerTypes
<1>5. /\ pager' \in PagerTypes /\ pager'.more = "loading" /\ pager'.visible = pager.visible
      /\ pager'.loads = Append(pager.loads, load)
  BY <1>1, <1>2, <1>4 DEF PagerTypes
<1>6. LegacyTyped'
  BY <1>2, <1>5 DEF LegacyInv, LegacyTyped
<1>7. ButtonsWait'
  BY <1>2, <1>4, <1>5 DEF LegacyInv, ButtonsWait
<1>8. AloneInv'
  <2> SUFFICES ASSUME ~overlap' PROVE AloneInv'
    BY DEF AloneInv
  <2>1. /\ OneWriter /\ OneLoad /\ RowsComeOnceInOrder /\ RowsAreAnnounced /\ PageIsDrawn
        /\ HistoryIsOlder
    BY <1>2 DEF LegacyInv, AloneInv
  <2>2. OneWriter' /\ RowsComeOnceInOrder' /\ HistoryIsOlder'
    BY <1>2, <2>1 DEF OneWriter, RowsComeOnceInOrder, HistoryIsOlder, Busy, Complete
  <2>3. OneLoad'
    <3>1. pager.loads = <<>>
      BY <1>2, <2>1 DEF OneLoad
    <3>2. pager'.loads = <<load>>
      BY <1>4, <1>5, <3>1
    <3> QED
      BY <1>2, <1>5, <2>1, <3>2 DEF OneLoad, load
  <2>4. RowsAreAnnounced'
    BY <1>2, <2>1 DEF RowsAreAnnounced, Complete, NotRunPanels
  <2>5. PageIsDrawn'
    BY <1>2, <1>5, <2>1 DEF PageIsDrawn
  <2> QED
    BY <2>2, <2>3, <2>4, <2>5 DEF AloneInv
<1> QED
  BY <1>6, <1>7, <1>8 DEF LegacyInv

\* The rows behind the cursor of a request.
LEMMA AnsweredRows ==
  ASSUME NEW load \in Loads
  PROVE  LET n == Len(Answered(load))
             next == IF load.cursor + ApiPage < Chunks THEN load.cursor + ApiPage ELSE NoCursor
         IN  /\ Answered(load) \in Rows
             /\ \A i \in DOMAIN Answered(load) :
                  Answered(load)[i] = <<load.query, load.cursor + i>>
             /\ next \in 0 .. Chunks
             /\ next # NoCursor => next = load.cursor + n
<1> USE DEF NoCursor
<1> DEFINE last == IF load.cursor + ApiPage < Chunks THEN load.cursor + ApiPage ELSE Chunks
           m == last - load.cursor
           next == IF load.cursor + ApiPage < Chunks THEN load.cursor + ApiPage ELSE NoCursor
<1>1. load.cursor \in Nat /\ load.cursor <= Chunks /\ load.query \in Owners
  BY LegacyPageAssumption DEF Loads
<1>2. m \in Nat /\ next \in 0 .. Chunks /\ (next # NoCursor => next = load.cursor + m)
  BY <1>1, LegacyPageAssumption
<1>3. Answered(load) = [i \in 1 .. m |-> <<load.query, load.cursor + i>>]
  BY DEF Answered
<1> HIDE DEF m, next
<1>4. Answered(load) \in Rows /\ Len(Answered(load)) = m /\ DOMAIN Answered(load) = 1 .. m
  BY <1>1, <1>2, <1>3 DEF Rows
<1>5. \A i \in DOMAIN Answered(load) : Answered(load)[i] = <<load.query, load.cursor + i>>
  BY <1>3, <1>4
<1> QED
  BY <1>2, <1>4, <1>5 DEF next

\* More rows come behind the object's; if nothing overlaps the page shows the object.
LEMMA MoreAnsweredStep ==
  ASSUME LegacyInv, NEW i \in DOMAIN pager.loads, MoreAnswered(i)
  PROVE  LegacyInv'
<1> USE DEF Nobody, NoCursor
<1> DEFINE load == pager.loads[i]
           new == Answered(load)
           old == oathnet[load.object]
           rows == old \o new
           next == IF load.cursor + ApiPage < Chunks THEN load.cursor + ApiPage ELSE NoCursor
           page == pager.page + 1
           shown == RowsShown(rows, page)
           left == RemoveAt(pager.loads, i)
           more == MoreButton(rows, page, next)
<1>1. /\ result \in ResultTypes /\ pager \in PagerTypes /\ screen \in ScreenTypes
      /\ oathnet \in [Searches -> Rows] /\ pager.loads \in Seq(Loads)
  BY DEF LegacyInv, LegacyTyped, PagerTypes
<1>2. i \in 1 .. Len(pager.loads) /\ load \in Loads
  <2>1. i \in 1 .. Len(pager.loads)
    BY <1>1, LenProperties
  <2> QED
    BY <1>1, <2>1, ElementOfSeq
<1>3. /\ oathnet' = [oathnet EXCEPT ![load.object] = rows]
      /\ result' = [result EXCEPT !.cursor = next]
      /\ screen' = [screen EXCEPT !.rows = shown]
      /\ pager' = [pager EXCEPT !.page = page, !.loads = left, !.more = more]
      /\ UNCHANGED <<legacy, modulesRan, history, overlap, asked>>
  BY DEF MoreAnswered
<1>4. load.object \in Searches /\ old \in Rows /\ page \in Nat
  <2>1. load.object \in Searches
    BY <1>2 DEF Loads
  <2>2. pager.page \in Nat
    BY <1>1 DEF PagerTypes
  <2> HIDE DEF load
  <2> QED
    BY <1>1, <2>1, <2>2
<1>5. /\ new \in Rows /\ \A k \in DOMAIN new : new[k] = <<load.query, load.cursor + k>>
      /\ next \in 0 .. Chunks /\ (next # 0 => next = load.cursor + Len(new))
  BY <1>2, AnsweredRows
<1>6. left \in Seq(Loads)
  BY <1>1, <1>2, RequestsLeft
<1>7. more \in {"none", "ready"}
  BY DEF MoreButton
<1> HIDE DEF load, new, old, next, page, shown, left, more
<1>8. /\ rows \in Rows /\ Len(rows) = Len(old) + Len(new)
      /\ \A k \in 1 .. Len(old) + Len(new) :
           rows[k] = IF k <= Len(old) THEN old[k] ELSE new[k - Len(old)]
  BY <1>4, <1>5, ConcatProperties DEF Rows
<1> HIDE DEF rows
<1>9. shown \in Rows /\ \A k \in DOMAIN shown : k \in DOMAIN rows /\ shown[k] = rows[k]
  BY <1>4, <1>8, RowsShownFirst DEF shown
<1>10. /\ result' \in ResultTypes /\ result'.owner = result.owner /\ result'.cursor = next
       /\ result'.oathnet = result.oathnet /\ result'.sherlock = result.sherlock
  BY <1>1, <1>3, <1>5 DEF ResultTypes
<1>11. /\ screen' \in ScreenTypes /\ screen'.rows = shown /\ screen'.results = screen.results
       /\ screen'.button = screen.button /\ screen'.target = screen.target
       /\ screen'.social = screen.social /\ screen'.notRun = screen.notRun
  BY <1>1, <1>3, <1>9 DEF ScreenTypes
<1>12. /\ pager' \in PagerTypes /\ pager'.loads = left /\ pager'.more = more
       /\ pager'.visible = pager.visible
  BY <1>1, <1>3, <1>4, <1>6, <1>7 DEF PagerTypes
<1>13. /\ oathnet' \in [Searches -> Rows] /\ oathnet'[load.object] = rows
       /\ \A s \in Searches : s # load.object => oathnet'[s] = oathnet[s]
  BY <1>1, <1>3, <1>4, <1>8
<1>14. LegacyTyped'
  BY <1>3, <1>10, <1>11, <1>12, <1>13 DEF LegacyInv, LegacyTyped
<1>15. ButtonsWait'
  BY <1>3, <1>7, <1>11, <1>12 DEF LegacyInv, ButtonsWait
<1>16. AloneInv'
  <2> SUFFICES ASSUME ~overlap' PROVE AloneInv'
    BY DEF AloneInv
  <2>1. /\ OneWriter /\ OneLoad /\ RowsComeOnceInOrder /\ RowsAreAnnounced /\ PageIsDrawn
        /\ HistoryIsOlder
    BY <1>3 DEF LegacyInv, AloneInv
  <2>2. /\ screen.results /\ result.oathnet # Nobody /\ result.cursor # NoCursor
        /\ pager.loads = <<[object |-> result.oathnet, query |-> result.owner,
                            cursor |-> result.cursor]>>
    BY <1>1, <1>2, <2>1, EmptySeq DEF OneLoad
  <2>3. Len(pager.loads) = 1
    BY <2>2
  <2>4. left = <<>> /\ i = 1
    BY <1>1, <1>2, <2>3, OnlyRequestAnswered DEF left
  <2>5. load = [object |-> result.oathnet, query |-> result.owner, cursor |-> result.cursor]
    BY <2>2, <2>4 DEF load
  <2>6. result.oathnet = result.owner /\ result.owner \in Searches /\ result.owner = screen.target
    BY <1>3, <2>2, ObjectOfThePage
  <2>7. load.object = screen.target /\ load.query = screen.target /\ load.cursor = Len(old)
    BY <2>1, <2>2, <2>5, <2>6 DEF OneLoad, old
  <2>8. \A k \in DOMAIN rows : rows[k] = <<screen.target, k>>
    <3> SUFFICES ASSUME NEW k \in DOMAIN rows PROVE rows[k] = <<screen.target, k>>
      OBVIOUS
    <3> DEFINE n == Len(old)
               m == Len(new)
    <3>1. /\ n \in Nat /\ m \in Nat /\ DOMAIN old = 1 .. n /\ DOMAIN new = 1 .. m
          /\ k \in 1 .. n + m
      BY <1>4, <1>5, <1>8, LenProperties DEF Rows
    <3>2. rows[k] = IF k <= n THEN old[k] ELSE new[k - n]
      BY <1>8, <3>1
    <3>3. \A l \in DOMAIN old : old[l] = <<screen.target, l>>
      BY <1>3, <1>4, <2>1, <2>7 DEF RowsComeOnceInOrder, old
    <3>4. load.cursor = n
      BY <2>7
    <3> HIDE DEF n, m
    <3>5. CASE k <= n
      BY <3>1, <3>2, <3>3, <3>5
    <3>6. CASE ~(k <= n)
      <4>1. k - n \in DOMAIN new /\ n + (k - n) = k
        BY <3>1, <3>6
      <4>2. new[k - n] = <<screen.target, n + (k - n)>>
        BY <1>5, <2>7, <3>4, <4>1
      <4> QED
        BY <3>2, <3>6, <4>1, <4>2
    <3> QED
      BY <3>5, <3>6
  <2>9. OneWriter' /\ HistoryIsOlder'
    BY <1>3, <1>10, <1>11, <2>1 DEF OneWriter, HistoryIsOlder, Busy, Complete
  <2>10. OneLoad'
    <3>1. next # 0 => next = Len(rows)
      BY <1>5, <1>8, <2>7
    <3>2. oathnet'[result.oathnet] = rows
      BY <1>13, <2>5
    <3> QED
      BY <1>10, <1>12, <2>2, <2>4, <3>1, <3>2 DEF OneLoad
  <2>11. RowsComeOnceInOrder'
    BY <1>3, <1>13, <2>1, <2>7, <2>8 DEF RowsComeOnceInOrder
  <2>12. RowsAreAnnounced'
    BY <1>3, <1>10, <1>11, <2>1, <2>2 DEF RowsAreAnnounced, Complete, NotRunPanels
  <2>13. PageIsDrawn'
    BY <1>3, <1>9, <1>10, <1>11, <1>12, <2>1, <2>8 DEF PageIsDrawn
  <2> QED
    BY <2>9, <2>10, <2>11, <2>12, <2>13 DEF AloneInv
<1> QED
  BY <1>14, <1>15, <1>16 DEF LegacyInv

\* Unless something overlaps the request that is answered is the only one.
LEMMA OnlyLoadAnswered ==
  ASSUME LegacyInv, ~overlap, NEW i \in DOMAIN pager.loads
  PROVE  RemoveAt(pager.loads, i) = <<>>
<1>1. pager.loads \in Seq(Loads) /\ i \in 1 .. Len(pager.loads)
  BY LenProperties DEF LegacyInv, LegacyTyped, PagerTypes
<1>2. pager.loads = <<[object |-> result.oathnet, query |-> result.owner,
                       cursor |-> result.cursor]>>
  BY <1>1, EmptySeq DEF LegacyInv, AloneInv, OneLoad
<1>3. Len(pager.loads) = 1
  BY <1>2
<1> QED
  BY <1>1, <1>3, OnlyRequestAnswered

\* A request that brought nothing gives the button back.
LEMMA MoreGivesUpStep ==
  ASSUME LegacyInv, NEW i \in DOMAIN pager.loads, MoreGivesUp(i)
  PROVE  LegacyInv'
<1> USE DEF Nobody, NoCursor
<1>0. PICK said \in {"all loaded", "ready"} :
        pager' = [pager EXCEPT !.loads = RemoveAt(@, i),
                    !.more = IF @ = "loading" THEN said ELSE @]
  BY DEF MoreGivesUp
<1> DEFINE left == RemoveAt(pager.loads, i)
           more == IF pager.more = "loading" THEN said ELSE pager.more
<1>1. pager \in PagerTypes /\ pager.loads \in Seq(Loads) /\ i \in 1 .. Len(pager.loads)
  BY LenProperties DEF LegacyInv, LegacyTyped, PagerTypes
<1>2. /\ pager' = [pager EXCEPT !.loads = left, !.more = more]
      /\ UNCHANGED <<legacy, result, oathnet, modulesRan, screen, history, overlap, asked>>
  BY <1>0 DEF MoreGivesUp
<1>3. left \in Seq(Loads)
  BY <1>1, RequestsLeft
<1>4. more \in {"none", "ready", "all loaded"}
  BY <1>1 DEF PagerTypes
<1> HIDE DEF left, more
<1>5. /\ pager' \in PagerTypes /\ pager'.loads = left /\ pager'.more = more
      /\ pager'.visible = pager.visible
  BY <1>1, <1>2, <1>3, <1>4 DEF PagerTypes
<1>6. LegacyTyped'
  BY <1>2, <1>5 DEF LegacyInv, LegacyTyped
<1>7. ButtonsWait'
  BY <1>2, <1>4, <1>5 DEF LegacyInv, ButtonsWait
<1>8. AloneInv'
  <2> SUFFICES ASSUME ~overlap' PROVE AloneInv'
    BY DEF AloneInv
  <2>1. /\ OneWriter /\ OneLoad /\ RowsComeOnceInOrder /\ RowsAreAnnounced /\ PageIsDrawn
        /\ HistoryIsOlder
    BY <1>2 DEF LegacyInv, AloneInv
  <2>2. left = <<>>
    BY <1>2, OnlyLoadAnswered DEF left
  <2>3. OneWriter' /\ RowsComeOnceInOrder' /\ HistoryIsOlder'
    BY <1>2, <2>1 DEF OneWriter, RowsComeOnceInOrder, HistoryIsOlder, Busy, Complete
  <2>4. OneLoad'
    BY <1>2, <1>5, <2>1, <2>2 DEF OneLoad
  <2>5. RowsAreAnnounced'
    BY <1>2, <2>1 DEF RowsAreAnnounced, Complete, NotRunPanels
  <2>6. PageIsDrawn'
    BY <1>2, <1>5, <2>1 DEF PageIsDrawn
  <2> QED
    BY <2>3, <2>4, <2>5, <2>6 DEF AloneInv
<1> QED
  BY <1>6, <1>7, <1>8 DEF LegacyInv

LEMMA LegacyInvStep == LegacyInv /\ [LegacyNext]_legacyVars => LegacyInv'
<1> SUFFICES ASSUME LegacyInv, [LegacyNext]_legacyVars PROVE LegacyInv'
  OBVIOUS
<1>1. CASE LegacyNext
  <2>1. ASSUME NEW s \in Searches, StartSearch(s) \/ SearchSteps(s) PROVE LegacyInv'
    BY <2>1, StartSearchStep, RespondStep, OnStartStep, OnOathnetStep, OnSherlockStep,
       OnDoneStep, StreamEndsStep, TimerFiresStep DEF SearchSteps
  <2>2. CASE LoadAnswers
    BY <2>2, MoreAnsweredStep, MoreGivesUpStep DEF LoadAnswers
  <2> QED
    BY <1>1, <2>1, <2>2, NewSearchStep, LoadMoreLocallyStep, LoadMoreRemotelyStep,
       TogglePwdStep, RevealAllPasswordsStep DEF LegacyNext
<1>2. CASE UNCHANGED legacyVars
  BY <1>2 DEF legacyVars, LegacyInv, LegacyTyped, ButtonsWait, AloneInv, OneWriter, OneLoad,
     RowsComeOnceInOrder, RowsAreAnnounced, PageIsDrawn, HistoryIsOlder, Busy, Complete, NotRunPanels
<1> QED
  BY <1>1, <1>2

\* What the invariant is for.
LEMMA LegacyInvImplies == LegacyInv => PageIsOfOneSearch /\ ButtonsComeBack
<1> SUFFICES ASSUME LegacyInv PROVE PageIsOfOneSearch /\ ButtonsComeBack
  OBVIOUS
<1>1. ButtonsComeBack
  BY DEF LegacyInv, ButtonsWait, ButtonsComeBack
<1>2. LegacyTypeOK
  BY LegacyTypesHold DEF LegacyInv
<1>3. PageShowsOneSearch
  <2> SUFFICES ASSUME screen.results, ~overlap
               PROVE  /\ result.owner = screen.target
                      /\ screen.social \in {Nobody, screen.target}
                      /\ \A i \in DOMAIN screen.rows : screen.rows[i][1] = screen.target
                      /\ "breach" \in screen.notRun => screen.rows = <<>>
    BY DEF PageShowsOneSearch
  <2> QED
    BY DEF LegacyInv, AloneInv, PageIsDrawn, RowsAreAnnounced
<1>4. RowsComeOnceInOrder /\ HistoryStartsWithThePage
  BY DEF LegacyInv, AloneInv, RowsComeOnceInOrder, HistoryIsOlder, HistoryStartsWithThePage
<1>5. NoUnaskedPassword
  BY DEF LegacyInv, AloneInv, PageIsDrawn, NoUnaskedPassword
<1> QED
  BY <1>1, <1>2, <1>3, <1>4, <1>5 DEF PageIsOfOneSearch

-----------------------------------------------------------------------------
(***************************************************************************)
(* Theorems.                                                               *)
(***************************************************************************)
\* However searches, pages and clicks overlap, both buttons of the search page come
\* back; and as long as nothing was started while something else was pending, what
\* is on the page, its rows, its passwords and its history are of one search.
THEOREM PageInvariance ==
  LegacyInit /\ [][LegacyNext]_legacyVars => [](PageIsOfOneSearch /\ ButtonsComeBack)
<1>1. LegacyInit => LegacyInv
  BY LegacyInvInit
<1>2. LegacyInv /\ [LegacyNext]_legacyVars => LegacyInv'
  BY LegacyInvStep
<1>3. LegacyInv => PageIsOfOneSearch /\ ButtonsComeBack
  BY LegacyInvImplies
<1> QED
  BY <1>1, <1>2, <1>3, PTL

\* Through searches, pages, trees and files asked for and answered in any order: no
\* page of victims is held without the one before it, and each is held once and in
\* order unless the button was clicked while a page of that result was pending; the
\* list shows what the result it was drawn from holds, and no other's victims unless
\* a page of another result came after it was drawn; an open tree shows the tree of
\* its own victim, unless two results share the list, and an error or an answer to
\* come, unless a page took its element away; and the viewer shows the file of its
\* title, or one that was still to come when that was opened.
THEOREM VictimsInvariance ==
  VictimsInit /\ [][VictimsNext]_victimVars => []VictimsAreShown
<1>1. VictimsInit => VictimsInv
  BY VictimsInvInit
<1>2. VictimsInv /\ [VictimsNext]_victimVars => VictimsInv'
  BY VictimsInvStep
<1>3. VictimsInv => VictimsAreShown
  BY VictimsInvImplies
<1> QED
  BY <1>1, <1>2, <1>3, PTL

\* Both hold of the page that has the search and the victims on it.
THEOREM IndexPageInvariance ==
  IndexSpec => [](PageIsOfOneSearch /\ ButtonsComeBack /\ VictimsAreShown)
<1>1. IndexInit => LegacyInit /\ VictimsInit
  BY DEF IndexInit
<1>2. [IndexNext]_<<scene, legacyVars, victimVars>> =>
        [LegacyNext]_legacyVars /\ [VictimsNext]_victimVars
  BY DEF IndexNext, VictimsNext
<1> QED
  BY <1>1, <1>2, PageInvariance, VictimsInvariance, PTL DEF IndexSpec

=============================================================================
