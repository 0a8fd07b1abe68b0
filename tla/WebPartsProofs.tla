---------------------------- MODULE WebPartsProofs ----------------------------
(***************************************************************************)
(* Proofs about the parts of the catalog page (WebParts), each for any     *)
(* values of its constants: the page with its loads, the counts that its   *)
(* lines show, and its table.                                              *)
(***************************************************************************)
EXTENDS WebCatalog, CatalogCounts, CatalogTable, TLAPS

-----------------------------------------------------------------------------
(* The page and its loads.                                                  *)

\* A load has kept what its stream has said, and does not end without a
\* reason that the page can see.
IsTrue(a) ==
  /\ a.told = a.got
  /\ a.done => a.at \in {"closing", "over"}
  /\ a.at \in {"closing", "over"} =>
       \/ a.error # "none" \/ a.stopped
       \/ \A f \in Listing[a.list] : a.got[f] = "finished"

LoadsAreTrue == \A l \in Loads : IsTrue(load[l])

\* A tab's load is its own, and is not given to another while the tab has it.
LoadsAreOwn ==
  \A t \in Tabs : page[t].load # Nothing =>
    /\ load[page[t].load].at # "free"
    /\ \A u \in Tabs : page[u].load = page[t].load => u = t

WatchesItsLoad == \A t \in Tabs : page[t].at \in {"look", "watch"} => page[t].load # Nothing

\* What a page that is drawn for good, with loads as in ls, rests on.
Rests(p, ls) ==
  p.at = "rest" /\ Listing[p.list] # {} =>
    p.shown.whole \/ p.shown.error # "none" \/ (p.load # Nothing /\ ls[p.load].stopped)

CatalogInv ==
  /\ TypeOK
  /\ LoadsAreTrue
  /\ LoadsAreOwn
  /\ WatchesItsLoad
  /\ \A t \in Tabs : Rests(page[t], load)

LEMMA NewLoadIsGood ==
  ASSUME NEW at \in {"free", "reading"}, NEW n \in Versions \cup {Nothing}
  PROVE  NewLoad(at, n) \in LoadStates /\ IsTrue(NewLoad(at, n)) /\ NewLoad(at, n).at = at
<1>1. Empty \in [Forms -> Got]
  BY DEF Empty, Got
<1>2. NewLoad(at, n) \in LoadStates
  BY <1>1 DEF NewLoad, LoadStates, Errors
<1>. QED
  BY <1>2 DEF NewLoad, IsTrue

LEMMA DroppedIsGood ==
  ASSUME NEW a \in LoadStates, IsTrue(a), NEW stop \in BOOLEAN
  PROVE  Dropped(a, stop) \in LoadStates /\ IsTrue(Dropped(a, stop))
<1>1. CASE a.at = "over"
  BY <1>1, NewLoadIsGood DEF Dropped, Free
<1>2. CASE a.at # "over"
  BY <1>2 DEF Dropped, LoadStates, IsTrue
<1>. QED
  BY <1>1, <1>2

LEMMA InitCatalogInv == Init => CatalogInv
<1>. SUFFICES ASSUME Init PROVE CatalogInv
  OBVIOUS
<1>1. TypeOK
  <2>1. drive \in Versions
    BY ListingAssumption DEF Init, Versions
  <2>2. Blank \in [whole : BOOLEAN, error : Errors]
    BY DEF Blank, Errors
  <2>3. [at |-> "away", list |-> Nothing, load |-> Nothing, click |-> FALSE, shown |-> Blank] \in Pages
    BY <2>2 DEF Pages
  <2>4. NewLoad("free", Nothing) \in LoadStates
    BY NewLoadIsGood
  <2>. QED
    BY <2>1, <2>3, <2>4 DEF Init, TypeOK
<1>2. LoadsAreTrue
  BY NewLoadIsGood DEF Init, LoadsAreTrue
<1>. QED
  BY <1>1, <1>2 DEF Init, CatalogInv, LoadsAreOwn, WatchesItsLoad, Rests

\* A step of a load alone.
LEMMA LoadChanges ==
  ASSUME CatalogInv, NEW l \in Loads, NEW new \in LoadStates, IsTrue(new),
         load' = [load EXCEPT ![l] = new], UNCHANGED <<drive, page>>,
         (\E t \in Tabs : page[t].load = l) => new.at # "free" /\ (load[l].stopped => new.stopped)
  PROVE  CatalogInv'
<1>1. TypeOK
  BY DEF CatalogInv
<1>2. \A k \in Loads : load'[k] = IF k = l THEN new ELSE load[k]
  BY <1>1 DEF TypeOK
<1>3. TypeOK' /\ LoadsAreTrue'
  BY <1>1, <1>2 DEF TypeOK, CatalogInv, LoadsAreTrue, IsTrue
<1>4. \A t \in Tabs : page[t].load # Nothing => page[t].load \in Loads
  BY <1>1 DEF TypeOK, Pages
<1>5. LoadsAreOwn'
  BY <1>2, <1>4 DEF CatalogInv, LoadsAreOwn
<1>6. \A t \in Tabs : Rests(page[t], load)'
  BY <1>2, <1>4 DEF CatalogInv, Rests
<1>. QED
  BY <1>3, <1>5, <1>6 DEF CatalogInv, WatchesItsLoad, Rests

\* A step of a tab, which may give up its load and take a free one.
LEMMA TabChanges ==
  ASSUME CatalogInv, NEW t \in Tabs, NEW new \in Pages,
         page' = [page EXCEPT ![t] = new], drive' = drive,
         load' \in [Loads -> LoadStates], LoadsAreTrue',
         \A l \in Loads : l # page[t].load /\ load[l].at # "free" =>
           load'[l].at # "free" /\ (load[l].stopped => load'[l].stopped),
         new.load # Nothing =>
           load'[new.load].at # "free" /\ (new.load = page[t].load \/ load[new.load].at = "free"),
         new.at \in {"look", "watch"} => new.load # Nothing,
         Rests(new, load')
  PROVE  CatalogInv'
<1>1. TypeOK
  BY DEF CatalogInv
<1>2. \A u \in Tabs : page'[u] = IF u = t THEN new ELSE page[u]
  BY <1>1 DEF TypeOK
<1>3. TypeOK'
  BY <1>1, <1>2 DEF TypeOK
<1>4. \A u \in Tabs : page[u].load # Nothing => page[u].load \in Loads
  BY <1>1 DEF TypeOK, Pages
<1>5. ASSUME NEW u \in Tabs, u # t, page[u].load # Nothing
      PROVE  /\ page[u].load # page[t].load /\ load[page[u].load].at # "free"
             /\ page[u].load # new.load
             /\ load'[page[u].load].at # "free"
             /\ load[page[u].load].stopped => load'[page[u].load].stopped
  <2>1. page[u].load # page[t].load /\ load[page[u].load].at # "free"
    BY <1>5 DEF CatalogInv, LoadsAreOwn
  <2>. QED
    BY <1>4, <1>5, <2>1
<1>6. LoadsAreOwn'
  <2>. SUFFICES ASSUME NEW u \in Tabs, page'[u].load # Nothing
                PROVE  /\ load'[page'[u].load].at # "free"
                       /\ \A v \in Tabs : page'[v].load = page'[u].load => v = u
    BY DEF LoadsAreOwn
  <2>1. CASE u = t
    BY <1>2, <1>5, <2>1
  <2>2. CASE u # t
    BY <1>2, <1>5, <2>2 DEF CatalogInv, LoadsAreOwn
  <2>. QED
    BY <2>1, <2>2
<1>7. WatchesItsLoad'
  BY <1>2 DEF CatalogInv, WatchesItsLoad
<1>8. ASSUME NEW u \in Tabs PROVE Rests(page'[u], load')
  <2>1. CASE u = t
    BY <1>2, <2>1
  <2>2. CASE u # t
    <3>1. page'[u] = page[u] /\ Rests(page[u], load)
      BY <1>2, <2>2 DEF CatalogInv
    <3>. QED
      BY <1>5, <2>2, <3>1 DEF Rests
  <2>. QED
    BY <2>1, <2>2
<1>. QED
  BY <1>3, <1>6, <1>7, <1>8 DEF CatalogInv, Rests

\* The step of a tab that leaves the loads alone.
LEMMA TabMoves ==
  ASSUME CatalogInv, NEW t \in Tabs, NEW new \in Pages,
         page' = [page EXCEPT ![t] = new], UNCHANGED <<drive, load>>,
         new.load = page[t].load,
         new.at \in {"look", "watch"} => new.load # Nothing,
         Rests(new, load)
  PROVE  CatalogInv'
<1>1. load \in [Loads -> LoadStates] /\ LoadsAreTrue /\ load' = load
  BY DEF CatalogInv, TypeOK
<1>2. LoadsAreTrue'
  BY <1>1 DEF LoadsAreTrue
<1>3. new.load # Nothing => load[new.load].at # "free"
  BY DEF CatalogInv, LoadsAreOwn
<1>4. Rests(new, load')
  BY <1>1
<1>. QED
  BY <1>1, <1>2, <1>3, <1>4, TabChanges

LEMMA LineKeepsInv ==
  ASSUME CatalogInv, NEW l \in Loads, Line(l)
  PROVE  CatalogInv'
<1>1. load \in [Loads -> LoadStates] /\ load[l] \in LoadStates /\ IsTrue(load[l])
  BY DEF CatalogInv, TypeOK, LoadsAreTrue
<1>2. load[l].at = "reading" /\ load[l].done = FALSE
  BY <1>1 DEF Line, LoadStates, IsTrue
<1>3. UNCHANGED <<drive, page>>
  BY DEF Line
<1>4. ASSUME NEW f \in Forms, NEW ok \in BOOLEAN, FormLine(l, f, ok)
      PROVE  CatalogInv'
  <2>. DEFINE kind == IF load[l].told[f] = "nothing" THEN "summary" ELSE "stats"
              got == Applied(kind, ok)
              new == [load[l] EXCEPT !.told[f] = got, !.got[f] = got]
  <2>1. load' = [load EXCEPT ![l] = new]
    BY <1>1, <1>4 DEF FormLine, Applied, LoadStates
  <2>2. got \in Got
    BY DEF Applied, Got
  <2>3. new \in LoadStates /\ IsTrue(new) /\ new.at = "reading" /\ new.stopped = load[l].stopped
    BY <1>1, <1>2, <2>2 DEF LoadStates, IsTrue
  <2>. HIDE DEF new
  <2>. QED
    BY <1>3, <2>1, <2>3, LoadChanges
<1>5. ASSUME DoneLine(l) PROVE CatalogInv'
  <2>. DEFINE new == [Quit(load[l]) EXCEPT !.done = TRUE]
  <2>1. load' = [load EXCEPT ![l] = new]
    BY <1>5 DEF DoneLine
  <2>2. new \in LoadStates /\ new.at = "closing" /\ new.stopped = load[l].stopped
    BY <1>1 DEF Quit, LoadStates
  <2>3. IsTrue(new)
    BY <1>1, <1>5 DEF DoneLine, Quit, LoadStates, IsTrue
  <2>. HIDE DEF new
  <2>. QED
    BY <1>3, <2>1, <2>2, <2>3, LoadChanges
<1>6. ASSUME NEW e \in Errors \ {"none"}, ErrorLine(l, e) PROVE CatalogInv'
  <2>. DEFINE new == [Quit(load[l]) EXCEPT !.error = e]
  <2>1. load' = [load EXCEPT ![l] = new]
    BY <1>6 DEF ErrorLine
  <2>2. new \in LoadStates /\ new.at = "closing" /\ new.stopped = load[l].stopped
    BY <1>1 DEF Quit, LoadStates
  <2>3. IsTrue(new)
    BY <1>1 DEF Quit, LoadStates, IsTrue
  <2>. HIDE DEF new
  <2>. QED
    BY <1>3, <2>1, <2>2, <2>3, LoadChanges
<1>. QED
  BY <1>4, <1>5, <1>6 DEF Line

LEMMA StopReadingKeepsInv ==
  ASSUME CatalogInv, NEW l \in Loads, StopReading(l)
  PROVE  CatalogInv'
<1>1. load[l] \in LoadStates /\ IsTrue(load[l])
  BY DEF CatalogInv, TypeOK, LoadsAreTrue
<1>. DEFINE new == [Quit(load[l]) EXCEPT !.stopped = TRUE]
<1>2. load' = [load EXCEPT ![l] = new] /\ UNCHANGED <<drive, page>>
  BY DEF StopReading
<1>3. new \in LoadStates /\ new.at = "closing" /\ new.stopped
  BY <1>1 DEF Quit, LoadStates
<1>4. IsTrue(new)
  BY <1>1 DEF Quit, LoadStates, IsTrue
<1>. HIDE DEF new
<1>. QED
  BY <1>2, <1>3, <1>4, LoadChanges

LEMMA CloseKeepsInv ==
  ASSUME CatalogInv, NEW l \in Loads, Close(l)
  PROVE  CatalogInv'
<1>1. load[l] \in LoadStates /\ IsTrue(load[l]) /\ load[l].at = "closing"
  BY DEF CatalogInv, TypeOK, LoadsAreTrue, Close
<1>2. UNCHANGED <<drive, page>>
  BY DEF Close
<1>3. CASE \E t \in Tabs : page[t].load = l
  <2>. DEFINE new == [load[l] EXCEPT !.at = "over", !.done = TRUE]
  <2>1. load' = [load EXCEPT ![l] = new]
    BY <1>3 DEF Close
  <2>2. new \in LoadStates /\ IsTrue(new) /\ new.at = "over" /\ new.stopped = load[l].stopped
    BY <1>1 DEF LoadStates, IsTrue
  <2>. HIDE DEF new
  <2>. QED
    BY <1>2, <2>1, <2>2, LoadChanges
<1>4. CASE ~\E t \in Tabs : page[t].load = l
  <2>1. load' = [load EXCEPT ![l] = Free]
    BY <1>4 DEF Close
  <2>2. Free \in LoadStates /\ IsTrue(Free)
    BY NewLoadIsGood DEF Free
  <2>. QED
    BY <1>2, <1>4, <2>1, <2>2, LoadChanges
<1>. QED
  BY <1>3, <1>4

LEMMA GrowIdleKeepsInv ==
  ASSUME CatalogInv, NEW l \in Loads, GrowIdle(l)
  PROVE  CatalogInv'
<1>1. load[l] \in LoadStates /\ IsTrue(load[l]) /\ load[l].at = "reading"
  BY DEF CatalogInv, TypeOK, LoadsAreTrue, GrowIdle
<1>. DEFINE new == [load[l] EXCEPT !.idle = TRUE]
<1>2. load' = [load EXCEPT ![l] = new] /\ UNCHANGED <<drive, page>>
  BY DEF GrowIdle
<1>3. new \in LoadStates /\ IsTrue(new) /\ new.at = "reading" /\ new.stopped = load[l].stopped
  BY <1>1 DEF LoadStates, IsTrue
<1>. HIDE DEF new
<1>. QED
  BY <1>2, <1>3, LoadChanges

\* A tab that looks: the load keeps what it has, and is shown as it is.
LEMMA LooksKeepInv ==
  ASSUME CatalogInv, NEW t \in Tabs, NEW at \in {"rest", "watch", "rerun"},
         page[t].at \in {"look", "watch"},
         page' = [page EXCEPT ![t] = Drawn(t, Snapshot(page[t].load), at)],
         Seen(page[t].load), drive' = drive,
         at = "rest" => load[page[t].load].done
  PROVE  CatalogInv'
<1>1. page[t] \in Pages /\ load \in [Loads -> LoadStates]
  BY DEF CatalogInv, TypeOK
<1>. DEFINE l == page[t].load
            snapshot == Snapshot(l)
            new == Drawn(t, snapshot, at)
<1>2. l \in Loads /\ l # Nothing
  BY <1>1 DEF CatalogInv, WatchesItsLoad, Pages
<1>3. load[l] \in LoadStates /\ IsTrue(load[l]) /\ load[l].at # "free"
  BY <1>1, <1>2 DEF CatalogInv, LoadsAreTrue, LoadsAreOwn
<1>4. snapshot \in [whole : BOOLEAN, error : Errors] /\ snapshot.error = load[l].error
  BY <1>3 DEF Snapshot, LoadStates
<1>5. load[l].done => snapshot.whole \/ snapshot.error # "none" \/ load[l].stopped
  BY <1>3 DEF Snapshot, IsTrue
<1>. HIDE DEF snapshot
<1>6. new \in Pages /\ new.load = l /\ new.shown = snapshot /\ new.at \in {"out", at}
  BY <1>1, <1>4 DEF Drawn, Pages
<1>7. page' = [page EXCEPT ![t] = new]
  BY DEF snapshot
<1>8. \A k \in Loads : load'[k] = IF k = l THEN [load[l] EXCEPT !.idle = FALSE] ELSE load[k]
  BY <1>1, <1>2 DEF Seen
<1>9. [load[l] EXCEPT !.idle = FALSE] \in LoadStates /\ IsTrue([load[l] EXCEPT !.idle = FALSE])
  BY <1>3 DEF LoadStates, IsTrue
<1>10. load' \in [Loads -> LoadStates] /\ LoadsAreTrue'
  <2>1. load' \in [Loads -> LoadStates]
    BY <1>1, <1>2, <1>9 DEF Seen
  <2>2. \A k \in Loads : IsTrue(load'[k])
    BY <1>8, <1>9 DEF CatalogInv, LoadsAreTrue
  <2>. QED
    BY <2>1, <2>2 DEF LoadsAreTrue
<1>11. /\ load'[l].at # "free" /\ (load[l].stopped => load'[l].stopped)
       /\ \A k \in Loads : k # l => load'[k] = load[k]
  BY <1>2, <1>3, <1>8 DEF LoadStates
<1>12. Rests(new, load')
  BY <1>2, <1>5, <1>6, <1>11 DEF Rests
<1>. HIDE DEF new, l
<1>13. /\ l = page[t].load /\ new.load = page[t].load
       /\ new.load # Nothing
  BY <1>2, <1>6 DEF l
<1>. QED
  BY <1>6, <1>7, <1>10, <1>11, <1>12, <1>13, TabChanges

\* The steps of a tab that only move its script.
LEMMA MovesKeepInv ==
  ASSUME CatalogInv, NEW t \in Tabs,
         \/ ReadList(t) \/ ListFails(t) \/ Visit(t) \/ Leave(t)
         \/ \E pressed \in BOOLEAN : Interact(t, pressed)
  PROVE  CatalogInv'
<1>1. page[t] \in Pages /\ drive \in Versions
  BY DEF CatalogInv, TypeOK
<1>2. PICK new \in Pages :
        /\ page' = [page EXCEPT ![t] = new] /\ UNCHANGED <<drive, load>>
        /\ new.load = page[t].load /\ new.at \in {"bar", "failed", "run", "away"}
  <2>1. CASE ReadList(t)
    <3>. DEFINE new == [page[t] EXCEPT !.at = "bar", !.list = drive]
    <3>1. new \in Pages /\ new.load = page[t].load /\ new.at = "bar"
      BY <1>1 DEF Pages
    <3>2. page' = [page EXCEPT ![t] = new] /\ UNCHANGED <<drive, load>>
      BY <2>1 DEF ReadList
    <3>. QED
      BY <3>1, <3>2
  <2>2. CASE ListFails(t)
    <3>. DEFINE new == [page[t] EXCEPT !.at = "failed", !.click = FALSE]
    <3>1. new \in Pages /\ new.load = page[t].load /\ new.at = "failed"
      BY <1>1 DEF Pages
    <3>2. page' = [page EXCEPT ![t] = new] /\ UNCHANGED <<drive, load>>
      BY <2>2 DEF ListFails
    <3>. QED
      BY <3>1, <3>2
  <2>3. CASE Visit(t)
    <3>. DEFINE new == [page[t] EXCEPT !.at = "run"]
    <3>1. new \in Pages /\ new.load = page[t].load /\ new.at = "run"
      BY <1>1 DEF Pages
    <3>2. page' = [page EXCEPT ![t] = new] /\ UNCHANGED <<drive, load>>
      BY <2>3 DEF Visit
    <3>. QED
      BY <3>1, <3>2
  <2>4. CASE Leave(t)
    <3>. DEFINE new == [page[t] EXCEPT !.at = "away"]
    <3>1. new \in Pages /\ new.load = page[t].load /\ new.at = "away"
      BY <1>1 DEF Pages
    <3>2. page' = [page EXCEPT ![t] = new] /\ UNCHANGED <<drive, load>>
      BY <2>4 DEF Leave
    <3>. QED
      BY <3>1, <3>2
  <2>5. ASSUME NEW pressed \in BOOLEAN, Interact(t, pressed)
        PROVE  \E new \in Pages :
                 /\ page' = [page EXCEPT ![t] = new] /\ UNCHANGED <<drive, load>>
                 /\ new.load = page[t].load /\ new.at \in {"bar", "failed", "run", "away"}
    <3>. DEFINE new == [page[t] EXCEPT !.at = "run", !.click = pressed]
    <3>1. new \in Pages /\ new.load = page[t].load /\ new.at = "run"
      BY <1>1 DEF Pages
    <3>2. page' = [page EXCEPT ![t] = new] /\ UNCHANGED <<drive, load>>
      BY <2>5 DEF Interact
    <3>. QED
      BY <3>1, <3>2
  <2>. QED
    BY <2>1, <2>2, <2>3, <2>4, <2>5
<1>3. Rests(new, load) /\ new.at \notin {"look", "watch"}
  BY <1>2 DEF Rests
<1>. QED
  BY <1>2, <1>3, TabMoves

LEMMA RefreshKeepsInv ==
  ASSUME CatalogInv, NEW t \in Tabs, Refresh(t)
  PROVE  CatalogInv'
<1>1. page[t] \in Pages /\ load \in [Loads -> LoadStates] /\ LoadsAreTrue
  BY DEF CatalogInv, TypeOK
<1>. DEFINE new == [page[t] EXCEPT !.at = "rerun", !.click = FALSE, !.load = Nothing]
<1>2. new \in Pages /\ new.load = Nothing /\ new.at = "rerun"
  BY <1>1 DEF Pages
<1>3. page' = [page EXCEPT ![t] = new] /\ drive' = drive
  BY DEF Refresh
<1>4. load' = [l \in Loads |-> IF l = page[t].load THEN Dropped(load[l], TRUE) ELSE load[l]]
  BY DEF Refresh
<1>5. \A l \in Loads : load[l] \in LoadStates /\ IsTrue(load[l])
  BY <1>1 DEF LoadsAreTrue
<1>6. \A l \in Loads : Dropped(load[l], TRUE) \in LoadStates /\ IsTrue(Dropped(load[l], TRUE))
  BY <1>5, DroppedIsGood
<1>7. load' \in [Loads -> LoadStates]
  BY <1>4, <1>5, <1>6
<1>8. \A l \in Loads : IsTrue(load'[l])
  BY <1>4, <1>5, <1>6
<1>9. LoadsAreTrue'
  BY <1>8 DEF LoadsAreTrue
<1>10. \A l \in Loads : l # page[t].load => load'[l] = load[l]
  BY <1>4
<1>11. Rests(new, load')
  BY <1>2 DEF Rests
<1>. HIDE DEF new
<1>. QED
  BY <1>2, <1>3, <1>7, <1>9, <1>10, <1>11, TabChanges

LEMMA TakeLoadKeepsInv ==
  ASSUME CatalogInv, NEW t \in Tabs, TakeLoad(t)
  PROVE  CatalogInv'
<1>1. page[t] \in Pages /\ load \in [Loads -> LoadStates] /\ LoadsAreTrue
  BY DEF CatalogInv, TypeOK
<1>2. drive' = drive
  BY DEF TakeLoad
<1>3. CASE Listing[page[t].list] = {}
  <2>. DEFINE new == [page[t] EXCEPT !.at = "rest", !.click = FALSE, !.shown = Blank]
  <2>1. Blank \in [whole : BOOLEAN, error : Errors]
    BY DEF Blank, Errors
  <2>2. new \in Pages /\ new.load = page[t].load /\ new.at = "rest" /\ new.list = page[t].list
    BY <1>1, <2>1 DEF Pages
  <2>3. page' = [page EXCEPT ![t] = new] /\ load' = load
    BY <1>3 DEF TakeLoad
  <2>4. Rests(new, load)
    BY <1>3, <2>2 DEF Rests
  <2>. HIDE DEF new
  <2>. QED
    BY <1>2, <2>2, <2>3, <2>4, TabMoves
<1>4. CASE Listing[page[t].list] # {} /\ Fits(t)
  <2>. DEFINE new == [page[t] EXCEPT !.at = "look"]
  <2>1. new \in Pages /\ new.load = page[t].load /\ new.at = "look" /\ new.load # Nothing
    BY <1>1, <1>4 DEF Pages, Fits
  <2>2. page' = [page EXCEPT ![t] = new] /\ load' = load
    BY <1>4 DEF TakeLoad
  <2>3. Rests(new, load)
    BY <2>1 DEF Rests
  <2>. HIDE DEF new
  <2>. QED
    BY <1>2, <2>1, <2>2, <2>3, TabMoves
<1>5. CASE Listing[page[t].list] # {} /\ ~Fits(t)
  <2>. DEFINE l == CHOOSE k \in Loads : load[k].at = "free"
  <2>1. l \in Loads /\ load[l].at = "free"
    BY <1>5 DEF TakeLoad
  <2>2. load' = [k \in Loads |-> CASE k = l -> NewLoad("reading", page[t].list)
                                   [] k = page[t].load -> Dropped(load[k], FALSE)
                                   [] OTHER -> load[k]]
    BY <1>5 DEF TakeLoad
  <2>. DEFINE new == [page[t] EXCEPT !.at = "look", !.load = l]
  <2>3. page' = [page EXCEPT ![t] = new]
    BY <1>5 DEF TakeLoad
  <2>. HIDE DEF l
  <2>4. new \in Pages /\ new.load = l /\ new.at = "look" /\ l # Nothing
    BY <1>1, <2>1, NothingAssumption DEF Pages
  <2>5. page[t].load # l
    BY <2>1, <2>4 DEF CatalogInv, LoadsAreOwn
  <2>6. page[t].list \in Versions \cup {Nothing}
    BY <1>1 DEF Pages
  <2>. DEFINE started == NewLoad("reading", page[t].list)
  <2>7. started \in LoadStates /\ IsTrue(started) /\ started.at = "reading"
    BY <2>6, NewLoadIsGood
  <2>8. \A k \in Loads : load[k] \in LoadStates /\ IsTrue(load[k])
    BY <1>1 DEF LoadsAreTrue
  <2>9. \A k \in Loads : Dropped(load[k], FALSE) \in LoadStates /\ IsTrue(Dropped(load[k], FALSE))
    BY <2>8, DroppedIsGood
  <2>. HIDE DEF started
  <2>10. load' = [k \in Loads |-> IF k = l THEN started
                                  ELSE IF k = page[t].load THEN Dropped(load[k], FALSE) ELSE load[k]]
    BY <2>2, <2>5 DEF started
  <2>11. load' \in [Loads -> LoadStates]
    BY <2>7, <2>8, <2>9, <2>10
  <2>12. \A k \in Loads : IsTrue(load'[k])
    BY <2>7, <2>8, <2>9, <2>10
  <2>13. LoadsAreTrue'
    BY <2>12 DEF LoadsAreTrue
  <2>14. load'[l].at = "reading"
    BY <2>1, <2>7, <2>10
  <2>15. \A k \in Loads : k # page[t].load /\ load[k].at # "free" => load'[k] = load[k]
    BY <2>1, <2>10
  <2>16. Rests(new, load')
    BY <2>4 DEF Rests
  <2>. HIDE DEF new
  <2>. QED
    BY <1>2, <2>1, <2>3, <2>4, <2>11, <2>13, <2>14, <2>15, <2>16, TabChanges
<1>. QED
  BY <1>3, <1>4, <1>5

LEMMA LookKeepsInv ==
  ASSUME CatalogInv, NEW t \in Tabs, Look(t)
  PROVE  CatalogInv'
<1>1. Timer(page[t].load) \in {"rest", "watch", "rerun"}
  BY DEF Timer
<1>2. Timer(page[t].load) = "rest" => load[page[t].load].done
  BY DEF Timer
<1>3. /\ page[t].at \in {"look", "watch"} /\ Seen(page[t].load) /\ drive' = drive
      /\ page' = [page EXCEPT ![t] = Drawn(t, Snapshot(page[t].load), Timer(page[t].load))]
  BY DEF Look
<1>. QED
  BY <1>1, <1>2, <1>3, LooksKeepInv

LEMMA TickKeepsInv ==
  ASSUME CatalogInv, NEW t \in Tabs, Tick(t)
  PROVE  CatalogInv'
<1>. DEFINE at == IF load[page[t].load].done /\ Snapshot(page[t].load).error # "unavailable"
                  THEN "rerun" ELSE "watch"
<1>1. at \in {"rest", "watch", "rerun"} /\ at # "rest"
  OBVIOUS
<1>2. /\ page[t].at \in {"look", "watch"} /\ Seen(page[t].load) /\ drive' = drive
      /\ page' = [page EXCEPT ![t] = Drawn(t, Snapshot(page[t].load), at)]
  BY DEF Tick
<1>. HIDE DEF at
<1>. QED
  BY <1>1, <1>2, LooksKeepInv

LEMMA NextCatalogInv == CatalogInv /\ [Next]_webVars => CatalogInv'
<1>. SUFFICES ASSUME CatalogInv, [Next]_webVars PROVE CatalogInv'
  OBVIOUS
<1>1. ASSUME NEW l \in Loads, Thread(l) \/ GrowIdle(l) PROVE CatalogInv'
  BY <1>1, LineKeepsInv, StopReadingKeepsInv, CloseKeepsInv, GrowIdleKeepsInv DEF Thread
<1>2. ASSUME NEW t \in Tabs, Script(t) \/ User(t) PROVE CatalogInv'
  BY <1>2, MovesKeepInv, RefreshKeepsInv, TakeLoadKeepsInv, LookKeepsInv, TickKeepsInv
     DEF Script, User
<1>3. CASE ListChanges \/ UNCHANGED webVars
  <2>1. drive' \in Versions /\ page' = page /\ load' = load
    BY <1>3 DEF ListChanges, webVars, CatalogInv, TypeOK
  <2>. QED
    BY <2>1 DEF CatalogInv, TypeOK, LoadsAreTrue, LoadsAreOwn, WatchesItsLoad
<1>. QED
  BY <1>1, <1>2, <1>3 DEF Next

\* In every reachable state the catalog page and its loads satisfy the inductive
\* invariant: each load has kept what its stream said and has ended for a reason
\* that the page can see, and no two tabs share a load (ui/catalog_load.py,
\* ui/pages/catalog.py).
THEOREM CatalogInvariance == Spec => []CatalogInv
  BY InitCatalogInv, NextCatalogInv, PTL DEF Spec

\* The catalog page and its loads have the types that their module gives them.
THEOREM CatalogTypeCorrect == Spec => []TypeOK
<1>1. CatalogInv => TypeOK
  BY DEF CatalogInv
<1>. QED
  BY <1>1, CatalogInvariance, PTL

\* A page whose timer is off shows every form counted or with its failure, or an
\* error, or what came of a load that was stopped (ui/pages/catalog.py, _catalog_load).
THEOREM RestsOnWholeHolds == Spec => []RestsOnWhole
<1>1. CatalogInv => RestsOnWhole
  BY DEF CatalogInv, Rests, RestsOnWhole
<1>. QED
  BY <1>1, CatalogInvariance, PTL

-----------------------------------------------------------------------------
(* The counts of the lines.                                                 *)

\* An entry is dropped by the tick that would take it past its lifetime.
EntriesAreYoung ==
  /\ DOMAIN entry = Kinds
  /\ \A k \in Kinds : entry[k] = NoEntry \/ entry[k].age \in 0..TTL[k]

CountsInv == EntriesAreYoung /\ stream.closed \in BOOLEAN

LEMMA TTLsAreLifetimes ==
  /\ \A k \in Kinds : TTL[k] \in Nat \ {0}
  /\ TTL["response_stats"] = OpenTTL
  BY TTLAssumption DEF TTL, Kinds

\* get_or_load answers with an entry that may be kept.
LEMMA AnsweredIsYoung ==
  ASSUME EntriesAreYoung, NEW k \in Kinds, NEW value
  PROVE  Answered(k, value).age \in 0..TTL[k]
<1>1. CASE entry[k] = NoEntry
  <2>1. 0 \in 0..TTL[k]
    BY TTLsAreLifetimes
  <2>. QED
    BY <1>1, <2>1 DEF Answered
<1>2. CASE entry[k] # NoEntry
  BY <1>2 DEF Answered, EntriesAreYoung
<1>. QED
  BY <1>1, <1>2

\* The tick keeps an entry within its lifetime, or drops it.
LEMMA OlderIsYoung ==
  ASSUME EntriesAreYoung, NEW k \in Kinds
  PROVE  Older(entry[k], k) = NoEntry \/ Older(entry[k], k).age \in 0..TTL[k]
<1>1. CASE entry[k] = NoEntry \/ entry[k].age = TTL[k]
  BY <1>1 DEF Older
<1>2. CASE entry[k] # NoEntry /\ entry[k].age # TTL[k]
  <2>1. entry[k].age \in 0..TTL[k] /\ TTL[k] \in Nat
    BY <1>2, TTLsAreLifetimes DEF EntriesAreYoung
  <2>2. entry[k].age + 1 \in 0..TTL[k]
    BY <1>2, <2>1
  <2>3. Older(entry[k], k).age = entry[k].age + 1
    BY <1>2 DEF Older
  <2>. QED
    BY <2>2, <2>3
<1>. QED
  BY <1>1, <1>2

LEMMA InitCountsInv == CountInit => CountsInv
  BY DEF CountInit, CountsInv, EntriesAreYoung

LEMMA AnsweringKeepsYoung ==
  ASSUME EntriesAreYoung, NEW k \in Kinds, NEW value, entry' = [entry EXCEPT ![k] = Answered(k, value)]
  PROVE  EntriesAreYoung'
<1>1. \A j \in Kinds : entry'[j] = IF j = k THEN Answered(k, value) ELSE entry[j]
  BY DEF EntriesAreYoung
<1>2. DOMAIN entry' = Kinds
  BY DEF EntriesAreYoung
<1>3. Answered(k, value).age \in 0..TTL[k]
  BY AnsweredIsYoung
<1>. QED
  BY <1>1, <1>2, <1>3 DEF EntriesAreYoung

LEMMA NextCountsInv == CountsInv /\ [CountNext]_countVars => CountsInv'
<1>. SUFFICES ASSUME CountsInv, [CountNext]_countVars PROVE CountsInv'
  OBVIOUS
<1>1. EntriesAreYoung /\ stream.closed \in BOOLEAN
  BY DEF CountsInv
<1>2. CASE Respond \/ Switch \/ UNCHANGED countVars
  BY <1>1, <1>2 DEF Respond, Switch, countVars, CountsInv, EntriesAreYoung
<1>3. CASE GetOlder
  <2>1. entry' = [k \in Kinds |-> Older(entry[k], k)] /\ stream' = stream
    BY <1>3 DEF GetOlder
  <2>2. \A k \in Kinds : entry'[k] = NoEntry \/ entry'[k].age \in 0..TTL[k]
    BY <1>1, <2>1, OlderIsYoung
  <2>. QED
    BY <1>1, <2>1, <2>2 DEF CountsInv, EntriesAreYoung
<1>4. CASE Details
  <2>1. "form_summary" \in Kinds
    BY DEF Kinds
  <2>2. EntriesAreYoung'
    BY <1>1, <1>4, <2>1, AnsweringKeepsYoung DEF Details
  <2>. QED
    BY <1>4, <2>2 DEF Details, CountsInv
<1>5. CASE Count
  <2>1. CountKey(stream.closed) \in Kinds
    BY DEF CountKey, Kinds
  <2>2. EntriesAreYoung'
    BY <1>1, <1>5, <2>1, AnsweringKeepsYoung DEF Count
  <2>. QED
    BY <1>5, <2>2 DEF Count, CountsInv
<1>. QED
  BY <1>2, <1>3, <1>4, <1>5 DEF CountNext

\* The step that sends a count.
LEMMA SentCountIsFresh ==
  ASSUME CountsInv, CountNext, shown'.open, stream.at = "count", stream'.at = "details"
  PROVE  shown'.age <= OpenTTL
<1>1. Count
  BY DEF CountNext, Respond, Switch, GetOlder, Details
<1>2. /\ shown'.age = Answered(CountKey(stream.closed), form.count).age
      /\ shown'.open = ~stream.closed
  BY <1>1 DEF Count
<1>3. CountKey(stream.closed) = "response_stats" /\ "response_stats" \in Kinds
  BY <1>2 DEF CountsInv, CountKey, Kinds
<1>4. shown'.age \in 0..TTL["response_stats"]
  BY <1>2, <1>3, AnsweredIsYoung DEF CountsInv
<1>5. TTL["response_stats"] = OpenTTL /\ OpenTTL \in Nat
  BY TTLsAreLifetimes, TTLAssumption
<1>. QED
  BY <1>4, <1>5

\* Every entry of the two answers is within its lifetime when it is read
\* (api/routes/google_forms.py, _cached_form_summary, _cached_response_stats).
THEOREM CountsInvariance == CountSpec => []CountsInv
  BY InitCountsInv, NextCountsInv, PTL DEF CountSpec

\* A count that a line sends for an open form is at most as old as the short
\* lifetime, whatever is kept for hours (api/routes/google_forms.py,
\* _cached_response_stats).
THEOREM OpenCountsAreFreshHolds == CountSpec => OpenCountsAreFresh
<1>1. CountsInv /\ [CountNext]_countVars
        => [shown'.open /\ stream.at = "count" /\ stream'.at = "details" => shown'.age <= OpenTTL]_countVars
  BY SentCountIsFresh DEF countVars
<1>. QED
  BY <1>1, CountsInvariance, PTL DEF CountSpec, OpenCountsAreFresh

-----------------------------------------------------------------------------
(* The table.                                                               *)

\* The table that was drawn last is marked for the form of this session.
LastMarkIsCurrent ==
  /\ DOMAIN rows = Filters /\ filter \in Filters
  /\ rows[filter] # NoRows => rows[filter] = RowsOf(current, ids)

LEMMA InitLastMark == TableInit => LastMarkIsCurrent
  BY DEF TableInit, LastMarkIsCurrent, Filters

\* Between two tables nothing that a mark depends on changes.
LEMMA NextLastMark == LastMarkIsCurrent /\ [TableNext]_tableVars => LastMarkIsCurrent'
<1>. SUFFICES ASSUME LastMarkIsCurrent, [TableNext]_tableVars PROVE LastMarkIsCurrent'
  OBVIOUS
<1>1. ASSUME NEW f, NEW k \in Filters, ids' = Filtered(k), current' = f, filter' = k,
             rows' = [rows EXCEPT ![k] = Marked(k, ids', f)]
      PROVE  LastMarkIsCurrent'
  BY <1>1 DEF LastMarkIsCurrent, Marked
<1>2. CASE \/ \E f \in ListedForms : Arrives(f)
           \/ Deliver \/ UNCHANGED tableVars
           \/ \E i \in DOMAIN browser.ids : Click(i)
  <2>1. UNCHANGED <<filter, ids, rows, current>>
    BY <1>2 DEF Arrives, Deliver, Click, tableVars
  <2>. QED
    BY <2>1 DEF LastMarkIsCurrent, RowsOf
<1>3. filter \in Filters
  BY DEF LastMarkIsCurrent
<1>4. ASSUME NEW f \in ListedForms, SelectAbove(f) PROVE LastMarkIsCurrent'
  BY <1>1, <1>3, <1>4 DEF SelectAbove
<1>5. CASE Draw
  BY <1>1, <1>3, <1>5 DEF Draw
<1>6. CASE PickFormFromTable
  BY <1>1, <1>3, <1>6 DEF PickFormFromTable
<1>7. ASSUME NEW k \in Filters, SetFilter(k) PROVE LastMarkIsCurrent'
  BY <1>1, <1>7 DEF SetFilter
<1>. QED
  BY <1>2, <1>4, <1>5, <1>6, <1>7 DEF TableNext

\* The row that a form has in a table is the one that holds it.
LEMMA RowHoldsForm ==
  ASSUME NEW forms, NEW f \in Range(forms)
  PROVE  forms[RowOf(f, forms)] = f
<1>1. \E i \in DOMAIN forms : forms[i] = f
  BY DEF Range
<1>. QED
  BY <1>1 DEF RowOf

\* The table as it was drawn last marks the form of the session, however rows came
\* in, the filter changed or the form was selected elsewhere (ui/pages/catalog.py,
\* _mark_current_form, _pick_form_from_table).
THEOREM MarkIsOnCurrentFormHolds == TableSpec => []MarkIsOnCurrentForm
<1>1. LastMarkIsCurrent => MarkIsOnCurrentForm
  <2>. SUFFICES ASSUME rows[filter] = RowsOf(current, ids)
                PROVE  IF current \in Range(ids)
                       THEN Len(rows[filter]) = 1 /\ ids[rows[filter][1]] = current
                       ELSE rows[filter] = <<>>
    BY DEF LastMarkIsCurrent, MarkIsOnCurrentForm
  <2>1. CASE current \in Range(ids)
    <3>1. rows[filter] = <<RowOf(current, ids)>>
      BY <2>1 DEF RowsOf
    <3>2. Len(rows[filter]) = 1 /\ rows[filter][1] = RowOf(current, ids)
      BY <3>1
    <3>. QED
      BY <2>1, <3>2, RowHoldsForm
  <2>2. CASE current \notin Range(ids)
    BY <2>2 DEF RowsOf
  <2>. QED
    BY <2>1, <2>2
<1>. QED
  BY <1>1, InitLastMark, NextLastMark, PTL DEF TableSpec
=============================================================================
