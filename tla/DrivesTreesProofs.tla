-------------------------- MODULE DrivesTreesProofs ---------------------------
(***************************************************************************)
(* Proofs about Drives, where no drive comes or goes and no first scan     *)
(* runs during a rescan (SerialRescan): the tree of a loaded drive is live *)
(* and is no other slot's, although a removed drive leaves its root behind *)
(* in the letter and in the offline slot that takes it over.  Slots whose  *)
(* last database had no entry are excepted: they keep the root they had.   *)
(***************************************************************************)
EXTENDS DrivesProofs

-----------------------------------------------------------------------------
(* The inductive invariant.                                                *)

Scanning == {"free", "check", "fill", "publish"}

\* Which threads can be under way together.
Schedule ==
  /\ call["ScanAll"] # Idle => phase = "scan"
  /\ call["listener"] # Idle => phase \in {"on", "stop"}
  /\ call["rescan_t"] # Idle => phase \in {"on", "stop"} /\ messages = <<>> /\ call["listener"] = Idle
  /\ \A t \in Thread : call[t].at = "free" => t = "rescan_t"
  /\ call["destory"].at \notin Scanning
  /\ messages # <<>> => phase \in {"on", "stop"}

\* A letter that is loaded, or will be, is one the service knows of.
Known ==
  /\ \A i \in Letter : g_loaded[i] => g_bVols[i] /\ phase # "off"
  /\ \A t \in Thread : call[t].at \in Scanning => g_bVols[call[t].i]
  /\ phase \in {"load", "scan"} => \A i \in todo : g_bVols[i]

\* An offline slot has taken over the tree of letter i.
Shared(i) == \E s \in Offline : g_rootVols[s] = g_rootVols[i] /\ g_rootVols[i] # NULL

RootsDistinct ==
  /\ \A i, j \in Letter : g_rootVols[i] = g_rootVols[j] /\ g_rootVols[i] # NULL => i = j
  /\ \A s, r \in Offline \ hollow : g_rootVols[s] = g_rootVols[r] /\ g_rootVols[s] # NULL => s = r

\* What a letter that is loaded, or about to be, has.
Own(i) == g_rootVols[i] # NULL /\ heap[g_rootVols[i]].live /\ ~Shared(i)

OwnRoots ==
  /\ \A i \in Letter \ hollow : g_loaded[i] => Own(i)
  /\ \A t \in Thread : call[t].at = "publish" => Own(call[t].i)
  /\ call["rescan_t"].at = "free" => ~g_loaded[call["rescan_t"].i]

\* From message n on, letter i next arrives, or it is not there and no message waits.
ArrivesNext(i, n) ==
  /\ \A m \in n .. Len(messages) :
       messages[m].i = i /\ ~messages[m].add => \E k \in n .. m - 1 : messages[k].i = i /\ messages[k].add
  /\ (\A m \in n .. Len(messages) : messages[m].i # i) => present[i] = None

\* Arrivals and removals of a letter take turns in the queue of messages.
Alternate ==
  phase = "on" => \A n \in 1 .. Len(messages) : ~messages[n].add => ArrivesNext(messages[n].i, n + 1)

\* A letter whose tree an offline slot has got is waiting for its drive, or scanning it.
SharedWaits ==
  \A i \in Letter \ hollow : Shared(i) =>
    /\ phase \in {"on", "stop"}
    /\ phase = "on" => \/ call["listener"].at \in {"check", "fill"} /\ call["listener"].i = i
                       \/ ArrivesNext(i, 1)

TreesInv == TypeInv /\ Schedule /\ Known /\ RootsDistinct /\ OwnRoots /\ Alternate /\ SharedWaits

-----------------------------------------------------------------------------
LEMMA NewTreeOwn ==
  ASSUME TypeInv, RootsDistinct, NEW s \in Slot, NewTree(s)
  PROVE  /\ RootsDistinct'
         /\ \A i \in Letter : Shared(i)' => Shared(i) /\ i # s
         /\ \A i \in Letter : i = s \/ Own(i) => Own(i)'
<1>1. heap \in Seq(Node) /\ g_rootVols \in [Slot -> 0 .. Len(heap)]
  BY TypeParts DEF Heap
<1>2. /\ Len(heap) \in Nat /\ \A a \in 1 .. Len(heap) : heap'[a] = heap[a]
      /\ g_rootVols'[s] = Len(heap) + 1 /\ heap'[g_rootVols'[s]].live
      /\ \A r \in Slot : r # s => g_rootVols'[r] = g_rootVols[r]
  BY <1>1, NewTreeFacts
<1>3. \A r \in Slot : r # s => g_rootVols'[r] # g_rootVols'[s] /\ g_rootVols'[s] # NULL
  BY <1>1, <1>2 DEF NULL
<1>4. RootsDistinct'
  <2>0. ASSUME NEW i \in Letter, NEW j \in Letter, g_rootVols'[i] = g_rootVols'[j], g_rootVols'[i] # NULL, i # j
        PROVE  FALSE
    <3>1. i # s /\ j # s /\ i \in Slot /\ j \in Slot
      BY <1>3, <2>0, SlotFacts
    <3>2. QED
      BY <1>2, <2>0, <3>1 DEF RootsDistinct
  <2>1. \A r \in Slot : r # s => (r \in hollow' <=> r \in hollow)
    BY DEF NewTree
  <2>2. QED
    <3>1. ASSUME NEW q \in Offline \ hollow', NEW r \in Offline \ hollow',
                 g_rootVols'[q] = g_rootVols'[r], g_rootVols'[q] # NULL, q # r
          PROVE  FALSE
      <4>1. q # s /\ r # s /\ q \in Slot /\ r \in Slot
        BY <1>3, <3>1, SlotFacts
      <4>2. q \notin hollow /\ r \notin hollow
        BY <2>1, <3>1, <4>1
      <4>3. QED
        BY <1>2, <3>1, <4>1, <4>2 DEF RootsDistinct
    <3>2. QED
      BY <2>0, <3>1 DEF RootsDistinct
<1>5. ASSUME NEW i \in Letter, Shared(i)'
      PROVE  Shared(i) /\ i # s
  <2>1. PICK r \in Offline : g_rootVols'[r] = g_rootVols'[i] /\ g_rootVols'[i] # NULL
    BY <1>5 DEF Shared
  <2>2. r # i /\ r \in Slot /\ i \in Slot
    BY SlotFacts
  <2>3. i # s /\ r # s
    BY <1>3, <2>1, <2>2
  <2>4. QED
    BY <1>2, <2>1, <2>2, <2>3 DEF Shared
<1>6. ASSUME NEW i \in Letter, i = s \/ Own(i)
      PROVE  Own(i)'
  <2>1. g_rootVols'[i] # NULL /\ heap'[g_rootVols'[i]].live
    <3>1. CASE i = s
      BY <1>2, <1>3, <3>1 DEF NULL
    <3>2. CASE i # s
      <4>1. g_rootVols'[i] = g_rootVols[i] /\ g_rootVols[i] \in 1 .. Len(heap) /\ heap[g_rootVols[i]].live
        BY <1>1, <1>2, <1>6, <3>2, SlotFacts DEF Own, NULL
      <4>2. QED
        BY <1>2, <4>1 DEF NULL
    <3>3. QED
      BY <3>1, <3>2
  <2>2. ~Shared(i)'
    BY <1>5, <1>6 DEF Own
  <2>3. QED
    BY <2>1, <2>2 DEF Own
<1>7. QED
  BY <1>4, <1>5, <1>6

LEMMA NoTreeOwn ==
  ASSUME TypeInv, RootsDistinct, NEW s \in Slot, NoTree(s)
  PROVE  RootsDistinct' /\ \A i \in Letter : (Shared(i)' => Shared(i)) /\ (Own(i) => Own(i)')
<1>1. heap \in Seq(Node) /\ g_rootVols \in [Slot -> 0 .. Len(heap)]
  BY TypeParts DEF Heap
<1>2. /\ g_rootVols' = g_rootVols /\ hollow' = hollow \cup {s}
      /\ \A a \in 1 .. Len(heap) : heap'[a].live = heap[a].live
  BY DEF NoTree
<1>3. RootsDistinct' /\ \A i \in Letter : Shared(i)' => Shared(i)
  BY <1>2 DEF RootsDistinct, Shared
<1>4. ASSUME NEW i \in Letter, Own(i)
      PROVE  Own(i)'
  <2>1. g_rootVols[i] \in 1 .. Len(heap)
    BY <1>1, <1>4, SlotFacts DEF Own, NULL
  <2>2. QED
    BY <1>2, <1>3, <1>4, <2>1 DEF Own
<1>5. QED
  BY <1>3, <1>4

\* What readfile does to slot s, whatever it finds.
LEMMA ReadOwn ==
  ASSUME TypeInv, RootsDistinct, NEW s \in Slot,
         NewTree(s) \/ NoTree(s) \/ UNCHANGED <<heap, g_rootVols, hollow>>
  PROVE  /\ RootsDistinct'
         /\ \A i \in Letter : /\ Shared(i)' => Shared(i)
                              /\ Own(i) => Own(i)'
                              /\ i \notin hollow' => i \notin hollow \/ (Own(i)' /\ ~Shared(i)')
<1>1. CASE NewTree(s)
  <2>1. hollow' = hollow \ {s}
    BY <1>1 DEF NewTree
  <2>2. \A i \in Letter : Own(i)' => ~Shared(i)'
    BY DEF Own, Shared
  <2>3. QED
    BY <1>1, <2>1, <2>2, NewTreeOwn
<1>2. CASE NoTree(s)
  <2>1. hollow' = hollow \cup {s}
    BY <1>2 DEF NoTree
  <2>2. QED
    BY <1>2, <2>1, NoTreeOwn
<1>3. CASE UNCHANGED <<heap, g_rootVols, hollow>>
  BY <1>3 DEF RootsDistinct, Own, Shared
<1>4. QED
  BY <1>1, <1>2, <1>3

\* Freeing the tree of a slot leaves the trees of the other letters as they are.
LEMMA FreeOwn ==
  ASSUME TypeInv, RootsDistinct, NEW s \in Slot, NEW t, deleteFile(g_rootVols[s], t), UNCHANGED g_rootVols
  PROVE  \A i \in Letter : i # s /\ Own(i) => Own(i)'
<1> SUFFICES ASSUME NEW i \in Letter, i # s, Own(i)
             PROVE  Own(i)'
  OBVIOUS
<1>1. heap \in Seq(Node) /\ g_rootVols \in [Slot -> 0 .. Len(heap)]
  BY TypeParts DEF Heap
<1>2. \A b \in 1 .. Len(heap) : b # g_rootVols[s] => heap'[b] = heap[b]
  BY <1>1, FreeFacts
<1>3. g_rootVols[i] \in 1 .. Len(heap) /\ g_rootVols[i] # g_rootVols[s]
  BY <1>1, SlotFacts DEF Own, Shared, RootsDistinct, Slot, NULL
<1>4. ~Shared(i)'
  BY DEF Own, Shared
<1>5. QED
  BY <1>2, <1>3, <1>4 DEF Own

-----------------------------------------------------------------------------
LEMMA InitTreesInv == Init => TreesInv
<1> SUFFICES ASSUME Init PROVE TreesInv
  OBVIOUS
<1>1. TypeInv
  BY InitTypeInv
<1>2. Schedule /\ Alternate
  BY DEF Init, Schedule, Alternate, Idle, Scanning, Thread
<1>3. Known /\ RootsDistinct /\ OwnRoots
  BY SlotFacts DEF Init, Known, RootsDistinct, OwnRoots, Idle, Scanning, Thread
<1>4. SharedWaits
  BY SlotFacts DEF Init, SharedWaits, Shared
<1>5. QED
  BY <1>1, <1>2, <1>3, <1>4 DEF TreesInv

\* Saves, the walks over sizes and a start of the offline loader touch no tree and no slot.
LEMMA QuietStep ==
  ASSUME TreesInv, UNCHANGED <<present, messages, phase, todo, g_bVols, g_loaded, g_rootVols, heap, hollow>>,
         \A t \in Thread : \/ call'[t] = call[t]
                           \/ call[t].at \in {"save", "write"} /\ (call'[t] = Idle \/ call'[t].at = "write")
  PROVE  Schedule' /\ Known' /\ RootsDistinct' /\ OwnRoots' /\ Alternate' /\ SharedWaits'
<1>1. Schedule /\ Known /\ RootsDistinct /\ OwnRoots /\ Alternate /\ SharedWaits
  BY DEF TreesInv
<1>2. /\ "ScanAll" \in Thread /\ "listener" \in Thread /\ "rescan_t" \in Thread /\ "destory" \in Thread
      /\ \A t \in Thread : /\ call[t] = Idle => call'[t] = Idle
                           /\ call'[t].at \in Scanning => call'[t] = call[t]
                           /\ call[t].at \in Scanning => call'[t] = call[t]
  BY DEF Thread, Idle, Scanning
<1>3. Schedule'
  BY <1>1, <1>2 DEF Schedule, Scanning
<1>4. Known'
  BY <1>1, <1>2 DEF Known
<1>5. RootsDistinct' /\ \A i \in Letter : (Shared(i)' <=> Shared(i)) /\ (Own(i) => Own(i)')
  BY <1>1 DEF RootsDistinct, Own, Shared
<1>6. OwnRoots'
  BY <1>1, <1>2 DEF OwnRoots, Own, Shared, Scanning
<1>7. Alternate' /\ \A i \in Letter : ArrivesNext(i, 1)' <=> ArrivesNext(i, 1)
  BY <1>1 DEF Alternate, ArrivesNext
<1>8. SharedWaits'
  BY <1>1, <1>2, <1>5, <1>7 DEF SharedWaits, Scanning
<1>9. QED
  BY <1>3, <1>4, <1>5, <1>6, <1>7, <1>8

\* The letters that share their root are no more than before.
LEMMA SharedWaitsKept ==
  ASSUME SharedWaits, UNCHANGED <<present, messages, phase>>,
         \A i \in Letter \ hollow' : Shared(i)' =>
           /\ Shared(i) /\ i \notin hollow
           /\ call["listener"].at \in {"check", "fill"} /\ call["listener"].i = i =>
                call'["listener"].at \in {"check", "fill"} /\ call'["listener"].i = i
  PROVE  SharedWaits'
BY DEF SharedWaits, ArrivesNext

LEMMA AlternateSame ==
  ASSUME Alternate, UNCHANGED <<present, messages, phase>>
  PROVE  Alternate'
BY DEF Alternate, ArrivesNext

\* Who scans is alone.
LEMMA OneScans ==
  ASSUME TreesInv, NEW t \in Thread, NEW u \in Thread, call[t].at \in Scanning, call[u].at \in Scanning
  PROVE  t = u /\ phase \in {"scan", "on", "stop"}
<1>1. Idle.at \notin Scanning
  BY DEF Idle, Scanning
<1>2. QED
  BY <1>1 DEF TreesInv, Schedule, Thread

\* A step that loads and publishes nothing leaves to each slot its tree.
LEMMA OwnRootsKept ==
  ASSUME OwnRoots, hollow' = hollow, \A j \in Letter : g_loaded'[j] => g_loaded[j], \A j \in Letter : Own(j) => Own(j)',
         \A t \in Thread : call'[t].at = "publish" => call'[t] = call[t] /\ call[t].i \in Letter,
         call'["rescan_t"].at = "free" => ~g_loaded'[call'["rescan_t"].i]
  PROVE  OwnRoots'
<1>1. \A j \in Letter \ hollow' : g_loaded'[j] => Own(j)'
  BY DEF OwnRoots
<1>2. ASSUME NEW t \in Thread, call'[t].at = "publish"
      PROVE  Own(call[t].i)'
  <2>1. PICK j \in Letter : j = call[t].i /\ j = call'[t].i /\ Own(j)
    BY <1>2 DEF OwnRoots
  <2>2. Own(j)'
    BY <2>1
  <2>3. QED
    BY <2>1, <2>2 DEF Own, Shared
<1>3. QED
  BY <1>1, <1>2 DEF OwnRoots

LEMMA InitDrivesTrees == TreesInv /\ InitDrives => TreesInv'
<1> SUFFICES ASSUME TreesInv, InitDrives PROVE TreesInv'
  OBVIOUS
<1>1. TypeInv' /\ Schedule /\ Known /\ RootsDistinct /\ OwnRoots /\ SharedWaits
  BY InitDrivesTypes DEF TreesInv
<1>2. /\ phase = "off" /\ phase' = "load" /\ UNCHANGED <<messages, g_loaded, g_rootVols, heap, hollow, call>>
      /\ g_bVols' = [i \in Letter |-> present[i] # None] /\ todo' = {i \in Letter : present[i] # None}
  BY DEF InitDrives, outside
<1>3. \A t \in Thread : call[t].at \notin Scanning
  BY <1>2, OneScans
<1>4. Schedule'
  BY <1>1, <1>2 DEF Schedule
<1>5. Known'
  BY <1>1, <1>2, <1>3 DEF Known
<1>6. RootsDistinct' /\ OwnRoots' /\ Alternate' /\ SharedWaits'
  BY <1>1, <1>2 DEF RootsDistinct, OwnRoots, Own, Shared, Alternate, SharedWaits
<1>7. QED
  BY <1>1, <1>4, <1>5, <1>6 DEF TreesInv

LEMMA LoadDbTrees ==
  ASSUME TreesInv, NEW i \in Letter, NEW v \in Volume \cup {None}, NEW fresh \in BOOLEAN, NEW t,
         load_online_db(i, v, fresh, t)
  PROVE  /\ RootsDistinct'
         /\ \A j \in Letter : Shared(j)' => Shared(j)
         /\ \A j \in Letter \ hollow' : Shared(j)' => j \notin hollow
         /\ \A j \in Letter : Own(j) => Own(j)'
         /\ \A j \in Letter \ hollow' : g_loaded'[j] => Own(j)'
         /\ \A j \in Letter : g_loaded'[j] => g_loaded[j] \/ j = i
<1>1. /\ readfile(i, v, fresh, t) /\ i \in Slot /\ TypeInv /\ RootsDistinct /\ OwnRoots
      /\ g_loaded' = IF Accepted(v, fresh) THEN [g_loaded EXCEPT ![i] = TRUE] ELSE g_loaded
  BY SlotFacts DEF TreesInv, load_online_db
<1>2. \A j \in Letter : g_loaded'[j] => g_loaded[j] \/ (j = i /\ Accepted(v, fresh))
  BY <1>1, TypeParts, SlotFacts DEF Arrays
<1>3. NewTree(i) \/ NoTree(i) \/ (~Accepted(v, fresh) /\ UNCHANGED <<heap, g_rootVols, hollow>>)
  BY <1>1, ReadEffect
<1>4. /\ RootsDistinct'
      /\ \A j \in Letter : /\ Shared(j)' => Shared(j)
                           /\ Own(j) => Own(j)'
                           /\ j \notin hollow' => j \notin hollow \/ (Own(j)' /\ ~Shared(j)')
  BY <1>1, <1>3, ReadOwn
<1>5. ASSUME NEW j \in Letter \ hollow', g_loaded'[j]
      PROVE  Own(j)'
  <2>1. CASE g_loaded[j] \/ j \in hollow
    BY <1>1, <1>4, <1>5, <2>1 DEF OwnRoots
  <2>2. CASE ~g_loaded[j] /\ j \notin hollow
    <3>1. j = i /\ Accepted(v, fresh)
      BY <1>2, <1>5, <2>2
    <3>2. NewTree(i)
      BY <1>3, <1>5, <3>1 DEF NoTree
    <3>3. QED
      BY <1>1, <3>1, <3>2, NewTreeOwn
  <2>3. QED
    BY <2>1, <2>2
<1>6. QED
  BY <1>2, <1>4, <1>5

LEMMA LoadOnlineTrees == TreesInv /\ LoadOnline => TreesInv'
<1> SUFFICES ASSUME TreesInv, LoadOnline PROVE TreesInv'
  OBVIOUS
<1>1. TypeInv /\ TypeInv' /\ Schedule /\ Known /\ OwnRoots /\ SharedWaits
  BY LoadOnlineTypes DEF TreesInv
<1>2. PICK i \in todo, fresh \in BOOLEAN :
        load_online_db(i, g_VolsInfo[i], fresh, "gigaso_init") /\ todo' = todo \ {i}
  BY DEF LoadOnline
<1>3. phase = "load" /\ UNCHANGED <<present, messages, g_bVols, phase, call>>
  BY DEF LoadOnline, outside
<1>4. i \in Letter /\ g_VolsInfo[i] \in Volume \cup {None} /\ g_bVols[i]
  BY <1>1, <1>3, SlotFacts, TypeParts DEF Phase, Arrays, Known
<1>5. /\ RootsDistinct'
      /\ \A j \in Letter : Shared(j)' => Shared(j)
      /\ \A j \in Letter \ hollow' : Shared(j)' => j \notin hollow
      /\ \A j \in Letter : Own(j) => Own(j)'
      /\ \A j \in Letter \ hollow' : g_loaded'[j] => Own(j)'
      /\ \A j \in Letter : g_loaded'[j] => g_loaded[j] \/ j = i
  BY <1>2, <1>4, LoadDbTrees
<1>6. \A t \in Thread : call[t].at \notin Scanning
  BY <1>3, OneScans
<1>7. Schedule' /\ Alternate'
  BY <1>1, <1>3 DEF Schedule, Alternate
<1>8. Known'
  BY <1>1, <1>2, <1>3, <1>4, <1>5 DEF Known
<1>9. OwnRoots'
  BY <1>3, <1>5, <1>6 DEF OwnRoots, Scanning, Thread
<1>10. SharedWaits'
  BY <1>1, <1>3, <1>5, SharedWaitsKept
<1>11. QED
  BY <1>1, <1>5, <1>7, <1>8, <1>9, <1>10 DEF TreesInv

LEMMA StartScanAllTrees == TreesInv /\ StartScanAll => TreesInv'
<1> SUFFICES ASSUME TreesInv, StartScanAll PROVE TreesInv'
  OBVIOUS
<1>1. TypeInv' /\ Schedule /\ Known /\ RootsDistinct /\ OwnRoots /\ SharedWaits
  BY StartTypes DEF TreesInv
<1>2. /\ phase = "load" /\ phase' = "scan" /\ todo' = ValidDrives
      /\ UNCHANGED <<messages, g_bVols, g_loaded, g_rootVols, heap, hollow, call>>
  BY DEF StartScanAll, outside, memory
<1>3. Schedule' /\ Alternate'
  BY <1>1, <1>2 DEF Schedule, Alternate
<1>4. Known'
  BY <1>1, <1>2 DEF Known, ValidDrives
<1>5. RootsDistinct' /\ OwnRoots' /\ SharedWaits'
  BY <1>1, <1>2 DEF RootsDistinct, OwnRoots, Own, Shared, SharedWaits
<1>6. QED
  BY <1>1, <1>3, <1>4, <1>5 DEF TreesInv

LEMMA NextScanTrees == TreesInv /\ NextScan => TreesInv'
<1> SUFFICES ASSUME TreesInv, NextScan PROVE TreesInv'
  OBVIOUS
<1>1. TypeInv /\ TypeInv' /\ Schedule /\ Known /\ RootsDistinct /\ OwnRoots /\ SharedWaits
  BY NextTypes DEF TreesInv
<1>2. phase = "scan" /\ UNCHANGED <<present, messages, phase, g_bVols, g_loaded, g_rootVols, heap, hollow>>
  BY DEF NextScan, outside, memory
<1>3. PICK i \in todo : call' = At("ScanAll", "check", i) /\ todo' = todo \ {i}
  BY DEF NextScan
<1>4. i \in Letter /\ g_bVols[i] /\ "ScanAll" \in Thread /\ "check" \in CallAt /\ call \in [Thread -> CallRec]
  BY <1>1, <1>2, TypeParts DEF Phase, Known, Thread, CallAt, Calls
<1>5. /\ call'["ScanAll"] = [at |-> "check", i |-> i, v |-> None]
      /\ \A u \in Thread : u # "ScanAll" => call'[u] = call[u]
  BY <1>3, <1>4, AtCall
<1>6. Schedule' /\ Alternate'
  BY <1>1, <1>2, <1>5 DEF Schedule, Alternate, Thread
<1>7. Known'
  BY <1>1, <1>2, <1>3, <1>4, <1>5 DEF Known
<1>8. RootsDistinct' /\ OwnRoots'
  <2>1. \A u \in Thread : call'[u].at = "publish" => call'[u] = call[u] /\ call[u].i \in Letter
    BY <1>1, <1>5, TypeParts DEF Calls, CallRec
  <2>2. /\ \A j \in Letter : g_loaded'[j] => g_loaded[j]
        /\ \A j \in Letter : Own(j) => Own(j)'
    BY <1>2 DEF Own, Shared
  <2>3. call'["rescan_t"].at = "free" => ~g_loaded'[call'["rescan_t"].i]
    BY <1>1, <1>2, <1>5 DEF OwnRoots, Thread
  <2>4. QED
    BY <1>1, <1>2, <2>1, <2>2, <2>3, OwnRootsKept DEF RootsDistinct
<1>9. SharedWaits'
  BY <1>1, <1>2 DEF SharedWaits, Shared
<1>10. QED
  BY <1>1, <1>6, <1>7, <1>8, <1>9 DEF TreesInv

LEMMA StartDriveChangeTrees == TreesInv /\ StartDriveChangeMonitorThread => TreesInv'
<1> SUFFICES ASSUME TreesInv, StartDriveChangeMonitorThread PROVE TreesInv'
  OBVIOUS
<1>1. TypeInv' /\ Schedule /\ Known /\ RootsDistinct /\ OwnRoots /\ SharedWaits
  BY StartTypes DEF TreesInv
<1>2. /\ phase = "scan" /\ phase' = "on" /\ call["ScanAll"] = Idle
      /\ UNCHANGED <<messages, g_bVols, g_loaded, g_rootVols, heap, hollow, call, todo>>
  BY DEF StartDriveChangeMonitorThread, outside, memory
<1>3. messages = <<>>
  BY <1>1, <1>2 DEF Schedule
<1>4. Schedule' /\ Alternate'
  BY <1>1, <1>2, <1>3 DEF Schedule, Alternate
<1>5. Known'
  BY <1>1, <1>2 DEF Known
<1>6. RootsDistinct' /\ OwnRoots' /\ SharedWaits'
  BY <1>1, <1>2 DEF RootsDistinct, OwnRoots, Own, Shared, SharedWaits
<1>7. QED
  BY <1>1, <1>4, <1>5, <1>6 DEF TreesInv

LEMMA StopTrees == TreesInv /\ Stop => TreesInv'
<1> SUFFICES ASSUME TreesInv, Stop PROVE TreesInv'
  OBVIOUS
<1>1. TypeInv' /\ Schedule /\ Known /\ RootsDistinct /\ OwnRoots /\ SharedWaits
  BY StartTypes DEF TreesInv
<1>2. /\ phase = "on" /\ phase' = "stop"
      /\ UNCHANGED <<messages, g_bVols, g_loaded, g_rootVols, heap, hollow, call>>
  BY DEF Stop, Event, Listening, memory
<1>3. Schedule' /\ Alternate' /\ Known'
  BY <1>1, <1>2 DEF Schedule, Alternate, Known
<1>4. RootsDistinct' /\ OwnRoots' /\ SharedWaits'
  BY <1>1, <1>2 DEF RootsDistinct, OwnRoots, Own, Shared, SharedWaits
<1>5. QED
  BY <1>1, <1>3, <1>4 DEF TreesInv

LEMMA NextSaveTrees == TreesInv /\ NextSave => TreesInv'
<1> SUFFICES ASSUME TreesInv, NextSave PROVE TreesInv'
  OBVIOUS
<1>1. TypeInv /\ TypeInv' /\ Schedule /\ Known /\ RootsDistinct /\ OwnRoots /\ SharedWaits /\ Alternate
  BY NextTypes DEF TreesInv
<1>2. phase = "stop" /\ UNCHANGED <<present, messages, phase, g_bVols, g_loaded, g_rootVols, heap, hollow>>
  BY DEF NextSave, outside, memory
<1>3. PICK i \in todo : call' = At("destory", "save", i)
  BY DEF NextSave
<1>4. i \in Letter /\ "destory" \in Thread /\ "save" \in CallAt /\ call \in [Thread -> CallRec]
  BY <1>1, <1>2, TypeParts DEF Phase, Thread, CallAt, Calls
<1>5. /\ call'["destory"] = [at |-> "save", i |-> i, v |-> None]
      /\ \A u \in Thread : u # "destory" => call'[u] = call[u]
  BY <1>3, <1>4, AtCall
<1>6. Schedule' /\ Alternate'
  BY <1>1, <1>2, <1>5 DEF Schedule, Alternate, Thread, Scanning
<1>7. Known'
  BY <1>1, <1>2, <1>5 DEF Known, Scanning
<1>8. RootsDistinct' /\ OwnRoots' /\ SharedWaits'
  <2>1. \A u \in Thread : call'[u].at = "publish" => call'[u] = call[u] /\ call[u].i \in Letter
    BY <1>1, <1>5, TypeParts DEF Calls, CallRec
  <2>2. /\ \A j \in Letter : g_loaded'[j] => g_loaded[j]
        /\ \A j \in Letter : Own(j) => Own(j)'
    BY <1>2 DEF Own, Shared
  <2>3. call'["rescan_t"].at = "free" => ~g_loaded'[call'["rescan_t"].i]
    BY <1>1, <1>2, <1>5 DEF OwnRoots, Thread
  <2>4. OwnRoots'
    BY <1>1, <1>2, <2>1, <2>2, <2>3, OwnRootsKept
  <2>5. RootsDistinct' /\ SharedWaits'
    BY <1>1, <1>2 DEF RootsDistinct, SharedWaits, Shared
  <2>6. QED
    BY <2>4, <2>5
<1>9. QED
  BY <1>1, <1>6, <1>7, <1>8 DEF TreesInv

LEMMA ScanCheckTrees == ASSUME TreesInv, NEW t \in Thread, ScanCheck(t) PROVE TreesInv'
<1> DEFINE i == call[t].i
<1>1. TypeInv /\ TypeInv' /\ Schedule /\ Known /\ RootsDistinct /\ OwnRoots /\ SharedWaits /\ Alternate
  BY ScanCheckTypes DEF TreesInv
<1>2. /\ UNCHANGED <<present, messages, phase, todo, g_bVols, g_loaded, g_rootVols, heap, hollow>>
      /\ call[t].at = "check" /\ call' = IF g_loaded[i] THEN Return(t) ELSE At(t, "fill", i)
  BY DEF ScanCheck, Step, outside
<1>3. call[t] \in CallRec /\ i \in Letter /\ call \in [Thread -> CallRec] /\ "fill" \in CallAt
  BY <1>1, TypeParts DEF Calls, CallRec, CallAt
<1>4. /\ call'[t] = IF g_loaded[i] THEN Idle ELSE [at |-> "fill", i |-> i, v |-> None]
      /\ \A u \in Thread : u # t => call'[u] = call[u]
  <2>1. CASE g_loaded[i]
    BY <1>2, <1>3, <2>1, ReturnCall
  <2>2. CASE ~g_loaded[i]
    BY <1>2, <1>3, <2>2, AtCall
  <2>3. QED
    BY <2>1, <2>2
<1>5. /\ call[t] # Idle /\ call'[t].at \in {"idle", "fill"}
      /\ call'[t].at = "fill" => call'[t].i = i
      /\ ~g_loaded[i] => call'[t].at = "fill"
  BY <1>2, <1>4, SMTT(30) DEF Idle
<1>6. Schedule'
  BY <1>1, <1>2, <1>4, <1>5, SMTT(30) DEF Schedule, Thread, Scanning
<1>7. Known'
  BY <1>1, <1>2, <1>4, <1>5, ZenonT(30) DEF Known, Scanning
<1>8. RootsDistinct' /\ Alternate'
  BY <1>1, <1>2, AlternateSame DEF RootsDistinct
<1>9. OwnRoots'
  <2>1. \A u \in Thread : call'[u].at \in {"publish", "free"} => call'[u] = call[u]
    BY <1>4, <1>5
  <2>2. \A j : Own(j)' <=> Own(j)
    BY <1>2 DEF Own, Shared
  <2>3. \A j \in Letter \ hollow' : g_loaded'[j] => Own(j)'
    BY <1>1, <1>2, <2>2 DEF OwnRoots
  <2>4. \A u \in Thread : call'[u].at = "publish" => \A j \in Letter : j = call'[u].i => Own(j)'
    BY <1>1, <2>1, <2>2 DEF OwnRoots
  <2>5. \A u \in Thread : call'[u].i \in Letter
    BY <1>1 DEF TypeInv, DrivesTypeOK
  <2>6. call'["rescan_t"].at = "free" => ~g_loaded'[call'["rescan_t"].i]
    BY <1>1, <1>2, <2>1 DEF OwnRoots, Thread
  <2>7. QED
    BY <2>3, <2>4, <2>5, <2>6 DEF OwnRoots, Own, Shared
<1>10. ASSUME NEW j \in Letter \ hollow', Shared(j)'
       PROVE  /\ Shared(j) /\ j \notin hollow
              /\ call["listener"].at \in {"check", "fill"} /\ call["listener"].i = j =>
                   call'["listener"].at \in {"check", "fill"} /\ call'["listener"].i = j
  <2>1. Shared(j) /\ j \notin hollow /\ ~g_loaded[j] /\ "listener" \in Thread
    BY <1>1, <1>2, <1>10 DEF Shared, OwnRoots, Own, Thread
  <2>2. QED
    BY <1>4, <1>5, <2>1
<1>11. SharedWaits'
  BY <1>1, <1>2, <1>10, SharedWaitsKept
<1>12. QED
  BY <1>1, <1>6, <1>7, <1>8, <1>9, <1>11 DEF TreesInv

LEMMA ScanFillTrees == ASSUME TreesInv, NEW t \in Thread, ScanFill(t) PROVE TreesInv'
<1> DEFINE i == call[t].i
<1>1. TypeInv /\ TypeInv' /\ Schedule /\ Known /\ RootsDistinct /\ OwnRoots /\ SharedWaits /\ Alternate /\ NewTree(i)
  BY ScanFillTypes DEF TreesInv
<1>2. /\ UNCHANGED <<present, messages, phase, todo, g_bVols, g_loaded>> /\ hollow' = hollow \ {i}
      /\ call[t].at = "fill" /\ call' = At(t, "publish", i)
  BY DEF ScanFill, Step, outside
<1>3. i \in Letter /\ i \in Slot /\ call \in [Thread -> CallRec] /\ "publish" \in CallAt
  BY <1>1, TypeParts, SlotFacts DEF Calls, CallRec, CallAt
<1>4. /\ call'[t] = [at |-> "publish", i |-> i, v |-> None]
      /\ \A u \in Thread : u # t => call'[u] = call[u]
  BY <1>2, <1>3, AtCall
<1>5. call[t] # Idle /\ call'[t].at = "publish" /\ call'[t].i = i
  BY <1>2, <1>4 DEF Idle
<1>6. /\ RootsDistinct' /\ \A j \in Letter : Shared(j)' => Shared(j) /\ j # i
      /\ \A j \in Letter : j = i \/ Own(j) => Own(j)'
  BY <1>1, <1>3, NewTreeOwn
<1>7. Schedule'
  BY <1>1, <1>2, <1>4, <1>5 DEF Schedule, Thread, Scanning
<1>8. Known' /\ Alternate'
  BY <1>1, <1>2, <1>4, <1>5, AlternateSame DEF Known, Scanning
<1>9. OwnRoots'
  <2>1. \A j \in Letter \ hollow' : g_loaded'[j] => Own(j)'
    BY <1>1, <1>2, <1>6 DEF OwnRoots
  <2>2. \A u \in Thread : call'[u].at = "publish" => \A j \in Letter : j = call'[u].i => Own(j)'
    <3>1. \A u \in Thread : call[u].at = "publish" => \A j \in Letter : j = call[u].i => Own(j)
      BY <1>1 DEF OwnRoots
    <3>2. QED
      BY <1>4, <1>5, <1>6, <3>1
  <2>3. \A u \in Thread : call'[u].i \in Letter
    BY <1>1, TypeParts DEF TypeInv, DrivesTypeOK
  <2>4. call'["rescan_t"].at = "free" => ~g_loaded'[call'["rescan_t"].i]
    BY <1>1, <1>2, <1>4, <1>5 DEF OwnRoots, Thread
  <2>5. QED
    BY <2>1, <2>2, <2>3, <2>4 DEF OwnRoots, Own, Shared
<1>10. SharedWaits'
  BY <1>1, <1>2, <1>4, <1>6, SharedWaitsKept DEF Thread
<1>11. QED
  BY <1>1, <1>6, <1>7, <1>8, <1>9, <1>10 DEF TreesInv

LEMMA ScanPublishTrees == ASSUME TreesInv, NEW t \in Thread, ScanPublish(t) PROVE TreesInv'
<1> DEFINE i == call[t].i
<1>1. TypeInv /\ TypeInv' /\ Schedule /\ Known /\ RootsDistinct /\ OwnRoots /\ SharedWaits /\ Alternate
  BY ScanPublishTypes DEF TreesInv
<1>2. /\ UNCHANGED <<present, messages, phase, todo, g_bVols, g_rootVols, heap, hollow>>
      /\ g_loaded' = [g_loaded EXCEPT ![i] = TRUE]
      /\ call[t].at = "publish" /\ call' = IF IsNtfs(i) THEN Return(t) ELSE At(t, "save", i)
  BY DEF ScanPublish, Step, outside
<1>3. i \in Letter /\ i \in Slot /\ call \in [Thread -> CallRec] /\ "save" \in CallAt
  BY <1>1, TypeParts, SlotFacts DEF Calls, CallRec, CallAt
<1>4. call'[t].at \in {"idle", "save"} /\ \A u \in Thread : u # t => call'[u] = call[u]
  <2>1. CASE IsNtfs(i)
    <3>1. call' = Return(t)
      BY <1>2, <2>1
    <3>2. QED
      BY <1>3, <3>1, ReturnCall DEF Idle
  <2>2. CASE ~IsNtfs(i)
    <3>1. call' = At(t, "save", i)
      BY <1>2, <2>2
    <3>2. call'[t] = [at |-> "save", i |-> i, v |-> None] /\ \A u \in Thread : u # t => call'[u] = call[u]
      BY <1>3, <3>1, AtCall
    <3>3. QED
      BY <3>2
  <2>3. QED
    BY <2>1, <2>2
<1>5. call[t] # Idle /\ call'[t].at \notin Scanning
  BY <1>2, <1>4 DEF Idle, Scanning
<1>6. \A j \in Letter : g_loaded'[j] => g_loaded[j] \/ j = i
  BY <1>1, <1>2, <1>3, TypeParts, SlotFacts DEF Arrays
<1>7. Schedule'
  BY <1>1, <1>2, <1>4, <1>5 DEF Schedule, Thread, Scanning
<1>8. phase # "off" /\ \A u \in Thread : call'[u].at \notin Scanning
  BY <1>2, <1>4, <1>5, OneScans DEF Scanning
<1>9. Known'
  BY <1>1, <1>2, <1>3, <1>6, <1>8 DEF Known, Scanning
<1>10. RootsDistinct' /\ Alternate' /\ \A j \in Letter : (Shared(j)' <=> Shared(j)) /\ (Own(j) => Own(j)')
  BY <1>1, <1>2, AlternateSame DEF RootsDistinct, Shared, Own
<1>11. OwnRoots'
  <2>1. Own(i) /\ \A j \in Letter \ hollow : g_loaded[j] => Own(j)
    BY <1>1, <1>2 DEF OwnRoots
  <2>2. \A j \in Letter \ hollow' : g_loaded'[j] => Own(j)'
    BY <1>2, <1>3, <1>6, <1>10, <2>1
  <2>3. QED
    BY <1>8, <2>2 DEF OwnRoots, Scanning, Thread
<1>12. SharedWaits'
  BY <1>1, <1>2, <1>4, <1>10, SharedWaitsKept DEF Thread
<1>13. QED
  BY <1>1, <1>7, <1>9, <1>10, <1>11, <1>12 DEF TreesInv

\* The steps that are quiet.
LEMMA FailTrees ==
  ASSUME TreesInv, Fail("freed")
  PROVE  TreesInv'
<1>1. UNCHANGED <<present, messages, phase, todo, g_bVols, g_loaded, g_rootVols, heap, hollow, call>>
  BY DEF Fail, outside, memory, threads
<1>2. TypeInv'
  BY FailTypes DEF TreesInv
<1>3. QED
  BY <1>1, <1>2, QuietStep DEF TreesInv

LEMMA SaveTrees == ASSUME TreesInv, NEW t \in Thread, SaveOpen(t) \/ SaveWrite(t) PROVE TreesInv'
<1> DEFINE i == call[t].i
<1>1. TypeInv /\ TypeInv'
  BY SaveOpenTypes, SaveWriteTypes DEF TreesInv
<1>2. call \in [Thread -> CallRec]
  BY <1>1, TypeParts DEF Calls
<1>3. CASE Fail("freed")
  BY <1>3, FailTrees
<1>4. ASSUME UNCHANGED <<outside, phase, todo, memory>>, call[t].at \in {"save", "write"},
             call'[t] = Idle \/ call'[t].at = "write", \A u \in Thread : u # t => call'[u] = call[u]
      PROVE  TreesInv'
  BY <1>1, <1>4, QuietStep DEF TreesInv, outside, memory
<1>5. CASE call' = Return(t) /\ UNCHANGED <<outside, phase, todo, memory>> /\ call[t].at \in {"save", "write"}
  BY <1>2, <1>4, <1>5, ReturnCall
<1>6. CASE SaveOpen(t)
  <2>1. call[t].at = "save" /\ UNCHANGED <<outside, phase, todo, memory>>
    BY <1>6 DEF SaveOpen, Step
  <2>2. CASE call' = [call EXCEPT ![t] = [at |-> "write", i |-> i, v |-> g_VolsInfo[i]]]
    <3>1. call'[t].at = "write" /\ \A u \in Thread : u # t => call'[u] = call[u]
      BY <1>2, <2>2
    <3>2. QED
      BY <1>4, <2>1, <3>1
  <2>3. QED
    BY <1>5, <1>6, <2>1, <2>2 DEF SaveOpen
<1>7. CASE SaveWrite(t)
  <2>1. CASE Freed(g_rootVols[i])
    BY <1>3, <1>7, <2>1 DEF SaveWrite
  <2>2. CASE ~Freed(g_rootVols[i])
    BY <1>5, <1>7, <2>2 DEF SaveWrite, Step
  <2>3. QED
    BY <2>1, <2>2
<1>8. QED
  BY <1>6, <1>7

LEMMA SizerTrees ==
  ASSUME TreesInv, NEW z \in sizers, SizerWalk(z) \/ SizerOpen(z) \/ SizerWrite(z)
  PROVE  TreesInv'
<1>1. TypeInv'
  BY SizerTypes DEF TreesInv
<1>2. CASE Fail("freed")
  BY <1>2, FailTrees
<1>3. ASSUME NEW w, SizerStep(z, w)
      PROVE  TreesInv'
  <2>1. UNCHANGED <<present, messages, phase, todo, g_bVols, g_loaded, g_rootVols, heap, hollow, call>>
    BY <1>3 DEF SizerStep, outside, memory
  <2>2. QED
    BY <1>1, <2>1, QuietStep DEF TreesInv
<1>4. QED
  BY <1>2, <1>3 DEF SizerWalk, SizerOpen, SizerWrite

LEMMA LoadOfflineDbTrees == TreesInv /\ LoadOfflineDb => TreesInv'
<1> SUFFICES ASSUME TreesInv, LoadOfflineDb PROVE TreesInv'
  OBVIOUS
<1>1. UNCHANGED <<present, messages, phase, todo, g_bVols, g_loaded, g_rootVols, heap, hollow, call>>
  BY DEF LoadOfflineDb, Event, memory
<1>2. TypeInv'
  BY LoadOfflineDbTypes DEF TreesInv
<1>3. QED
  BY <1>1, <1>2, QuietStep DEF TreesInv

LEMMA RescanTrees == ASSUME SerialRescan, TreesInv, NEW i \in Letter, rescan(i) PROVE TreesInv'
<1>1. TypeInv /\ TypeInv' /\ Schedule /\ Known /\ RootsDistinct /\ OwnRoots /\ SharedWaits /\ Alternate
  BY RescanTypes DEF TreesInv
<1>2. /\ UNCHANGED <<present, messages, phase, todo, g_bVols, g_rootVols, heap, hollow>>
      /\ phase = "on" /\ messages = <<>> /\ call["listener"] = Idle /\ call["rescan_t"] = Idle /\ g_loaded[i]
      /\ g_loaded' = [g_loaded EXCEPT ![i] = FALSE] /\ call' = At("rescan_t", "free", i)
  BY DEF rescan, Event, Listening
<1>3. "rescan_t" \in Thread /\ "free" \in CallAt /\ call \in [Thread -> CallRec] /\ i \in Slot
  BY <1>1, TypeParts, SlotFacts DEF Thread, CallAt, Calls
<1>4. /\ call'["rescan_t"] = [at |-> "free", i |-> i, v |-> None]
      /\ \A u \in Thread : u # "rescan_t" => call'[u] = call[u]
  BY <1>2, <1>3, AtCall
<1>5. ~g_loaded'[i] /\ \A j \in Letter : g_loaded'[j] => g_loaded[j]
  BY <1>1, <1>2, <1>3, TypeParts, SlotFacts DEF Arrays
<1>6. Schedule'
  BY <1>1, <1>2, <1>4 DEF Schedule, Thread
<1>7. Known'
  <2>1. g_bVols[i]
    BY <1>1, <1>2 DEF Known
  <2>2. QED
    BY <1>1, <1>2, <1>4, <1>5, <2>1 DEF Known
<1>8. RootsDistinct' /\ Alternate' /\ \A j : (Shared(j)' <=> Shared(j)) /\ (Own(j) <=> Own(j)')
  BY <1>1, <1>2, AlternateSame DEF RootsDistinct, Shared, Own
<1>9. OwnRoots'
  <2>1. \A t \in Thread : call[t].i \in Letter
    BY <1>1, TypeParts DEF Calls, CallRec
  <2>2. \A t \in Thread : call'[t].at = "publish" => call'[t] = call[t] /\ call[t].i \in Letter
    BY <1>4, <2>1
  <2>3. QED
    BY <1>1, <1>2, <1>4, <1>5, <1>8, <2>2, OwnRootsKept
<1>10. SharedWaits'
  BY <1>1, <1>2, <1>4, <1>8, SharedWaitsKept DEF Thread
<1>11. QED
  BY <1>1, <1>6, <1>7, <1>8, <1>9, <1>10 DEF TreesInv

LEMMA RescanFreeTrees == TreesInv /\ RescanFree => TreesInv'
<1> SUFFICES ASSUME TreesInv, RescanFree PROVE TreesInv'
  OBVIOUS
<1> DEFINE i == call["rescan_t"].i
<1>1. TypeInv /\ TypeInv' /\ Schedule /\ Known /\ RootsDistinct /\ OwnRoots /\ SharedWaits /\ Alternate
  BY RescanFreeTypes DEF TreesInv
<1>2. CASE Freed(g_rootVols[i])
  BY <1>2, FailTrees DEF RescanFree
<1>3. CASE ~Freed(g_rootVols[i])
  <2>1. /\ UNCHANGED <<present, messages, phase, todo, g_bVols, g_loaded, g_rootVols, hollow>>
        /\ call["rescan_t"].at = "free" /\ deleteFile(g_rootVols[i], "rescan_t") /\ call' = At("rescan_t", "check", i)
    BY <1>3 DEF RescanFree, Step, outside
  <2>2. "rescan_t" \in Thread /\ "check" \in CallAt /\ call \in [Thread -> CallRec] /\ i \in Letter /\ i \in Slot
    BY <1>1, TypeParts, SlotFacts DEF Thread, CallAt, Calls, CallRec
  <2>3. /\ call'["rescan_t"] = [at |-> "check", i |-> i, v |-> None]
        /\ \A u \in Thread : u # "rescan_t" => call'[u] = call[u]
    BY <2>1, <2>2, AtCall
  <2>4. call["rescan_t"] # Idle
    BY <2>1 DEF Idle
  <2>5. Schedule' /\ Alternate'
    BY <1>1, <2>1, <2>3, <2>4, AlternateSame DEF Schedule, Thread
  <2>6. Known'
    BY <1>1, <2>1, <2>2, <2>3 DEF Known, Scanning
  <2>7. RootsDistinct' /\ \A j \in Letter : Shared(j)' <=> Shared(j)
    BY <1>1, <2>1 DEF RootsDistinct, Shared
  <2>8. \A j \in Letter : j # i /\ Own(j) => Own(j)'
    BY <1>1, <2>1, <2>2, FreeOwn
  <2>9. ~g_loaded[i] /\ \A u \in Thread : call[u].at # "publish"
    <3>1. \A u \in Thread : call[u].at \in Scanning => u = "rescan_t"
      BY <2>1, <2>2, OneScans DEF Scanning
    <3>2. QED
      BY <1>1, <2>1, <3>1 DEF OwnRoots, Scanning
  <2>10. OwnRoots'
    BY <1>1, <2>1, <2>3, <2>8, <2>9, SMTT(30) DEF OwnRoots, Thread
  <2>11. SharedWaits'
    BY <1>1, <2>1, <2>3, <2>7, SharedWaitsKept DEF Thread
  <2>12. QED
    BY <1>1, <2>5, <2>6, <2>7, <2>10, <2>11 DEF TreesInv
<1>4. QED
  BY <1>2, <1>3

LEMMA OfflineLoadedTrees == TreesInv /\ OfflineLoaded => TreesInv'
<1> SUFFICES ASSUME TreesInv, OfflineLoaded PROVE TreesInv'
  OBVIOUS
<1>1. TypeInv /\ TypeInv' /\ Schedule /\ Known /\ RootsDistinct /\ OwnRoots /\ SharedWaits /\ Alternate
  BY OfflineLoadedTypes DEF TreesInv
<1>2. /\ UNCHANGED <<present, messages, phase, todo, g_bVols, g_rootVols, heap, hollow, call>>
      /\ g_loaded' = [g_loaded EXCEPT ![offline.slot] = TRUE]
  BY DEF OfflineLoaded, outside
<1>3. offline.slot \in Offline
  BY <1>1, TypeParts, SlotFacts DEF Loader, OfflineLoaded, Offline
<1>4. \A j \in Letter : g_loaded'[j] = g_loaded[j]
  BY <1>1, <1>2, <1>3, TypeParts, SlotFacts DEF Arrays
<1>5. Schedule' /\ Alternate' /\ RootsDistinct'
  BY <1>1, <1>2, AlternateSame DEF Schedule, RootsDistinct
<1>6. Known'
  BY <1>1, <1>2, <1>4 DEF Known
<1>7. OwnRoots'
  <2>1. call["rescan_t"].i \in Letter
    BY <1>1, TypeParts DEF Calls, CallRec, Thread
  <2>2. QED
    BY <1>1, <1>2, <1>4, <2>1 DEF OwnRoots, Own, Shared
<1>8. SharedWaits'
  BY <1>1, <1>2, SharedWaitsKept DEF Shared
<1>9. QED
  BY <1>1, <1>5, <1>6, <1>7, <1>8 DEF TreesInv

LEMMA VisitDbTrees == ASSUME TreesInv, NEW v \in Volume, VisitDb(v) PROVE TreesInv'
<1> DEFINE s == offline.slot
<1>1. TypeInv /\ TypeInv' /\ Schedule /\ Known /\ RootsDistinct /\ OwnRoots /\ SharedWaits /\ Alternate
  BY VisitDbTypes DEF TreesInv
<1>2. UNCHANGED <<present, messages, phase, todo, g_bVols, g_loaded, call>>
  BY DEF VisitDb, outside, memory
<1>3. s \in Offline /\ s \in Slot
  BY <1>1, TypeParts, SlotFacts DEF Loader, VisitDb, Offline
<1>4. NewTree(s) \/ NoTree(s) \/ UNCHANGED <<heap, g_rootVols, hollow>>
  <2>1. readfile(s, v, TRUE, "load_offline_dbs_t") =>
          NewTree(s) \/ NoTree(s) \/ UNCHANGED <<heap, g_rootVols, hollow>>
    BY <1>1, <1>3, ReadEffect
  <2>2. QED
    BY <2>1 DEF VisitDb, memory
<1>5. /\ RootsDistinct'
      /\ \A i \in Letter : /\ Shared(i)' => Shared(i)
                           /\ Own(i) => Own(i)'
                           /\ i \notin hollow' => i \notin hollow \/ (Own(i)' /\ ~Shared(i)')
  BY <1>1, <1>3, <1>4, ReadOwn
<1>6. Schedule' /\ Known' /\ Alternate'
  BY <1>1, <1>2, AlternateSame DEF Schedule, Known
<1>7. OwnRoots'
  <2>1. \A t \in Thread : call[t].i \in Letter
    BY <1>1, TypeParts DEF Calls, CallRec
  <2>2. \A t \in Thread : call[t].at = "publish" => \A i \in Letter : i = call[t].i => Own(i)'
    BY <1>1, <1>5 DEF OwnRoots
  <2>3. \A i \in Letter \ hollow' : g_loaded'[i] => Own(i)'
    BY <1>1, <1>2, <1>5 DEF OwnRoots
  <2>4. QED
    BY <1>1, <1>2, <2>1, <2>2, <2>3 DEF OwnRoots, Own, Shared
<1>8. SharedWaits'
  BY <1>1, <1>2, <1>5, SharedWaitsKept
<1>9. QED
  BY <1>1, <1>5, <1>6, <1>7, <1>8 DEF TreesInv

LEMMA DelOfflineTrees == ASSUME TreesInv, NEW s \in Slot, del_offline_db(s) PROVE TreesInv'
<1>1. TypeInv /\ TypeInv' /\ Schedule /\ Known /\ RootsDistinct /\ OwnRoots /\ SharedWaits /\ Alternate
  BY DelOfflineTypes DEF TreesInv
<1>2. CASE Freed(g_rootVols[s])
  BY <1>2, FailTrees DEF del_offline_db
<1>3. CASE ~Freed(g_rootVols[s])
  <2>1. /\ UNCHANGED <<present, messages, phase, todo, g_bVols, g_rootVols, hollow, call>>
        /\ deleteFile(g_rootVols[s], "command_exec") /\ g_loaded' = [g_loaded EXCEPT ![s] = FALSE] /\ s \in loaded_offline_dbs
    BY <1>3 DEF del_offline_db, outside, threads
  <2>2. s \notin Letter
    BY <1>1, <2>1 DEF loaded_offline_dbs, Known
  <2>3. \A j \in Letter : g_loaded'[j] = g_loaded[j]
    BY <1>1, <2>1, <2>2, TypeParts, SlotFacts DEF Arrays
  <2>4. \A i \in Letter : Own(i) => Own(i)'
    BY <1>1, <2>1, <2>2, FreeOwn
  <2>5. Schedule' /\ Alternate' /\ RootsDistinct'
    BY <1>1, <2>1, AlternateSame DEF Schedule, RootsDistinct
  <2>6. Known'
    BY <1>1, <2>1, <2>3 DEF Known
  <2>7. OwnRoots'
    <3>1. \A t \in Thread : call[t].i \in Letter
      BY <1>1, TypeParts DEF Calls, CallRec
    <3>2. \A t \in Thread : call[t].at = "publish" => \A i \in Letter : i = call[t].i => Own(i)'
      BY <1>1, <2>4 DEF OwnRoots
    <3>3. ASSUME NEW t \in Thread, call[t].at = "publish"
          PROVE  Own(call[t].i)'
      <4>1. PICK j \in Letter : j = call[t].i /\ j = call'[t].i /\ Own(j)'
        BY <2>1, <3>1, <3>2, <3>3
      <4>2. QED
        BY <4>1 DEF Own, Shared
    <3>4. \A j \in Letter \ hollow' : g_loaded'[j] => Own(j)'
      BY <1>1, <2>1, <2>3, <2>4 DEF OwnRoots
    <3>5. "rescan_t" \in Thread /\ (call'["rescan_t"].at = "free" => ~g_loaded'[call'["rescan_t"].i])
      BY <1>1, <2>1, <2>3, <3>1 DEF OwnRoots, Thread
    <3>6. QED
      BY <2>1, <3>3, <3>4, <3>5 DEF OwnRoots
  <2>8. SharedWaits'
    BY <1>1, <2>1, SharedWaitsKept DEF Shared
  <2>9. QED
    BY <1>1, <2>5, <2>6, <2>7, <2>8 DEF TreesInv
<1>4. QED
  BY <1>2, <1>3

LEMMA EndProcessTrees == TreesInv /\ (Exit \/ Crash) => TreesInv'
<1> SUFFICES ASSUME TreesInv, Exit \/ Crash PROVE TreesInv'
  OBVIOUS
<1>1. TypeInv' /\ EndProcess
  BY EndProcessTypes DEF TreesInv, Exit, Crash
<1>2. /\ phase' = "off" /\ messages' = <<>> /\ call' = [t \in Thread |-> Idle]
      /\ g_loaded' = [s \in Slot |-> FALSE] /\ g_rootVols' = [s \in Slot |-> NULL]
  BY <1>1 DEF EndProcess
<1>3. Schedule' /\ Alternate'
  BY <1>2 DEF Schedule, Alternate, Idle, Scanning, Thread
<1>4. Known' /\ RootsDistinct' /\ OwnRoots' /\ SharedWaits'
  BY <1>2, SlotFacts DEF Known, RootsDistinct, OwnRoots, SharedWaits, Shared, Idle, Scanning, Thread
<1>5. QED
  BY <1>1, <1>3, <1>4 DEF TreesInv

-----------------------------------------------------------------------------
(* Drives that come and go.                                                *)

LEMMA MessageLetters ==
  ASSUME TypeInv
  PROVE  /\ Len(messages) \in Nat
         /\ \A n \in 1 .. Len(messages) : messages[n].i \in Letter /\ messages[n].add \in BOOLEAN
<1> DEFINE M == [i : Letter, add : BOOLEAN]
<1>1. messages \in Seq(M)
  BY DEF TypeInv, DrivesTypeOK
<1>2. ASSUME NEW n \in 1 .. Len(messages)
      PROVE  messages[n] \in M
  BY <1>1, ElementOfSeq
<1>3. Len(messages) \in Nat
  BY <1>1, LenProperties
<1>4. QED
  BY <1>2, <1>3

LEMMA MessageLettersNext ==
  ASSUME TypeInv'
  PROVE  /\ Len(messages') \in Nat
         /\ \A n \in 1 .. Len(messages') : messages'[n].i \in Letter /\ messages'[n].add \in BOOLEAN
<1> DEFINE M == [i : Letter, add : BOOLEAN]
<1>1. messages' \in Seq(M)
  BY DEF TypeInv, DrivesTypeOK
<1>2. ASSUME NEW n \in 1 .. Len(messages')
      PROVE  messages'[n] \in M
  BY <1>1, ElementOfSeq
<1>3. Len(messages') \in Nat
  BY <1>1, LenProperties
<1>4. QED
  BY <1>2, <1>3

LEMMA PlugInTrees ==
  ASSUME SerialRescan, TreesInv, NEW i \in Letter, NEW v \in Volume, PlugIn(i, v)
  PROVE  TreesInv'
<1>1. TypeInv /\ TypeInv' /\ Schedule /\ Known /\ RootsDistinct /\ OwnRoots /\ SharedWaits /\ Alternate
  BY DriveEventTypes DEF TreesInv
<1>2. /\ UNCHANGED <<phase, todo, g_bVols, g_loaded, g_rootVols, heap, hollow, call>> /\ call["rescan_t"] = Idle
      /\ present' = [present EXCEPT ![i] = v] /\ Notify(i, TRUE)
  BY DEF PlugIn, DriveEvent, memory, threads
<1>3. Schedule'
  BY <1>1, <1>2 DEF Schedule, Notify, Listening
<1>4. Known' /\ RootsDistinct' /\ OwnRoots' /\ \A j \in Letter : Shared(j)' <=> Shared(j)
  BY <1>1, <1>2 DEF Known, RootsDistinct, OwnRoots, Own, Shared
<1>5. CASE phase # "on"
  BY <1>1, <1>2, <1>3, <1>4, <1>5 DEF TreesInv, Alternate, SharedWaits
<1>6. CASE phase = "on"
  <2> DEFINE m == [i |-> i, add |-> TRUE]
  <2>1. messages \in Seq([i : Letter, add : BOOLEAN]) /\ messages' = Append(messages, m)
    BY <1>1, <1>2, <1>6, TypeParts DEF Outside, Notify, Listening
  <2>2. /\ Len(messages) \in Nat /\ Len(messages') = Len(messages) + 1 /\ messages'[Len(messages) + 1] = m
        /\ \A n \in 1 .. Len(messages) : messages'[n] = messages[n]
    BY <2>1
  <2>3. \A j \in Letter : j # i => present'[j] = present[j]
    BY <1>1, <1>2, TypeParts DEF Outside
  <2>4. ASSUME NEW j \in Letter, NEW n \in 1 .. Len(messages) + 1, ArrivesNext(j, n)
        PROVE  ArrivesNext(j, n)'
    <3>1. ASSUME NEW k \in n .. Len(messages'), messages'[k].i = j, ~messages'[k].add
          PROVE  \E l \in n .. k - 1 : messages'[l].i = j /\ messages'[l].add
      <4>1. k \in n .. Len(messages) /\ messages[k].i = j /\ ~messages[k].add
        BY <2>2, <3>1
      <4>2. PICK l \in n .. k - 1 : messages[l].i = j /\ messages[l].add
        BY <2>4, <4>1 DEF ArrivesNext
      <4>3. QED
        BY <2>2, <4>1, <4>2
    <3>2. ASSUME \A k \in n .. Len(messages') : messages'[k].i # j
          PROVE  present'[j] = None
      <4>1. j # i
        BY <2>2, <3>2
      <4>2. \A k \in n .. Len(messages) : messages[k].i # j
        BY <2>2, <3>2
      <4>3. QED
        BY <2>3, <2>4, <4>1, <4>2 DEF ArrivesNext
    <3>3. QED
      BY <3>1, <3>2 DEF ArrivesNext
  <2>5. Alternate'
    <3>1. ASSUME NEW n \in 1 .. Len(messages'), ~messages'[n].add, NEW j \in Letter, j = messages'[n].i
          PROVE  ArrivesNext(j, n + 1)'
      <4>1. n \in 1 .. Len(messages) /\ messages'[n] = messages[n]
        BY <2>2, <3>1
      <4>2. ArrivesNext(j, n + 1)
        BY <1>1, <1>6, <3>1, <4>1 DEF Alternate
      <4>3. QED
        BY <2>2, <2>4, <4>1, <4>2
    <3>2. QED
      BY <1>1, <3>1, MessageLettersNext, SMTT(60) DEF Alternate, ArrivesNext
  <2>6. SharedWaits'
    BY <1>1, <1>2, <1>4, <1>6, <2>2, <2>4 DEF SharedWaits
  <2>7. QED
    BY <1>1, <1>3, <1>4, <2>5, <2>6 DEF TreesInv
<1>7. QED
  BY <1>5, <1>6

LEMMA UnplugTrees ==
  ASSUME SerialRescan, TreesInv, NEW i \in Letter, Unplug(i)
  PROVE  TreesInv'
<1>1. TypeInv /\ TypeInv' /\ Schedule /\ Known /\ RootsDistinct /\ OwnRoots /\ SharedWaits /\ Alternate
  BY DriveEventTypes DEF TreesInv
<1>2. /\ UNCHANGED <<phase, todo, g_bVols, g_loaded, g_rootVols, heap, hollow, call>> /\ call["rescan_t"] = Idle
      /\ present' = [present EXCEPT ![i] = None] /\ Notify(i, FALSE) /\ present[i] # None
      /\ [i |-> i, add |-> TRUE] \notin Range(messages)
  BY DEF Unplug, DriveEvent, memory, threads
<1>3. Schedule'
  BY <1>1, <1>2 DEF Schedule, Notify, Listening
<1>4. Known' /\ RootsDistinct' /\ OwnRoots' /\ \A j \in Letter : Shared(j)' <=> Shared(j)
  BY <1>1, <1>2 DEF Known, RootsDistinct, OwnRoots, Own, Shared
<1>5. CASE phase # "on"
  BY <1>1, <1>2, <1>3, <1>4, <1>5 DEF TreesInv, Alternate, SharedWaits
<1>6. CASE phase = "on"
  <2> DEFINE m == [i |-> i, add |-> FALSE]
  <2>1. messages \in Seq([i : Letter, add : BOOLEAN]) /\ messages' = Append(messages, m)
    BY <1>1, <1>2, <1>6, TypeParts DEF Outside, Notify, Listening
  <2>2. /\ Len(messages) \in Nat /\ Len(messages') = Len(messages) + 1 /\ messages'[Len(messages) + 1] = m
        /\ \A n \in 1 .. Len(messages) : messages'[n] = messages[n]
    BY <2>1
  <2>3. present'[i] = None /\ \A j \in Letter : j # i => present'[j] = present[j]
    BY <1>1, <1>2, TypeParts DEF Outside
  \* No arrival of the letter waits, so a letter that arrives next is not there.
  <2>4. \A k \in 1 .. Len(messages) : ~(messages[k].i = i /\ messages[k].add)
    <3> DEFINE M == [i : Letter, add : BOOLEAN]
    <3>1. ASSUME NEW k \in 1 .. Len(messages), messages[k].i = i, messages[k].add
          PROVE  FALSE
      <4>1. messages[k] \in M
        BY <2>1, ElementOfSeq
      <4>2. messages[k] = [i |-> i, add |-> TRUE]
        BY <3>1, <4>1
      <4>3. messages[k] \in Range(messages)
        BY <2>1, LenProperties DEF Range
      <4>4. QED
        BY <1>2, <4>2, <4>3
    <3>2. QED
      BY <3>1
  <2>5. ASSUME NEW n \in 1 .. Len(messages) + 1, ArrivesNext(i, n)
        PROVE  FALSE
    <3>1. \A k \in n .. Len(messages) : messages[k].i # i
      BY <1>1, <2>2, <2>4, <2>5, MessageLetters DEF ArrivesNext
    <3>2. QED
      BY <1>2, <2>5, <3>1 DEF ArrivesNext
  <2>6. ASSUME NEW j \in Letter, NEW n \in 1 .. Len(messages) + 1, ArrivesNext(j, n)
        PROVE  ArrivesNext(j, n)'
    <3>1. j # i
      BY <2>5, <2>6
    <3>2. ASSUME NEW k \in n .. Len(messages'), messages'[k].i = j, ~messages'[k].add
          PROVE  \E l \in n .. k - 1 : messages'[l].i = j /\ messages'[l].add
      <4>1. k \in n .. Len(messages) /\ messages[k].i = j /\ ~messages[k].add
        BY <2>2, <3>1, <3>2
      <4>2. PICK l \in n .. k - 1 : messages[l].i = j /\ messages[l].add
        BY <2>6, <4>1 DEF ArrivesNext
      <4>3. QED
        BY <2>2, <4>1, <4>2
    <3>3. ASSUME \A k \in n .. Len(messages') : messages'[k].i # j
          PROVE  present'[j] = None
      <4>1. \A k \in n .. Len(messages) : messages[k].i # j
        BY <2>2, <3>3
      <4>2. QED
        BY <2>3, <2>6, <3>1, <4>1 DEF ArrivesNext
    <3>4. QED
      BY <3>2, <3>3 DEF ArrivesNext
  <2>7. Alternate'
    <3>1. ASSUME NEW n \in 1 .. Len(messages'), ~messages'[n].add, NEW j \in Letter, j = messages'[n].i
          PROVE  ArrivesNext(j, n + 1)'
      <4>1. CASE n \in 1 .. Len(messages)
        <5>1. messages'[n] = messages[n]
          BY <2>2, <4>1
        <5>2. ArrivesNext(j, n + 1)
          BY <1>1, <1>6, <3>1, <4>1, <5>1 DEF Alternate
        <5>3. QED
          BY <2>2, <2>6, <4>1, <5>2
      <4>2. CASE n = Len(messages) + 1
        <5>1. j = i /\ n + 1 > Len(messages')
          BY <2>2, <3>1, <4>2
        <5>2. QED
          BY <2>2, <2>3, <4>2, <5>1 DEF ArrivesNext
      <4>3. QED
        BY <2>2, <4>1, <4>2
    <3>2. QED
      BY <1>1, <3>1, MessageLettersNext, SMTT(60) DEF Alternate, ArrivesNext
  <2>8. SharedWaits'
    BY <1>1, <1>2, <1>4, <1>6, <2>2, <2>6 DEF SharedWaits
  <2>9. QED
    BY <1>1, <1>3, <1>4, <2>7, <2>8 DEF TreesInv
<1>7. QED
  BY <1>5, <1>6

\* Once a message is taken, what waits behind it is the same.
LEMMA TailArrives ==
  ASSUME TypeInv, NEW add \in BOOLEAN, Message(add), NEW j \in Letter, NEW n \in 1 .. Len(messages),
         ArrivesNext(j, n + 1)
  PROVE  ArrivesNext(j, n)'
<1>1. /\ Len(messages) \in Nat \ {0} /\ Len(messages') = Len(messages) - 1
      /\ \A k \in 1 .. Len(messages') : messages'[k] = messages[k + 1]
      /\ present' = present
  BY MessageTypes DEF Message
<1>2. ASSUME NEW k \in n .. Len(messages'), messages'[k].i = j, ~messages'[k].add
      PROVE  \E l \in n .. k - 1 : messages'[l].i = j /\ messages'[l].add
  <2>1. k + 1 \in n + 1 .. Len(messages) /\ messages'[k] = messages[k + 1]
    BY <1>1
  <2>2. PICK l \in n + 1 .. k : messages[l].i = j /\ messages[l].add
    BY <1>2, <2>1 DEF ArrivesNext
  <2>3. l - 1 \in n .. k - 1 /\ messages'[l - 1] = messages[l]
    BY <1>1, <2>1, <2>2
  <2>4. QED
    BY <2>2, <2>3
<1>3. ASSUME \A k \in n .. Len(messages') : messages'[k].i # j
      PROVE  present'[j] = None
  <2>1. \A k \in n + 1 .. Len(messages) : messages[k].i # j
    <3>1. ASSUME NEW k \in n + 1 .. Len(messages)
          PROVE  messages[k].i # j
      <4>1. k - 1 \in n .. Len(messages') /\ messages'[k - 1] = messages[k]
        BY <1>1
      <4>2. QED
        BY <1>3, <4>1
    <3>2. QED
      BY <3>1
  <2>2. QED
    BY <1>1, <2>1 DEF ArrivesNext
<1>4. QED
  BY <1>2, <1>3 DEF ArrivesNext

LEMMA TailAlternates ==
  ASSUME TypeInv, TypeInv', Alternate, NEW add \in BOOLEAN, Message(add)
  PROVE  Alternate'
<1>1. /\ Len(messages) \in Nat \ {0} /\ Len(messages') = Len(messages) - 1
      /\ \A k \in 1 .. Len(messages') : messages'[k] = messages[k + 1]
      /\ phase = "on"
  BY MessageTypes DEF Message, Listening
<1>2. ASSUME NEW n \in 1 .. Len(messages'), ~messages'[n].add, NEW j \in Letter, j = messages'[n].i
      PROVE  ArrivesNext(j, n + 1)'
  <2>1. n + 1 \in 1 .. Len(messages) /\ messages'[n] = messages[n + 1]
    BY <1>1
  <2>2. ArrivesNext(j, (n + 1) + 1)
    BY <1>1, <1>2, <2>1 DEF Alternate
  <2>3. QED
    BY <2>1, <2>2, TailArrives
<1>3. QED
  BY <1>2, MessageLettersNext DEF Alternate, ArrivesNext

\* A message about another letter takes nothing from what letter j waits for.
LEMMA OtherLetterArrives ==
  ASSUME TypeInv, NEW add \in BOOLEAN, Message(add), NEW j \in Letter, j # Head(messages).i, ArrivesNext(j, 1)
  PROVE  ArrivesNext(j, 1)'
<1>1. Len(messages) \in Nat \ {0} /\ messages[1].i # j
  BY MessageTypes
<1>2. ArrivesNext(j, 1 + 1)
  <2>1. ASSUME NEW m \in 1 + 1 .. Len(messages), messages[m].i = j, ~messages[m].add
        PROVE  \E k \in 1 + 1 .. m - 1 : messages[k].i = j /\ messages[k].add
    <3>1. PICK k \in 1 .. m - 1 : messages[k].i = j /\ messages[k].add
      BY <1>1, <2>1 DEF ArrivesNext
    <3>2. k # 1
      BY <1>1, <3>1
    <3>3. QED
      BY <3>1, <3>2
  <2>2. ASSUME \A m \in 1 + 1 .. Len(messages) : messages[m].i # j
        PROVE  present[j] = None
    BY <1>1, <2>2 DEF ArrivesNext
  <2>3. QED
    BY <2>1, <2>2 DEF ArrivesNext
<1>3. QED
  BY <1>1, <1>2, TailArrives

LEMMA DriveAddedTrees == TreesInv /\ DriveAdded => TreesInv'
<1> SUFFICES ASSUME TreesInv, DriveAdded PROVE TreesInv'
  OBVIOUS
<1>0. PICK i : i = Head(messages).i
  OBVIOUS
<1>1. TypeInv /\ TypeInv' /\ Schedule /\ Known /\ RootsDistinct /\ OwnRoots /\ SharedWaits /\ Alternate
  BY DriveAddedTypes DEF TreesInv
<1>2. /\ Message(TRUE) /\ g_bVols' = [g_bVols EXCEPT ![i] = TRUE] /\ call' = At("listener", "check", i)
      /\ phase = "on" /\ phase' = "on" /\ present' = present /\ messages # <<>>
      /\ call["listener"] = Idle
  BY <1>0 DEF DriveAdded, Message, Listening
<1>3. i \in Letter /\ "listener" \in Thread /\ "check" \in CallAt /\ call \in [Thread -> CallRec]
  BY <1>0, <1>1, <1>2, MessageTypes, TypeParts DEF Thread, CallAt, Calls
<1>4. PICK fresh \in BOOLEAN : load_online_db(i, present[i], fresh, "listener")
  BY <1>0 DEF DriveAdded
<1>5. /\ call'["listener"] = [at |-> "check", i |-> i, v |-> None]
      /\ \A u \in Thread : u # "listener" => call'[u] = call[u]
  BY <1>2, <1>3, AtCall
<1>6. call["ScanAll"] = Idle /\ call["rescan_t"] = Idle
  BY <1>1, <1>2 DEF Schedule
<1>7. \A u \in Thread : call'[u].at \in Scanning => u = "listener"
  BY <1>1, <1>5, <1>6 DEF Schedule, Thread, Scanning, Idle
<1>8. Alternate'
  BY <1>1, <1>2, TailAlternates
<1>9. Schedule'
  BY <1>1, <1>2, <1>5, <1>6, <1>7 DEF Schedule, Thread, Scanning
<1>10. /\ RootsDistinct'
       /\ \A j \in Letter : Shared(j)' => Shared(j)
       /\ \A j \in Letter \ hollow' : Shared(j)' => j \notin hollow
       /\ \A j \in Letter : Own(j) => Own(j)'
       /\ \A j \in Letter \ hollow' : g_loaded'[j] => Own(j)'
       /\ \A j \in Letter : g_loaded'[j] => g_loaded[j] \/ j = i
  <2>1. present[i] \in Volume \cup {None}
    BY <1>1, <1>3, TypeParts DEF Outside
  <2>2. QED
    BY <1>3, <1>4, <2>1, LoadDbTrees
<1>11. Known'
  <2>1. \A j \in Letter : g_bVols[j] \/ j = i => g_bVols'[j]
    BY <1>1, <1>2, <1>3, TypeParts DEF Arrays
  <2>2. QED
    BY <1>1, <1>2, <1>3, <1>5, <1>7, <1>10, <2>1 DEF Known
<1>12. OwnRoots'
  BY <1>5, <1>7, <1>10 DEF OwnRoots, Scanning, Thread
<1>13. SharedWaits'
  <2>1. ASSUME NEW j \in Letter \ hollow', Shared(j)', j # i
        PROVE  ArrivesNext(j, 1)'
    <3>1. ArrivesNext(j, 1)
      BY <1>1, <1>2, <1>10, <2>1 DEF SharedWaits, Idle
    <3>2. QED
      BY <1>0, <1>1, <1>2, <2>1, <3>1, OtherLetterArrives
  <2>2. QED
    BY <1>2, <1>5, <2>1 DEF SharedWaits
<1>14. QED
  BY <1>1, <1>8, <1>9, <1>10, <1>11, <1>12, <1>13 DEF TreesInv

LEMMA DriveRemovedTrees == TreesInv /\ DriveRemoved => TreesInv'
<1> SUFFICES ASSUME TreesInv, DriveRemoved PROVE TreesInv'
  OBVIOUS
<1> DEFINE off_id == Min(FreeSlots)
<1>0. PICK i : i = Head(messages).i
  OBVIOUS
<1>1. TypeInv /\ TypeInv' /\ Schedule /\ Known /\ RootsDistinct /\ OwnRoots /\ SharedWaits /\ Alternate
  BY DriveRemovedTypes DEF TreesInv
<1>2. /\ Message(FALSE) /\ g_bVols' = [g_bVols EXCEPT ![i] = FALSE] /\ UNCHANGED <<heap, call>>
      /\ phase = "on" /\ phase' = "on" /\ messages # <<>> /\ call["listener"] = Idle
      /\ Head(messages).add = FALSE
  BY <1>0 DEF DriveRemoved, Message, Listening
<1>3. i \in Letter /\ i \in Slot /\ Len(messages) \in Nat \ {0} /\ messages[1].i = i /\ ~messages[1].add
  BY <1>0, <1>1, <1>2, MessageTypes, SlotFacts
<1>4. call["ScanAll"] = Idle /\ call["rescan_t"] = Idle
  BY <1>1, <1>2 DEF Schedule
<1>5. \A u \in Thread : call[u].at \notin Scanning
  BY <1>1, <1>2, <1>4 DEF Schedule, Thread, Scanning, Idle
<1>6. Alternate'
  BY <1>1, <1>2, TailAlternates
<1>7. Schedule'
  BY <1>1, <1>2, <1>4 DEF Schedule
\* The removal is the next message of the letter, so no offline slot had its tree.
<1>8. (Shared(i) => i \in hollow) /\ ArrivesNext(i, 1)'
  <2>1. ~ArrivesNext(i, 1)
    BY <1>3 DEF ArrivesNext
  <2>2. Shared(i) => i \in hollow
    BY <1>1, <1>2, <1>3, <2>1 DEF SharedWaits, Idle
  <2>3. ArrivesNext(i, 1 + 1)
    BY <1>1, <1>2, <1>3 DEF Alternate
  <2>4. ArrivesNext(i, 1)'
    <3>1. FALSE \in BOOLEAN /\ 1 \in 1 .. Len(messages)
      BY <1>3
    <3>2. QED
      BY <1>1, <1>2, <1>3, <2>3, <3>1, TailArrives
  <2>5. QED
    BY <2>2, <2>4
<1>9. ASSUME NEW j \in Letter \ hollow, j # i, Shared(j)
      PROVE  ArrivesNext(j, 1)'
  <2>1. ArrivesNext(j, 1)
    BY <1>1, <1>2, <1>9 DEF SharedWaits, Idle
  <2>2. QED
    BY <1>0, <1>1, <1>2, <1>9, <2>1, OtherLetterArrives
<1>10. ASSUME \A j \in Letter : g_rootVols'[j] = g_rootVols[j] /\ (j \in hollow' <=> j \in hollow),
              \A j \in Letter : g_loaded'[j] => g_loaded[j] /\ j # i,
              \A j \in Letter : Shared(j)' => Shared(j) \/ j = i, RootsDistinct'
       PROVE  TreesInv'
  <2>1. Known'
    <3>1. \A j \in Letter : j # i => g_bVols'[j] = g_bVols[j]
      BY <1>1, <1>2, <1>3, TypeParts DEF Arrays
    <3>2. QED
      BY <1>1, <1>2, <1>5, <1>10, <3>1 DEF Known
  <2>2. OwnRoots'
    <3>1. \A j \in Letter \ hollow' : g_loaded'[j] => Own(j)'
      BY <1>1, <1>2, <1>10 DEF OwnRoots, Own
    <3>2. QED
      BY <1>2, <1>5, <3>1 DEF OwnRoots, Scanning, Thread
  <2>3. SharedWaits'
    BY <1>2, <1>8, <1>9, <1>10 DEF SharedWaits
  <2>4. QED
    BY <1>1, <1>6, <1>7, <1>10, <2>1, <2>2, <2>3 DEF TreesInv
<1>11. CASE FreeSlots = {}
  <2>1. g_loaded' = [g_loaded EXCEPT ![i] = FALSE] /\ g_rootVols' = g_rootVols /\ hollow' = hollow
    BY <1>0, <1>11 DEF DriveRemoved
  <2>2. \A j \in Letter : g_loaded'[j] => g_loaded[j] /\ j # i
    BY <1>1, <1>3, <2>1, TypeParts, SlotFacts DEF Arrays
  <2>3. RootsDistinct' /\ \A j \in Letter : Shared(j)' => Shared(j)
    BY <1>1, <2>1 DEF RootsDistinct, Shared
  <2>4. QED
    BY <1>10, <2>1, <2>2, <2>3
<1>12. CASE FreeSlots # {}
  <2>1. /\ g_loaded' = [g_loaded EXCEPT ![i] = FALSE, ![off_id] = TRUE]
        /\ g_rootVols' = [g_rootVols EXCEPT ![off_id] = g_rootVols[i]]
        /\ hollow' = (hollow \ {off_id}) \cup (IF i \in hollow THEN {off_id} ELSE {})
    BY <1>0, <1>12 DEF DriveRemoved
  <2>2. off_id \in Offline /\ off_id \in Slot
    BY <1>12, NextOfflineSlot, SlotFacts
  <2> HIDE DEF off_id
  <2>3. \A j \in Letter : /\ g_loaded'[j] => g_loaded[j] /\ j # i
                          /\ g_rootVols'[j] = g_rootVols[j] /\ (j \in hollow' <=> j \in hollow)
    BY <1>1, <1>3, <2>1, <2>2, TypeParts, SlotFacts DEF Arrays, Heap
  <2>4. g_rootVols'[off_id] = g_rootVols[i] /\ \A s \in Offline : s # off_id => g_rootVols'[s] = g_rootVols[s]
    BY <1>1, <2>1, <2>2, TypeParts, SlotFacts DEF Heap
  <2>5. \A j \in Letter : Shared(j)' => Shared(j) \/ j = i
    BY <1>1, <1>3, <2>3, <2>4 DEF Shared, RootsDistinct
  <2>6. RootsDistinct'
    <3>1. \A s \in Offline : s # off_id => (s \in hollow' <=> s \in hollow)
      BY <2>1
    <3>2. off_id \notin hollow' => i \notin hollow
      BY <2>1
    <3>3. QED
      BY <1>1, <1>8, <2>2, <2>3, <2>4, <3>1, <3>2 DEF RootsDistinct, Shared
  <2>7. QED
    BY <1>10, <2>3, <2>5, <2>6
<1>13. QED
  BY <1>11, <1>12

-----------------------------------------------------------------------------
LEMMA TreesInvStep == SerialRescan /\ TreesInv /\ [Next]_vars => TreesInv'
<1> SUFFICES ASSUME SerialRescan, TreesInv, [Next]_vars PROVE TreesInv'
  OBVIOUS
<1>1. CASE UNCHANGED vars
  <2>1. TypeInv'
    BY TypeInvStep DEF TreesInv
  <2>2. UNCHANGED <<present, messages, phase, todo, g_bVols, g_loaded, g_rootVols, heap, hollow, call>>
    BY <1>1 DEF vars, outside, memory, threads
  <2>3. QED
    BY <2>1, <2>2, QuietStep DEF TreesInv
<1>2. CASE InitDrives \/ LoadOnline \/ StartScanAll \/ NextScan \/ StartDriveChangeMonitorThread
  BY <1>2, InitDrivesTrees, LoadOnlineTrees, StartScanAllTrees, NextScanTrees, StartDriveChangeTrees
<1>3. ASSUME NEW t \in Thread, ScanCheck(t) \/ ScanFill(t) \/ ScanPublish(t) \/ SaveOpen(t) \/ SaveWrite(t)
      PROVE  TreesInv'
  BY <1>3, ScanCheckTrees, ScanFillTrees, ScanPublishTrees, SaveTrees
<1>4. ASSUME NEW z \in sizers, SizerWalk(z) \/ SizerOpen(z) \/ SizerWrite(z)
      PROVE  TreesInv'
  BY <1>4, SizerTrees
<1>5. ASSUME NEW i \in Letter, rescan(i)
      PROVE  TreesInv'
  BY <1>5, RescanTrees
<1>6. CASE RescanFree \/ LoadOfflineDb \/ OfflineLoaded
  BY <1>6, RescanFreeTrees, LoadOfflineDbTrees, OfflineLoadedTrees
<1>7. ASSUME NEW v \in Volume, VisitDb(v)
      PROVE  TreesInv'
  BY <1>7, VisitDbTrees
<1>8. ASSUME NEW s \in Slot, del_offline_db(s)
      PROVE  TreesInv'
  BY <1>8, DelOfflineTrees
<1>9. CASE SearchOffline
  BY <1>9, FailTrees DEF SearchOffline
<1>10. ASSUME NEW i \in Letter, NEW v \in Volume, PlugIn(i, v)
       PROVE  TreesInv'
  BY <1>10, PlugInTrees
<1>11. ASSUME NEW i \in Letter, Unplug(i)
       PROVE  TreesInv'
  BY <1>11, UnplugTrees
<1>12. CASE DriveAdded \/ DriveRemoved \/ Stop \/ NextSave \/ Exit \/ Crash
  BY <1>12, DriveAddedTrees, DriveRemovedTrees, StopTrees, NextSaveTrees, EndProcessTrees
<1>13. QED
  BY <1>1, <1>2, <1>3, <1>4, <1>5, <1>6, <1>7, <1>8, <1>9, <1>10, <1>11, <1>12 DEF Next

LEMMA TreesInvHolds == SerialRescan => (Spec => []TreesInv)
<1> SUFFICES ASSUME SerialRescan PROVE Spec => []TreesInv
  OBVIOUS
<1>1. Init => TreesInv
  BY InitTreesInv
<1>2. TreesInv /\ [Next]_vars => TreesInv'
  BY TreesInvStep
<1>3. QED
  BY <1>1, <1>2, PTL DEF Spec

(* A drive that is loaded has a live tree of its own: a search of the      *)
(* online drives never starts on freed memory, after any number of scans,  *)
(* rescans, removals, arrivals and deleted offline drives.  A drive whose  *)
(* database had no entry is excepted; without SerialRescan the run         *)
(* drives_rescan shows how it fails.                                       *)
THEOREM LoadedDrivesAreLive == SerialRescan => (Spec => []OnlineRootsLive)
<1>1. TreesInv => OnlineRootsLive
  BY DEF TreesInv, OwnRoots, Own, OnlineRootsLive
<1>2. QED
  BY <1>1, TreesInvHolds, PTL

(* No tree is loaded in two slots at once, so deleting an offline drive    *)
(* frees nothing another slot still shows, although DriveChangeListener    *)
(* leaves the root of a removed drive in its letter as well; slots whose   *)
(* database had no entry are excepted.                                     *)
THEOREM NoTreeLoadedTwice == SerialRescan => (Spec => []NoSharedTree)
<1>1. TreesInv => NoSharedTree
  <2> SUFFICES ASSUME TreesInv, NEW s \in Slot \ hollow, NEW r \in Slot \ hollow, g_loaded[s], g_loaded[r],
                      g_rootVols[s] = g_rootVols[r], g_rootVols[s] # NULL
               PROVE  s = r
    BY DEF NoSharedTree
  <2>1. RootsDistinct /\ \A i \in Letter \ hollow : g_loaded[i] => ~Shared(i)
    BY DEF TreesInv, OwnRoots, Own
  <2>2. QED
    BY <2>1 DEF RootsDistinct, Shared, Slot
<1>2. QED
  BY <1>1, TreesInvHolds, PTL
=============================================================================
