------------------------------ MODULE PageProofs ------------------------------
(***************************************************************************)
(* Proofs about Page, for any number of devices and files and any bound on *)
(* the queue of events.  Locked holds what the send button depends on;     *)
(* ListsAgree and PanelShowsTarget are inductive with the types.           *)
(***************************************************************************)
EXTENDS Page, FiniteSetTheorems, SequenceTheorems, TLAPS

\* A connection is busy exactly while it has files to report.
LeftWhileBusy ==
  \A d \in Devices : link[d] = "busy" <=> left[d] > 0

Locked == PageTypeOK /\ LeftWhileBusy /\ LockedByOneBatch

-----------------------------------------------------------------------------
\* The queue of events.

\* What posting does to the queue.
LEMMA Posted ==
  ASSUME events \in Seq(Events), NEW new \in Seq(Events), Post(new), MaxEvents \in Nat
  PROVE  /\ events' \in Seq(Events)
         /\ Len(events') = Len(events) + Len(new)
         /\ Len(events') <= MaxEvents
         /\ \A i \in 1..Len(events) : events'[i] = events[i]
         /\ \A i \in 1..Len(new) : events'[Len(events) + i] = new[i]
<1>1. events' = events \o new /\ Len(events) + Len(new) <= MaxEvents
  BY DEF Post
<1>2. /\ events \o new \in Seq(Events)
      /\ Len(events \o new) = Len(events) + Len(new)
      /\ \A i \in 1..(Len(events) + Len(new)) :
           (events \o new)[i] = IF i <= Len(events) THEN events[i] ELSE new[i - Len(events)]
  BY ConcatProperties
<1>3. Len(events) \in Nat /\ Len(new) \in Nat
  OBVIOUS
<1>4. \A i \in 1..Len(events) : events'[i] = events[i]
  BY <1>1, <1>2, <1>3
<1>5. ASSUME NEW i \in 1..Len(new)
      PROVE  events'[Len(events) + i] = new[i]
  <2>1. Len(events) + i \in 1..(Len(events) + Len(new)) /\ ~(Len(events) + i <= Len(events))
        /\ (Len(events) + i) - Len(events) = i
    BY <1>3
  <2>2. QED  BY <2>1, <1>1, <1>2
<1>6. QED  BY <1>1, <1>2, <1>4, <1>5

\* The ends of batches in a queue that has grown.
LEMMA EndsPosted ==
  ASSUME events \in Seq(Events), NEW new \in Seq(Events), Post(new), MaxEvents \in Nat
  PROVE  /\ (\A i \in 1..Len(new) : ~IsEnd(new[i])) => Ends' = Ends
         /\ \A k \in 1..Len(new) :
              (\A i \in 1..Len(new) : IsEnd(new[i]) <=> i = k) => Ends' = Ends \cup {Len(events) + k}
<1>1. /\ Len(events') = Len(events) + Len(new)
      /\ \A i \in 1..Len(events) : events'[i] = events[i]
      /\ \A i \in 1..Len(new) : events'[Len(events) + i] = new[i]
      /\ Len(events) \in Nat /\ Len(new) \in Nat
  BY Posted
<1>2. Ends' = {i \in 1..Len(events') : IsEnd(events'[i])}
  BY DEF Ends, IsEnd, BatchEnd
<1>3. \A i \in 1..Len(events') : i \in 1..Len(events) \/ \E j \in 1..Len(new) : i = Len(events) + j
  <2>1. \A i \in 1..Len(events') : i \in 1..Len(events)
          \/ (i - Len(events) \in 1..Len(new) /\ i = Len(events) + (i - Len(events)))
    BY <1>1
  <2>2. QED  BY <2>1
<1>4. \A j \in 1..Len(new) : Len(events) + j \in 1..Len(events')
  BY <1>1
<1>5. \A i \in 1..Len(events) : i \in 1..Len(events')
  BY <1>1
<1>6. ASSUME \A i \in 1..Len(new) : ~IsEnd(new[i])
      PROVE  Ends' = Ends
  BY <1>1, <1>2, <1>3, <1>5, <1>6 DEF Ends
<1>7. ASSUME NEW k \in 1..Len(new), \A i \in 1..Len(new) : IsEnd(new[i]) <=> i = k
      PROVE  Ends' = Ends \cup {Len(events) + k}
  <2>1. \A i \in Ends : i \in Ends'
    BY <1>1, <1>2, <1>5 DEF Ends
  <2>2. Len(events) + k \in Ends'
    BY <1>1, <1>2, <1>4, <1>7
  <2>3. ASSUME NEW i \in Ends'
        PROVE  i \in Ends \/ i = Len(events) + k
    <3>1. CASE i \in 1..Len(events)
      BY <1>1, <1>2, <2>3, <3>1 DEF Ends
    <3>2. CASE \E j \in 1..Len(new) : i = Len(events) + j
      <4>1. PICK j \in 1..Len(new) : i = Len(events) + j
        BY <3>2
      <4>2. IsEnd(new[j])
        BY <1>1, <1>2, <2>3, <4>1
      <4>3. QED  BY <1>7, <4>1, <4>2
    <3>3. QED  BY <1>2, <1>3, <2>3, <3>1, <3>2
  <2>4. QED  BY <2>1, <2>2, <2>3
<1>8. QED  BY <1>6, <1>7

\* The queue after the page has run its first event.
LEMMA Dispatched ==
  ASSUME events \in Seq(Events), events # <<>>, events' = Tail(events)
  PROVE  /\ events' \in Seq(Events)
         /\ Len(events') = Len(events) - 1
         /\ \A i \in 1..Len(events') : events'[i] = events[i + 1]
         /\ Head(events) = events[1] /\ Head(events) \in Events /\ Len(events) \in Nat \ {0}
<1>1. /\ Tail(events) \in Seq(Events) /\ Len(Tail(events)) = Len(events) - 1
      /\ \A i \in 1..Len(Tail(events)) : Tail(events)[i] = events[i + 1]
      /\ Head(events) \in Events
  BY HeadTailProperties
<1>2. Head(events) = events[1] /\ Len(events) \in Nat \ {0}
  OBVIOUS
<1>3. QED  BY <1>1, <1>2

\* The events there are, and which of them end a batch.
LEMMA NewEvents ==
  /\ \A d \in Devices : {Found(d), Lost(d), Notice(d)} \subseteq Events
  /\ \A d \in Devices : ~IsEnd(Found(d)) /\ ~IsEnd(Lost(d)) /\ ~IsEnd(Notice(d))
  /\ \A fs \in SUBSET Paths : Dropped(fs) \in Events /\ ~IsEnd(Dropped(fs))
  /\ \A incoming, ok, end \in BOOLEAN :
       /\ Transfer(incoming, ok, end) \in Events
       /\ IsEnd(Transfer(incoming, ok, end)) <=> (end /\ ~incoming)
BY DEF Found, Lost, Notice, Dropped, Transfer, Events, IsEnd, BatchEnd

\* Two events together.
LEMMA Pair ==
  ASSUME NEW S, NEW a \in S, NEW b \in S
  PROVE  /\ <<a>> \o <<b>> \in Seq(S)
         /\ Len(<<a>> \o <<b>>) = 2
         /\ (<<a>> \o <<b>>)[1] = a /\ (<<a>> \o <<b>>)[2] = b
<1>1. /\ <<a>> \in Seq(S) /\ <<b>> \in Seq(S) /\ Len(<<a>>) = 1 /\ Len(<<b>>) = 1
      /\ <<a>>[1] = a /\ <<b>>[1] = b
  OBVIOUS
<1>2. /\ <<a>> \o <<b>> \in Seq(S)
      /\ Len(<<a>> \o <<b>>) = Len(<<a>>) + Len(<<b>>)
      /\ \A i \in 1..(Len(<<a>>) + Len(<<b>>)) :
           (<<a>> \o <<b>>)[i] = IF i <= Len(<<a>>) THEN <<a>>[i] ELSE <<b>>[i - Len(<<a>>)]
  BY <1>1, ConcatProperties
<1>3. 1 \in 1..2 /\ 2 \in 1..2 /\ 2 - 1 = 1 /\ 1 <= 1 /\ ~(2 <= 1) /\ 1 + 1 = 2
  OBVIOUS
<1>4. QED  BY <1>1, <1>2, <1>3

\* One event is posted.
LEMMA PostedOne ==
  ASSUME events \in Seq(Events), NEW e \in Events, Post(<<e>>), MaxEvents \in Nat
  PROVE  /\ events' \in Seq(Events)
         /\ Len(events') <= MaxEvents
         /\ ~IsEnd(e) => Ends' = Ends
         /\ IsEnd(e) => Ends' = Ends \cup {Len(events) + 1}
<1>. DEFINE new == <<e>>
<1>1. new \in Seq(Events) /\ Len(new) = 1 /\ new[1] = e /\ Post(new)
  OBVIOUS
<1>2. 1..Len(new) = {1}
  BY <1>1
<1>. HIDE DEF new
<1>3. events' \in Seq(Events) /\ Len(events') <= MaxEvents
  BY <1>1, Posted
<1>4. ~IsEnd(e) => Ends' = Ends
  BY <1>1, <1>2, EndsPosted
<1>5. 1 \in 1..Len(new)
  BY <1>2
<1>6. IsEnd(e) => Ends' = Ends \cup {Len(events) + 1}
  BY <1>1, <1>2, <1>5, EndsPosted
<1>7. QED  BY <1>3, <1>4, <1>6

\* No event is posted.
LEMMA PostedNone ==
  ASSUME events \in Seq(Events), Post(<<>>)
  PROVE  events' = events
<1>1. events \o <<>> = events
  BY ConcatEmptySeq
<1>2. QED  BY <1>1 DEF Post

-----------------------------------------------------------------------------
\* The send button.

\* Nothing the button depends on changes.
LEMMA LockFrame ==
  ASSUME LockedByOneBatch, sending' = sending, calls' = calls, Busy' = Busy, Ends' = Ends
  PROVE  LockedByOneBatch'
BY DEF LockedByOneBatch

\* The busy connection gives way to an end of batch.
LEMMA LockPassed ==
  ASSUME LockedByOneBatch, sending' = sending, calls' = calls,
         NEW d \in Busy, Busy' = Busy \ {d}, NEW n, Ends' = Ends \cup {n}
  PROVE  LockedByOneBatch'
<1>1. Busy = {d} /\ Ends = {} /\ calls = <<>> /\ sending
  BY DEF LockedByOneBatch
<1>2. Busy' = {} /\ Ends' = {n} /\ calls' = <<>> /\ sending'
  BY <1>1
<1>3. QED  BY <1>2 DEF LockedByOneBatch

\* What happens on the page while the queues stay as they are.
LEMMA UserStep ==
  ASSUME Locked, PageAssumption,
         \/ \E d \in Devices : SelectDevice(d)
         \/ ClosePanel
         \/ PickFiles
         \/ \E fs \in SUBSET Paths : FilesPicked(fs)
  PROVE  Locked'
<1>1. /\ sending' = sending /\ calls' = calls /\ events' = events /\ link' = link /\ left' = left
  BY DEF SelectDevice, ClosePanel, PickFiles, FilesPicked, ioVars
<1>2. LeftWhileBusy'
  BY <1>1 DEF Locked, LeftWhileBusy
<1>3. LockedByOneBatch'
  BY <1>1, LockFrame DEF Locked, Busy, Ends
<1>4. PageTypeOK'
  <2>1. selected' \in Devices \cup {None} /\ files' \in SUBSET Paths /\ picking' \in BOOLEAN
    BY DEF Locked, PageTypeOK, SelectDevice, ClosePanel, PickFiles, FilesPicked, AddFiles
  <2>2. listed' = listed /\ target' = target /\ devices' = devices
    BY DEF SelectDevice, ClosePanel, PickFiles, FilesPicked, ioVars
  <2>3. QED  BY <1>1, <2>1, <2>2 DEF Locked, PageTypeOK
<1>5. QED  BY <1>2, <1>3, <1>4 DEF Locked

LEMMA DropFilesStep ==
  ASSUME Locked, PageAssumption, NEW fs \in SUBSET Paths, DropFiles(fs)
  PROVE  Locked'
<1>1. /\ UNCHANGED <<listed, selected, files, sending, picking, target, calls, devices, link, left>>
  BY DEF DropFiles, pageVars, ioVars
<1>2. events \in Seq(Events) /\ MaxEvents \in Nat /\ Dropped(fs) \in Events /\ ~IsEnd(Dropped(fs))
  BY NewEvents DEF Locked, PageTypeOK, PageAssumption
<1>3. Post(<<Dropped(fs)>>)
  BY <1>2, AppendIsConcat DEF DropFiles, Post
<1>4. events' \in Seq(Events) /\ Len(events') <= MaxEvents /\ Ends' = Ends
  BY <1>2, <1>3, PostedOne
<1>5. LeftWhileBusy'
  BY <1>1 DEF Locked, LeftWhileBusy
<1>6. LockedByOneBatch'
  BY <1>1, <1>4, LockFrame DEF Locked, Busy
<1>7. PageTypeOK'
  BY <1>1, <1>4 DEF Locked, PageTypeOK
<1>8. QED  BY <1>5, <1>6, <1>7 DEF Locked

LEMMA StartTransferStep ==
  ASSUME Locked, PageAssumption, StartTransfer
  PROVE  Locked'
<1>1. /\ selected # None /\ ~sending /\ files # {} /\ sending' = TRUE /\ target' = selected
      /\ calls' = Append(calls, [device |-> selected, files |-> files])
      /\ UNCHANGED <<listed, selected, files, picking, events, devices, link, left>>
  BY DEF StartTransfer, ioVars
<1>2. calls = <<>> /\ Busy = {} /\ Ends = {}
  BY <1>1 DEF Locked, LockedByOneBatch
<1>3. [device |-> selected, files |-> files] \in [device : Devices, files : (SUBSET Paths) \ {{}}]
  BY <1>1 DEF Locked, PageTypeOK
<1>4. calls \in Seq([device : Devices, files : (SUBSET Paths) \ {{}}]) /\ Len(calls) = 0
  BY <1>2 DEF Locked, PageTypeOK
<1>5. /\ calls' \in Seq([device : Devices, files : (SUBSET Paths) \ {{}}])
      /\ calls' # <<>> /\ Len(calls') = 1
  BY <1>1, <1>3, <1>4, AppendProperties
<1>6. Busy' = {} /\ Ends' = {}
  BY <1>1, <1>2 DEF Busy, Ends
<1>7. LockedByOneBatch'
  BY <1>1, <1>5, <1>6 DEF LockedByOneBatch
<1>8. LeftWhileBusy' /\ PageTypeOK'
  BY <1>1, <1>5 DEF Locked, LeftWhileBusy, PageTypeOK
<1>9. QED  BY <1>7, <1>8 DEF Locked

-----------------------------------------------------------------------------
\* The page runs an event.

\* The ends of batches that are left.
LEMMA EndsDispatched ==
  ASSUME events \in Seq(Events), events # <<>>, events' = Tail(events)
  PROVE  /\ \A i \in Ends' : i + 1 \in Ends
         /\ \A i \in Ends : i # 1 => i - 1 \in Ends'
         /\ IsEnd(Head(events)) <=> 1 \in Ends
<1>1. /\ Len(events') = Len(events) - 1
      /\ \A i \in 1..Len(events') : events'[i] = events[i + 1]
      /\ Head(events) = events[1] /\ Len(events) \in Nat \ {0}
  BY Dispatched
<1>2. Ends' = {i \in 1..Len(events') : IsEnd(events'[i])}
  BY DEF Ends, IsEnd, BatchEnd
<1>3. \A i \in Ends' : i + 1 \in Ends
  BY <1>1, <1>2 DEF Ends
<1>4. ASSUME NEW i \in Ends, i # 1
      PROVE  i - 1 \in Ends'
  <2>1. i - 1 \in 1..Len(events') /\ (i - 1) + 1 = i
    BY <1>1, <1>4 DEF Ends
  <2>2. events'[i - 1] = events[i]
    BY <1>1, <2>1
  <2>3. QED  BY <1>2, <2>1, <2>2 DEF Ends
<1>5. IsEnd(Head(events)) <=> 1 \in Ends
  BY <1>1 DEF Ends
<1>6. QED  BY <1>3, <1>4, <1>5

LEMMA DispatchStep ==
  ASSUME Locked, PageAssumption, Dispatch
  PROVE  Locked'
<1>. DEFINE e == Head(events)
<1>1. /\ events # <<>> /\ events' = Tail(events)
      /\ UNCHANGED <<picking, target, calls, devices, link, left>>
  BY DEF Dispatch, ioVars
<1>2. events \in Seq(Events) /\ Len(events) <= MaxEvents /\ MaxEvents \in Nat
  BY DEF Locked, PageTypeOK, PageAssumption
<1>3. events' \in Seq(Events) /\ Len(events') <= MaxEvents /\ e \in Events
  BY <1>1, <1>2, Dispatched
<1>4. /\ listed' \in SUBSET Devices /\ selected' \in Devices \cup {None} /\ files' \in SUBSET Paths
      /\ sending' \in BOOLEAN
      /\ sending' = (sending /\ ~IsEnd(e))
  <2>1. CASE e.kind = "found" /\ listed' = listed \cup {e.device} /\ UNCHANGED <<selected, files, sending>>
    <3>1. e.device \in Devices /\ ~IsEnd(e)
      BY <1>3, <2>1 DEF Events, IsEnd
    <3>2. QED  BY <2>1, <3>1 DEF Locked, PageTypeOK
  <2>2. CASE e.kind = "lost" /\ DeviceLost(e.device)
    <3>1. ~IsEnd(e)
      BY <2>2 DEF IsEnd
    <3>2. QED  BY <2>2, <3>1 DEF Locked, PageTypeOK, DeviceLost
  <2>3. CASE e.kind = "dropped" /\ AddFiles(e.files) /\ UNCHANGED <<listed, selected, sending>>
    <3>1. e.files \in SUBSET Paths /\ ~IsEnd(e)
      BY <1>3, <2>3 DEF Events, IsEnd
    <3>2. QED  BY <2>3, <3>1 DEF Locked, PageTypeOK, AddFiles
  <2>4. CASE e.kind = "transfer" /\ TransferReported(e)
    <3>1. IsEnd(e) <=> BatchEnd(e)
      BY <2>4 DEF IsEnd
    <3>2. listed' = listed /\ selected' = selected /\ files' \in SUBSET Paths
      BY <2>4 DEF Locked, PageTypeOK, TransferReported
    <3>3. sending' = (sending /\ ~BatchEnd(e))
      BY <2>4 DEF TransferReported
    <3>4. sending' \in BOOLEAN /\ sending' = (sending /\ ~IsEnd(e))
      BY <3>1, <3>3
    <3>5. QED  BY <3>2, <3>4 DEF Locked, PageTypeOK
  <2>5. CASE e.kind = "notice" /\ UNCHANGED <<listed, selected, files, sending>>
    <3>1. ~IsEnd(e)
      BY <2>5 DEF IsEnd
    <3>2. QED  BY <2>5, <3>1 DEF Locked, PageTypeOK
  <2>6. QED  BY <2>1, <2>2, <2>3, <2>4, <2>5 DEF Dispatch
<1>5. PageTypeOK' /\ LeftWhileBusy'
  BY <1>1, <1>3, <1>4 DEF Locked, LeftWhileBusy, PageTypeOK
<1>6. /\ \A i \in Ends' : i + 1 \in Ends
      /\ \A i \in Ends : i # 1 => i - 1 \in Ends'
      /\ IsEnd(e) <=> 1 \in Ends
  BY <1>1, <1>2, EndsDispatched
<1>7. Ends \subseteq Nat /\ Ends' \subseteq Nat
  BY <1>2, <1>3 DEF Ends
<1>8. calls' = calls /\ Busy' = Busy
  BY <1>1 DEF Busy
<1>9. LockedByOneBatch'
  <2>1. CASE IsEnd(e)
    <3>1. Ends = {1} /\ calls = <<>> /\ Busy = {}
      BY <1>6, <2>1 DEF Locked, LockedByOneBatch
    <3>2. Ends' = {}
      <4>1. \A i \in Ends' : i + 1 = 1 /\ i \in Nat /\ i # 0
        BY <1>6, <1>7, <3>1 DEF Ends
      <4>2. QED  BY <4>1
    <3>3. ~sending'
      BY <1>4, <2>1
    <3>4. QED  BY <3>1, <3>2, <3>3, <1>8 DEF LockedByOneBatch
  <2>2. CASE ~IsEnd(e)
    <3>1. Ends' = {} <=> Ends = {}
      BY <1>6, <1>7, <2>2
    <3>2. \A i, j \in Ends : i = j
      BY DEF Locked, LockedByOneBatch
    <3>3. \A i, j \in Ends' : i = j
      BY <1>6, <1>7, <3>2
    <3>4. sending' = sending
      BY <1>4, <2>2 DEF Locked, PageTypeOK
    <3>5. QED  BY <3>1, <3>3, <3>4, <1>8 DEF Locked, LockedByOneBatch
  <2>3. QED  BY <2>1, <2>2
<1>10. QED  BY <1>5, <1>9 DEF Locked

-----------------------------------------------------------------------------
\* The io thread.

\* The types when one event may have been posted and the connections change.
LEMMA IoTypes ==
  ASSUME PageTypeOK, UNCHANGED pageVars,
         events' \in Seq(Events), Len(events') <= MaxEvents,
         calls' \in Seq([device : Devices, files : (SUBSET Paths) \ {{}}]),
         devices' \in SUBSET Devices,
         link' \in [Devices -> {"none", "offline", "idle", "busy"}],
         left' \in [Devices -> 0..Cardinality(Paths)]
  PROVE  PageTypeOK'
BY DEF PageTypeOK, pageVars

LEMMA SendFilesStep ==
  ASSUME Locked, PageAssumption, SendFiles
  PROVE  Locked'
<1>. DEFINE d == Head(calls).device
            fs == Head(calls).files
            n == Cardinality(fs)
<1>1. /\ calls # <<>> /\ calls' = Tail(calls) /\ UNCHANGED pageVars /\ devices' = devices
      /\ \/ link[d] \in {"none", "offline"} /\ RefuseBatch(d) /\ UNCHANGED <<link, left>>
         \/ /\ link[d] \in {"idle", "busy"}
            /\ link' = [link EXCEPT ![d] = "busy"]
            /\ left' = [left EXCEPT ![d] = @ + n]
            /\ UNCHANGED events
  BY DEF SendFiles
<1>2. /\ calls \in Seq([device : Devices, files : (SUBSET Paths) \ {{}}])
      /\ events \in Seq(Events) /\ Len(events) <= MaxEvents /\ MaxEvents \in Nat
      /\ devices \in SUBSET Devices
      /\ link \in [Devices -> {"none", "offline", "idle", "busy"}]
      /\ left \in [Devices -> 0..Cardinality(Paths)]
  BY DEF Locked, PageTypeOK, PageAssumption
<1>3. Len(calls) = 1 /\ Busy = {} /\ Ends = {} /\ sending
  BY <1>1 DEF Locked, LockedByOneBatch
<1>4. calls' = <<>> /\ Len(calls') = 0 /\ calls' \in Seq([device : Devices, files : (SUBSET Paths) \ {{}}])
  BY <1>1, <1>2, <1>3
<1>5. d \in Devices /\ fs \in SUBSET Paths /\ fs # {}
  <2>1. Head(calls) \in [device : Devices, files : (SUBSET Paths) \ {{}}]
    BY <1>1, <1>2, HeadTailProperties
  <2>2. QED  BY <2>1
<1>6. n \in 1..Cardinality(Paths) /\ n \in 0..Cardinality(Paths)
  <2>1. IsFiniteSet(Paths) /\ fs \subseteq Paths /\ fs # {}
    BY <1>5 DEF PageAssumption
  <2>2. IsFiniteSet(fs) /\ Cardinality(fs) <= Cardinality(Paths)
    BY <2>1, FS_Subset
  <2>3. Cardinality(fs) \in Nat /\ Cardinality(Paths) \in Nat /\ Cardinality(fs) # 0
    BY <2>1, <2>2, FS_CardinalityType, FS_EmptySet
  <2>4. QED  BY <2>2, <2>3
<1>. HIDE DEF d, fs, n
<1>7. CASE link[d] \in {"none", "offline"} /\ RefuseBatch(d) /\ UNCHANGED <<link, left>>
  <2>1. Transfer(FALSE, FALSE, TRUE) \in Events /\ IsEnd(Transfer(FALSE, FALSE, TRUE))
    BY NewEvents
  <2>2. /\ events' \in Seq(Events) /\ Len(events') <= MaxEvents
        /\ Ends' = Ends \cup {Len(events) + 1}
    BY <1>2, <1>7, <2>1, PostedOne DEF RefuseBatch
  <2>3. PageTypeOK'
    BY <1>1, <1>2, <1>4, <1>7, <2>2, IoTypes DEF Locked
  <2>4. LeftWhileBusy' /\ Busy' = Busy
    BY <1>7 DEF Locked, LeftWhileBusy, Busy
  <2>5. sending' = sending
    BY <1>1 DEF pageVars
  <2>6. Ends' = {Len(events) + 1} /\ Busy' = {}
    BY <1>3, <2>2, <2>4
  <2>7. LockedByOneBatch'
    BY <1>3, <1>4, <2>5, <2>6 DEF LockedByOneBatch
  <2>8. QED  BY <2>3, <2>4, <2>7 DEF Locked
<1>8. CASE /\ link[d] \in {"idle", "busy"}
           /\ link' = [link EXCEPT ![d] = "busy"]
           /\ left' = [left EXCEPT ![d] = @ + n]
           /\ UNCHANGED events
  <2>1. \A x \in Devices : link[x] # "busy"
    BY <1>3 DEF Busy
  <2>2. left[d] = 0
    BY <1>2, <1>5, <2>1 DEF Locked, LeftWhileBusy
  <2>3. left' = [left EXCEPT ![d] = n]
    BY <1>2, <1>5, <1>6, <1>8, <2>2
  <2>4. link' \in [Devices -> {"none", "offline", "idle", "busy"}]
    BY <1>2, <1>8
  <2>5. left' \in [Devices -> 0..Cardinality(Paths)]
    BY <1>2, <1>6, <2>3
  <2>6. PageTypeOK'
    BY <1>1, <1>2, <1>4, <1>8, <2>4, <2>5, IoTypes DEF Locked
  <2>7. LeftWhileBusy'
    BY <1>2, <1>5, <1>6, <1>8, <2>3 DEF Locked, LeftWhileBusy
  <2>8. Busy' = {d} /\ Ends' = {}
    BY <1>2, <1>3, <1>5, <1>8, <2>1 DEF Busy, Ends
  <2>9. sending' = sending
    BY <1>1 DEF pageVars
  <2>10. LockedByOneBatch'
    BY <1>3, <1>4, <2>8, <2>9 DEF LockedByOneBatch
  <2>11. QED  BY <2>6, <2>7, <2>10 DEF Locked
<1>9. QED  BY <1>1, <1>7, <1>8

LEMMA FileEndsStep ==
  ASSUME Locked, PageAssumption, NEW d \in Devices, NEW ok \in BOOLEAN, FileEnds(d, ok)
  PROVE  Locked'
<1>. DEFINE last == left[d] = 1
            e == Transfer(FALSE, ok, last)
<1>1. /\ link[d] = "busy" /\ Post(<<e>>) /\ UNCHANGED pageVars /\ UNCHANGED <<calls, devices>>
      /\ left' = [left EXCEPT ![d] = @ - 1]
      /\ link' = [link EXCEPT ![d] = IF last THEN "idle" ELSE "busy"]
  BY DEF FileEnds
<1>2. /\ calls \in Seq([device : Devices, files : (SUBSET Paths) \ {{}}])
      /\ events \in Seq(Events) /\ Len(events) <= MaxEvents /\ MaxEvents \in Nat
      /\ devices \in SUBSET Devices
      /\ link \in [Devices -> {"none", "offline", "idle", "busy"}]
      /\ left \in [Devices -> 0..Cardinality(Paths)]
  BY DEF Locked, PageTypeOK, PageAssumption
<1>3. e \in Events /\ (IsEnd(e) <=> last)
  BY NewEvents
<1>4. /\ events' \in Seq(Events) /\ Len(events') <= MaxEvents
      /\ ~last => Ends' = Ends
      /\ last => Ends' = Ends \cup {Len(events) + 1}
  <2>. HIDE DEF e, last
  <2>1. QED  BY <1>1, <1>2, <1>3, PostedOne
<1>5. left[d] > 0 /\ left[d] \in 0..Cardinality(Paths) /\ Cardinality(Paths) \in Nat
  BY <1>1, <1>2, FS_CardinalityType DEF Locked, LeftWhileBusy, PageAssumption
<1>6. left' \in [Devices -> 0..Cardinality(Paths)] /\ left'[d] = left[d] - 1
  BY <1>1, <1>2, <1>5
<1>7. link' \in [Devices -> {"none", "offline", "idle", "busy"}]
  BY <1>1, <1>2
<1>8. PageTypeOK'
  BY <1>1, <1>2, <1>4, <1>6, <1>7, IoTypes DEF Locked
<1>9. LeftWhileBusy'
  <2>1. \A x \in Devices \ {d} : link'[x] = link[x] /\ left'[x] = left[x]
    BY <1>1, <1>2
  <2>2. link'[d] = "busy" <=> left'[d] > 0
    BY <1>1, <1>2, <1>5, <1>6
  <2>3. QED  BY <2>1, <2>2 DEF Locked, LeftWhileBusy
<1>10. sending' = sending /\ calls' = calls /\ d \in Busy
  BY <1>1 DEF pageVars, Busy
<1>11. LockedByOneBatch'
  <2>1. CASE last
    <3>1. Busy' = Busy \ {d}
      BY <1>1, <1>2, <2>1 DEF Busy
    <3>2. Ends' = Ends \cup {Len(events) + 1}
      BY <1>4, <2>1
    <3>3. QED  BY <1>10, <3>1, <3>2, LockPassed DEF Locked
  <2>2. CASE ~last
    <3>1. Busy' = Busy
      BY <1>1, <1>2, <2>2 DEF Busy
    <3>2. QED  BY <1>4, <1>10, <2>2, <3>1, LockFrame DEF Locked
  <2>3. QED  BY <2>1, <2>2
<1>12. QED  BY <1>8, <1>9, <1>11 DEF Locked

\* A connection that is not busy changes into another state that is not busy, and
\* nothing that is posted ends a batch.
LEMMA QuietStep ==
  ASSUME Locked, PageAssumption, UNCHANGED <<pageVars, calls, left>>,
         events' \in Seq(Events), Len(events') <= MaxEvents, Ends' = Ends,
         devices' \in SUBSET Devices,
         link' \in [Devices -> {"none", "offline", "idle", "busy"}],
         \A d \in Devices : link'[d] = "busy" <=> link[d] = "busy"
  PROVE  Locked'
<1>1. sending' = sending /\ calls' = calls /\ left' = left
  BY DEF pageVars
<1>2. PageTypeOK'
  BY IoTypes DEF Locked, PageTypeOK
<1>3. LeftWhileBusy' /\ Busy' = Busy
  BY <1>1 DEF Locked, LeftWhileBusy, Busy
<1>4. LockedByOneBatch'
  BY <1>1, <1>3, LockFrame DEF Locked
<1>5. QED  BY <1>2, <1>3, <1>4 DEF Locked

\* A busy connection closes with its report, and with nothing else that ends a
\* batch.
LEMMA ClosingStep ==
  ASSUME Locked, PageAssumption, NEW d \in Devices, link[d] = "busy",
         UNCHANGED <<pageVars, calls>>,
         events' \in Seq(Events), Len(events') <= MaxEvents,
         NEW n, Ends' = Ends \cup {n},
         devices' \in SUBSET Devices,
         NEW new \in {"none", "offline"}, link' = [link EXCEPT ![d] = new],
         left' = [left EXCEPT ![d] = 0]
  PROVE  Locked'
<1>1. /\ link \in [Devices -> {"none", "offline", "idle", "busy"}]
      /\ left \in [Devices -> 0..Cardinality(Paths)]
      /\ Cardinality(Paths) \in Nat
  BY FS_CardinalityType DEF Locked, PageTypeOK, PageAssumption
<1>2. /\ link' \in [Devices -> {"none", "offline", "idle", "busy"}]
      /\ left' \in [Devices -> 0..Cardinality(Paths)]
  BY <1>1
<1>3. PageTypeOK'
  BY <1>2, IoTypes DEF Locked, PageTypeOK
<1>4. LeftWhileBusy'
  <2>1. \A x \in Devices \ {d} : link'[x] = link[x] /\ left'[x] = left[x]
    BY <1>1
  <2>2. link'[d] # "busy" /\ left'[d] = 0
    BY <1>1
  <2>3. QED  BY <2>1, <2>2 DEF Locked, LeftWhileBusy
<1>5. d \in Busy /\ Busy' = Busy \ {d}
  BY <1>1 DEF Busy
<1>6. sending' = sending /\ calls' = calls
  BY DEF pageVars
<1>7. LockedByOneBatch'
  BY <1>5, <1>6, LockPassed DEF Locked
<1>8. QED  BY <1>3, <1>4, <1>7 DEF Locked

LEMMA ConnectionFailsStep ==
  ASSUME Locked, PageAssumption, NEW d \in Devices, ConnectionFails(d)
  PROVE  Locked'
<1>. DEFINE e == Transfer(FALSE, FALSE, TRUE)
<1>1. /\ events \in Seq(Events) /\ Len(events) <= MaxEvents /\ MaxEvents \in Nat
      /\ devices' \in SUBSET Devices /\ UNCHANGED <<pageVars, calls>>
      /\ link \in [Devices -> {"none", "offline", "idle", "busy"}]
      /\ left \in [Devices -> 0..Cardinality(Paths)]
      /\ link' = [link EXCEPT ![d] = "offline"]
      /\ left' = [left EXCEPT ![d] = 0]
      /\ link[d] \in {"idle", "busy"}
      /\ Post(Unfinished(d))
  BY DEF ConnectionFails, Locked, PageTypeOK, PageAssumption
<1>2. e \in Events /\ IsEnd(e)
  BY NewEvents
<1>3. CASE link[d] = "busy"
  <2>1. Post(<<e>>)
    BY <1>1, <1>3 DEF Unfinished
  <2>. HIDE DEF e
  <2>2. /\ events' \in Seq(Events) /\ Len(events') <= MaxEvents
        /\ Ends' = Ends \cup {Len(events) + 1}
    BY <1>1, <1>2, <2>1, PostedOne
  <2>3. QED  BY <1>1, <1>3, <2>2, ClosingStep
<1>4. CASE link[d] # "busy"
  <2>1. events' = events
    BY <1>1, <1>4, PostedNone DEF Unfinished
  <2>2. Ends' = Ends /\ events' \in Seq(Events) /\ Len(events') <= MaxEvents
    BY <1>1, <2>1 DEF Ends
  <2>3. left[d] = 0
    BY <1>1, <1>4 DEF Locked, LeftWhileBusy
  <2>4. left' = left
    BY <1>1, <2>3
  <2>5. /\ link' \in [Devices -> {"none", "offline", "idle", "busy"}]
        /\ \A x \in Devices : link'[x] = "busy" <=> link[x] = "busy"
    BY <1>1, <1>4
  <2>6. QED  BY <1>1, <2>2, <2>4, <2>5, QuietStep
<1>5. QED  BY <1>3, <1>4

LEMMA OnPeerClosedStep ==
  ASSUME Locked, PageAssumption, NEW d \in Devices, OnPeerClosed(d)
  PROVE  Locked'
<1>. DEFINE e == Transfer(FALSE, FALSE, TRUE)
            new == Unfinished(d) \o LostIfListed(d)
<1>1. /\ events \in Seq(Events) /\ Len(events) <= MaxEvents /\ MaxEvents \in Nat
      /\ devices' \in SUBSET Devices /\ UNCHANGED <<pageVars, calls>>
      /\ link \in [Devices -> {"none", "offline", "idle", "busy"}]
      /\ left \in [Devices -> 0..Cardinality(Paths)]
      /\ link' = [link EXCEPT ![d] = "none"]
      /\ left' = [left EXCEPT ![d] = 0]
      /\ Post(new)
  BY DEF OnPeerClosed, Locked, PageTypeOK, PageAssumption
<1>2. e \in Events /\ Lost(d) \in Events /\ IsEnd(e) /\ ~IsEnd(Lost(d))
  BY NewEvents
<1>3. CASE link[d] = "busy"
  <2>1. /\ new \in Seq(Events)
        /\ 1 \in 1..Len(new) /\ \A i \in 1..Len(new) : IsEnd(new[i]) <=> i = 1
    <3>1. CASE d \in devices
      <4>1. Unfinished(d) = <<e>> /\ LostIfListed(d) = <<Lost(d)>>
        BY <1>3, <3>1 DEF Unfinished, LostIfListed
      <4>. HIDE DEF e
      <4>2. new \in Seq(Events) /\ Len(new) = 2 /\ new[1] = e /\ new[2] = Lost(d)
        BY <1>2, <4>1, Pair
      <4>. HIDE DEF new
      <4>3. 1 \in 1..Len(new) /\ \A i \in 1..Len(new) : i = 1 \/ i = 2
        BY <4>2
      <4>4. QED  BY <1>2, <4>2, <4>3
    <3>2. CASE d \notin devices
      <4>1. Unfinished(d) = <<e>> /\ LostIfListed(d) = <<>>
        BY <1>3, <3>2 DEF Unfinished, LostIfListed
      <4>. HIDE DEF e
      <4>2. <<e>> \in Seq(Events)
        BY <1>2
      <4>3. new = <<e>>
        BY <4>1, <4>2, ConcatEmptySeq
      <4>. HIDE DEF new
      <4>4. QED  BY <1>2, <4>3
    <3>3. QED  BY <3>1, <3>2
  <2>. HIDE DEF new
  <2>2. events' \in Seq(Events) /\ Len(events') <= MaxEvents
    BY <1>1, <2>1, Posted
  <2>3. Ends' = Ends \cup {Len(events) + 1}
    BY <1>1, <2>1, EndsPosted
  <2>4. QED  BY <1>1, <1>3, <2>2, <2>3, ClosingStep
<1>4. CASE link[d] # "busy"
  <2>1. new \in Seq(Events) /\ \A i \in 1..Len(new) : ~IsEnd(new[i])
    <3>1. CASE d \in devices
      <4>1. new = <<Lost(d)>>
        BY <1>2, <1>4, <3>1, ConcatEmptySeq DEF Unfinished, LostIfListed
      <4>. HIDE DEF new
      <4>2. QED  BY <1>2, <4>1
    <3>2. CASE d \notin devices
      <4>1. new = <<>>
        BY <1>4, <3>2 DEF Unfinished, LostIfListed
      <4>. HIDE DEF new
      <4>2. QED  BY <4>1
    <3>3. QED  BY <3>1, <3>2
  <2>. HIDE DEF new
  <2>2. events' \in Seq(Events) /\ Len(events') <= MaxEvents
    BY <1>1, <2>1, Posted
  <2>3. Ends' = Ends
    BY <1>1, <2>1, EndsPosted
  <2>4. left[d] = 0
    BY <1>1, <1>4 DEF Locked, LeftWhileBusy
  <2>5. left' = left
    BY <1>1, <2>4
  <2>6. /\ link' \in [Devices -> {"none", "offline", "idle", "busy"}]
        /\ \A x \in Devices : link'[x] = "busy" <=> link[x] = "busy"
    BY <1>1, <1>4
  <2>7. QED  BY <1>1, <2>2, <2>3, <2>5, <2>6, QuietStep
<1>5. QED  BY <1>3, <1>4

LEMMA OnMatchStep ==
  ASSUME Locked, PageAssumption, NEW d \in Devices, NEW renamed \in BOOLEAN, OnMatch(d, renamed)
  PROVE  Locked'
<1>1. /\ events \in Seq(Events) /\ Len(events) <= MaxEvents /\ MaxEvents \in Nat
      /\ devices' \in SUBSET Devices /\ UNCHANGED <<pageVars, calls, left>>
      /\ link \in [Devices -> {"none", "offline", "idle", "busy"}]
      /\ link' = [link EXCEPT ![d] = IF @ = "none" THEN "offline" ELSE @]
      /\ Post(<<Found(d)>>) \/ Post(<<>>)
  BY DEF OnMatch, Locked, PageTypeOK, PageAssumption
<1>2. Found(d) \in Events /\ ~IsEnd(Found(d))
  BY NewEvents
<1>3. /\ link' \in [Devices -> {"none", "offline", "idle", "busy"}]
      /\ \A x \in Devices : link'[x] = "busy" <=> link[x] = "busy"
  BY <1>1
<1>4. events' \in Seq(Events) /\ Len(events') <= MaxEvents /\ Ends' = Ends
  <2>1. CASE Post(<<Found(d)>>)
    BY <1>1, <1>2, <2>1, PostedOne
  <2>2. CASE Post(<<>>)
    <3>1. events' = events
      BY <1>1, <2>2, PostedNone
    <3>2. QED  BY <1>1, <3>1 DEF Ends
  <2>3. QED  BY <1>1, <2>1, <2>2
<1>5. QED  BY <1>1, <1>3, <1>4, QuietStep

LEMMA ReadyStep ==
  ASSUME Locked, PageAssumption, NEW d \in Devices, Ready(d)
  PROVE  Locked'
<1>1. /\ events' = events /\ events \in Seq(Events) /\ Len(events) <= MaxEvents
      /\ devices' \in SUBSET Devices /\ UNCHANGED <<pageVars, calls, left>>
      /\ link \in [Devices -> {"none", "offline", "idle", "busy"}]
      /\ link[d] = "offline" /\ link' = [link EXCEPT ![d] = "idle"]
  BY DEF Ready, Locked, PageTypeOK
<1>2. /\ link' \in [Devices -> {"none", "offline", "idle", "busy"}]
      /\ \A x \in Devices : link'[x] = "busy" <=> link[x] = "busy"
  BY <1>1
<1>3. Ends' = Ends
  BY <1>1 DEF Ends
<1>4. QED  BY <1>1, <1>2, <1>3, QuietStep

LEMMA PostingStep ==
  ASSUME Locked, PageAssumption,
         \/ \E d \in Devices : TimerExpires(d)
         \/ \E ok \in BOOLEAN : IncomingEnds(ok)
  PROVE  Locked'
<1>1. /\ events \in Seq(Events) /\ MaxEvents \in Nat
      /\ devices' \in SUBSET Devices /\ UNCHANGED <<pageVars, calls, left>>
      /\ link' = link /\ link \in [Devices -> {"none", "offline", "idle", "busy"}]
  BY DEF TimerExpires, IncomingEnds, ioVars, Locked, PageTypeOK, PageAssumption
<1>2. PICK e \in Events : Post(<<e>>) /\ ~IsEnd(e)
  <2>1. CASE \E d \in Devices : TimerExpires(d)
    BY <2>1, NewEvents DEF TimerExpires
  <2>2. CASE \E ok \in BOOLEAN : IncomingEnds(ok)
    BY <2>2, NewEvents DEF IncomingEnds
  <2>3. QED  BY <2>1, <2>2
<1>3. events' \in Seq(Events) /\ Len(events') <= MaxEvents /\ Ends' = Ends
  BY <1>1, <1>2, PostedOne
<1>4. link' \in [Devices -> {"none", "offline", "idle", "busy"}]
  BY <1>1
<1>5. \A d \in Devices : link'[d] = "busy" <=> link[d] = "busy"
  BY <1>1
<1>6. QED  BY <1>1, <1>3, <1>4, <1>5, QuietStep

-----------------------------------------------------------------------------
\* The list of devices: Listed and ListsAgree of any list and any queue.

After(l, es, d, n) ==
  \/ d \in l /\ \A i \in 1..n : es[i] # Lost(d)
  \/ \E i \in 1..n : es[i] = Found(d) /\ \A j \in (i + 1)..n : es[j] # Lost(d)

Agree(l, es, ds) ==
  /\ \A d \in Devices : After(l, es, d, Len(es)) <=> d \in ds
  /\ \A d \in Devices, n \in 1..Len(es) : es[n] = Notice(d) => ~After(l, es, d, n)

LEMMA ListsAre ==
  /\ ListsAgree <=> (selected # None => selected \in listed) /\ Agree(listed, events, devices)
  /\ ListsAgree' <=> (selected' # None => selected' \in listed') /\ Agree(listed', events', devices')
BY DEF ListsAgree, Listed, Agree, After

\* What one more event makes of the list.
LEMMA AfterNext ==
  ASSUME NEW l, NEW es, NEW d, NEW n \in Nat
  PROVE  After(l, es, d, n + 1) <=>
           (es[n + 1] = Found(d) \/ (After(l, es, d, n) /\ es[n + 1] # Lost(d)))
<1>1. Found(d) # Lost(d)
  BY DEF Found, Lost
<1>2. 1..(n + 1) = (1..n) \cup {n + 1}
  OBVIOUS
<1>3. ((n + 1) + 1)..(n + 1) = {} /\ n + 1 \in 1..(n + 1)
  OBVIOUS
<1>4. \A i \in 1..n : (i + 1)..(n + 1) = ((i + 1)..n) \cup {n + 1}
  OBVIOUS
<1>5. ASSUME es[n + 1] = Found(d)
      PROVE  After(l, es, d, n + 1)
  BY <1>3, <1>5 DEF After
<1>6. ASSUME After(l, es, d, n), es[n + 1] # Lost(d)
      PROVE  After(l, es, d, n + 1)
  <2>1. CASE d \in l /\ \A i \in 1..n : es[i] # Lost(d)
    BY <1>2, <1>6, <2>1 DEF After
  <2>2. CASE \E i \in 1..n : es[i] = Found(d) /\ \A j \in (i + 1)..n : es[j] # Lost(d)
    <3>1. PICK i \in 1..n : es[i] = Found(d) /\ \A j \in (i + 1)..n : es[j] # Lost(d)
      BY <2>2
    <3>2. i \in 1..(n + 1) /\ \A j \in (i + 1)..(n + 1) : es[j] # Lost(d)
      BY <1>2, <1>4, <1>6, <3>1
    <3>3. QED  BY <3>1, <3>2 DEF After
  <2>3. QED  BY <1>6, <2>1, <2>2 DEF After
<1>7. ASSUME After(l, es, d, n + 1), es[n + 1] # Found(d)
      PROVE  After(l, es, d, n) /\ es[n + 1] # Lost(d)
  <2>1. CASE d \in l /\ \A i \in 1..(n + 1) : es[i] # Lost(d)
    BY <1>2, <2>1 DEF After
  <2>2. CASE \E i \in 1..(n + 1) : es[i] = Found(d) /\ \A j \in (i + 1)..(n + 1) : es[j] # Lost(d)
    <3>1. PICK i \in 1..(n + 1) : es[i] = Found(d) /\ \A j \in (i + 1)..(n + 1) : es[j] # Lost(d)
      BY <2>2
    <3>2. i \in 1..n
      BY <1>2, <1>7, <3>1
    <3>3. es[n + 1] # Lost(d) /\ \A j \in (i + 1)..n : es[j] # Lost(d)
      BY <1>4, <3>1, <3>2
    <3>4. QED  BY <3>1, <3>2, <3>3 DEF After
  <2>3. QED  BY <1>7, <2>1, <2>2 DEF After
<1>8. QED  BY <1>1, <1>5, <1>6, <1>7

\* An event is added at the end.
LEMMA AgreePosted ==
  ASSUME NEW l, NEW es \in Seq(Events), NEW e \in Events, NEW ds, NEW es2, NEW ds2,
         es2 = es \o <<e>>,
         Agree(l, es, ds),
         \A d \in Devices : d \in ds2 <=> (e = Found(d) \/ (d \in ds /\ e # Lost(d))),
         \A d \in Devices : e = Notice(d) => d \notin ds
  PROVE  es2 \in Seq(Events) /\ Agree(l, es2, ds2)
<1>1. es2 = Append(es, e)
  BY AppendIsConcat
<1>2. /\ es2 \in Seq(Events) /\ Len(es2) = Len(es) + 1 /\ es2[Len(es) + 1] = e
      /\ \A i \in 1..Len(es) : es2[i] = es[i]
      /\ Len(es) \in Nat
  BY <1>1, AppendProperties
<1>3. \A d \in Devices, n \in 0..Len(es) : After(l, es2, d, n) <=> After(l, es, d, n)
  <2>1. TAKE d \in Devices, n \in 0..Len(es)
  <2>2. \A i \in 1..n : es2[i] = es[i]
    BY <1>2
  <2>3. \A i \in 1..n : \A j \in (i + 1)..n : es2[j] = es[j]
    BY <2>2
  <2>4. QED  BY <2>2, <2>3 DEF After
<1>4. \A d \in Devices : After(l, es2, d, Len(es) + 1) <=>
        (e = Found(d) \/ (After(l, es, d, Len(es)) /\ e # Lost(d)))
  <2>1. Len(es) \in 0..Len(es)
    BY <1>2
  <2>2. \A d \in Devices : After(l, es2, d, Len(es) + 1) <=>
          (es2[Len(es) + 1] = Found(d) \/ (After(l, es2, d, Len(es)) /\ es2[Len(es) + 1] # Lost(d)))
    <3>. DEFINE k == Len(es)
    <3>1. k \in Nat
      BY <1>2
    <3>. HIDE DEF k
    <3>2. \A d \in Devices : After(l, es2, d, k + 1) <=>
            (es2[k + 1] = Found(d) \/ (After(l, es2, d, k) /\ es2[k + 1] # Lost(d)))
      BY <3>1, AfterNext
    <3>3. QED  BY <3>2 DEF k
  <2>3. \A d \in Devices : After(l, es2, d, Len(es)) <=> After(l, es, d, Len(es))
    BY <1>3, <2>1
  <2>4. QED  BY <1>2, <2>2, <2>3
<1>5. \A d \in Devices : After(l, es2, d, Len(es2)) <=> d \in ds2
  BY <1>2, <1>4 DEF Agree
<1>6. ASSUME NEW d \in Devices, NEW n \in 1..Len(es2), es2[n] = Notice(d)
      PROVE  ~After(l, es2, d, n)
  <2>1. CASE n \in 1..Len(es)
    <3>1. es[n] = Notice(d) /\ n \in 0..Len(es)
      BY <1>2, <1>6, <2>1
    <3>2. QED  BY <1>3, <2>1, <3>1 DEF Agree
  <2>2. CASE n = Len(es) + 1
    <3>1. e = Notice(d) /\ e # Found(d) /\ d \notin ds
      BY <1>2, <1>6, <2>2 DEF Notice, Found
    <3>2. ~After(l, es, d, Len(es))
      BY <3>1 DEF Agree
    <3>3. QED  BY <1>4, <2>2, <3>1, <3>2
  <2>3. QED  BY <1>2, <2>1, <2>2
<1>7. QED  BY <1>2, <1>5, <1>6 DEF Agree

\* The first event is run.
LEMMA AgreeDispatched ==
  ASSUME NEW l, NEW es \in Seq(Events), es # <<>>, NEW ds, NEW l2, NEW es2,
         es2 = Tail(es),
         Agree(l, es, ds),
         \A d \in Devices : d \in l2 <=> (Head(es) = Found(d) \/ (d \in l /\ Head(es) # Lost(d)))
  PROVE  Agree(l2, es2, ds)
<1>1. /\ Len(es2) = Len(es) - 1 /\ Head(es) = es[1] /\ Len(es) \in Nat \ {0}
      /\ \A i \in 1..Len(es2) : es2[i] = es[i + 1]
  OBVIOUS
<1>2. ASSUME NEW d \in Devices, NEW n \in 0..Len(es2)
      PROVE  After(l2, es2, d, n) <=> After(l, es, d, n + 1)
  <2>1. \A i \in 1..n : es2[i] = es[i + 1]
    BY <1>1
  <2>2. d \in l2 <=> (es[1] = Found(d) \/ (d \in l /\ es[1] # Lost(d)))
    BY <1>1
  <2>3. Found(d) # Lost(d)
    BY DEF Found, Lost
  <2>4. ASSUME After(l2, es2, d, n)
        PROVE  After(l, es, d, n + 1)
    <3>1. CASE d \in l2 /\ \A i \in 1..n : es2[i] # Lost(d)
      <4>1. \A j \in 2..(n + 1) : es[j] # Lost(d)
        <5>1. TAKE j \in 2..(n + 1)
        <5>2. j - 1 \in 1..n /\ (j - 1) + 1 = j
          OBVIOUS
        <5>3. QED  BY <2>1, <3>1, <5>2
      <4>2. CASE es[1] = Found(d)
        <5>1. 1 \in 1..(n + 1) /\ 1 + 1 = 2
          OBVIOUS
        <5>2. QED  BY <4>1, <4>2, <5>1 DEF After
      <4>3. CASE d \in l /\ es[1] # Lost(d)
        <5>1. \A j \in 1..(n + 1) : j = 1 \/ j \in 2..(n + 1)
          OBVIOUS
        <5>2. QED  BY <4>1, <4>3, <5>1 DEF After
      <4>4. QED  BY <2>2, <3>1, <4>2, <4>3
    <3>2. CASE \E i \in 1..n : es2[i] = Found(d) /\ \A j \in (i + 1)..n : es2[j] # Lost(d)
      <4>1. PICK i \in 1..n : es2[i] = Found(d) /\ \A j \in (i + 1)..n : es2[j] # Lost(d)
        BY <3>2
      <4>2. i + 1 \in 1..(n + 1) /\ es[i + 1] = Found(d)
        BY <2>1, <4>1
      <4>3. ASSUME NEW j \in ((i + 1) + 1)..(n + 1)
            PROVE  es[j] # Lost(d)
        <5>1. j - 1 \in (i + 1)..n /\ j - 1 \in 1..n /\ (j - 1) + 1 = j
          OBVIOUS
        <5>2. QED  BY <2>1, <4>1, <5>1
      <4>4. QED  BY <4>2, <4>3 DEF After
    <3>3. QED  BY <2>4, <3>1, <3>2 DEF After
  <2>5. ASSUME After(l, es, d, n + 1)
        PROVE  After(l2, es2, d, n)
    <3>1. CASE d \in l /\ \A i \in 1..(n + 1) : es[i] # Lost(d)
      <4>1. 1 \in 1..(n + 1) /\ \A i \in 1..n : i + 1 \in 1..(n + 1)
        OBVIOUS
      <4>2. QED  BY <2>1, <2>2, <3>1, <4>1 DEF After
    <3>2. CASE \E i \in 1..(n + 1) : es[i] = Found(d) /\ \A j \in (i + 1)..(n + 1) : es[j] # Lost(d)
      <4>1. PICK i \in 1..(n + 1) : es[i] = Found(d) /\ \A j \in (i + 1)..(n + 1) : es[j] # Lost(d)
        BY <3>2
      <4>2. CASE i = 1
        <5>1. \A k \in 1..n : k + 1 \in (1 + 1)..(n + 1)
          OBVIOUS
        <5>2. \A k \in 1..n : es2[k] # Lost(d)
          BY <2>1, <4>1, <4>2, <5>1
        <5>3. QED  BY <2>2, <4>1, <4>2, <5>2 DEF After
      <4>3. CASE i # 1
        <5>1. i - 1 \in 1..n /\ (i - 1) + 1 = i
          BY <4>3
        <5>2. es2[i - 1] = Found(d)
          BY <2>1, <4>1, <5>1
        <5>3. ASSUME NEW k \in ((i - 1) + 1)..n
              PROVE  es2[k] # Lost(d)
          <6>1. k \in 1..n /\ k + 1 \in (i + 1)..(n + 1)
            BY <5>1
          <6>2. QED  BY <2>1, <4>1, <6>1
        <5>4. QED  BY <5>1, <5>2, <5>3 DEF After
      <4>4. QED  BY <4>2, <4>3
    <3>3. QED  BY <2>5, <3>1, <3>2 DEF After
  <2>6. QED  BY <2>4, <2>5
<1>3. \A d \in Devices : After(l2, es2, d, Len(es2)) <=> d \in ds
  <2>1. Len(es2) \in 0..Len(es2) /\ Len(es2) + 1 = Len(es)
    BY <1>1
  <2>2. QED  BY <1>2, <2>1 DEF Agree
<1>4. ASSUME NEW d \in Devices, NEW n \in 1..Len(es2), es2[n] = Notice(d)
      PROVE  ~After(l2, es2, d, n)
  <2>1. n \in 0..Len(es2) /\ n + 1 \in 1..Len(es) /\ es[n + 1] = Notice(d)
    BY <1>1, <1>4
  <2>2. ~After(l, es, d, n + 1)
    BY <2>1 DEF Agree
  <2>3. QED  BY <1>2, <2>1, <2>2
<1>5. QED  BY <1>3, <1>4 DEF Agree

\* The io thread posts one event, or none, and the page keeps its list.
LEMMA ListsPosted ==
  ASSUME PageTypeOK, ListsAgree, UNCHANGED <<listed, selected>>,
         NEW e \in Events, Post(<<e>>),
         \A d \in Devices : d \in devices' <=> (e = Found(d) \/ (d \in devices /\ e # Lost(d))),
         \A d \in Devices : e = Notice(d) => d \notin devices
  PROVE  ListsAgree'
<1>1. events \in Seq(Events) /\ events' = events \o <<e>>
  BY DEF PageTypeOK, Post
<1>2. Agree(listed, events, devices)
  BY ListsAre
<1>3. Agree(listed, events', devices')
  BY <1>1, <1>2, AgreePosted
<1>4. Agree(listed', events', devices')
  BY <1>3
<1>5. QED  BY <1>4, ListsAre

LEMMA ListsFrame ==
  ASSUME ListsAgree, UNCHANGED <<listed, events, devices>>, selected' # None => selected' \in listed
  PROVE  ListsAgree'
<1>1. Agree(listed, events, devices)
  BY ListsAre
<1>2. Agree(listed', events', devices') /\ (selected' # None => selected' \in listed')
  BY <1>1
<1>3. QED  BY <1>2, ListsAre

LEMMA Kinds ==
  /\ \A x, y \in Devices : /\ Found(x) = Found(y) <=> x = y
                           /\ Lost(x) = Lost(y) <=> x = y
                           /\ Notice(x) = Notice(y) <=> x = y
                           /\ Found(x) # Lost(y) /\ Found(x) # Notice(y) /\ Lost(x) # Notice(y)
  /\ \A e \in Events, d \in Devices :
       e.kind \notin {"found", "lost", "notice"} => e # Found(d) /\ e # Lost(d) /\ e # Notice(d)
  /\ \A e \in Events : e.kind \in {"found", "lost", "notice"} => e.device \in Devices
  /\ \A e \in Events : e.kind = "found" => e = Found(e.device)
  /\ \A e \in Events : e.kind = "lost" => e = Lost(e.device)
  /\ \A e \in Events : e.kind = "notice" => e = Notice(e.device)
BY DEF Found, Lost, Notice, Events

LEMMA DispatchLists ==
  ASSUME PageTypeOK, ListsAgree, Dispatch
  PROVE  ListsAgree'
<1>. DEFINE e == Head(events)
<1>1. /\ events \in Seq(Events) /\ events # <<>> /\ events' = Tail(events) /\ devices' = devices
      /\ listed \subseteq Devices
  BY DEF Dispatch, ioVars, PageTypeOK
<1>2. e \in Events
  BY <1>1, Dispatched
<1>3. selected # None => selected \in listed
  BY ListsAre
<1>4. /\ \A d \in Devices : d \in listed' <=> (e = Found(d) \/ (d \in listed /\ e # Lost(d)))
      /\ selected' # None => selected' \in listed'
  <2>1. CASE e.kind = "found" /\ listed' = listed \cup {e.device} /\ UNCHANGED <<selected, files, sending>>
    <3>1. e = Found(e.device) /\ e.device \in Devices
      BY <1>2, <2>1, Kinds
    <3>. DEFINE x == e.device
    <3>. HIDE DEF e, x
    <3>2. \A d \in Devices : (e = Found(d) <=> d = x) /\ e # Lost(d)
      BY <3>1, Kinds DEF x
    <3>3. listed' = listed \cup {x} /\ selected' = selected
      BY <2>1 DEF x
    <3>4. QED  BY <1>3, <3>2, <3>3
  <2>2. CASE e.kind = "lost" /\ DeviceLost(e.device)
    <3>1. e = Lost(e.device) /\ e.device \in Devices
      BY <1>2, <2>2, Kinds
    <3>. DEFINE x == e.device
    <3>. HIDE DEF e, x
    <3>2. \A d \in Devices : (e = Lost(d) <=> d = x) /\ e # Found(d)
      BY <3>1, Kinds DEF x
    <3>3. listed' = listed \ {x} /\ selected' = IF selected = x THEN None ELSE selected
      BY <2>2 DEF x, DeviceLost
    <3>4. QED  BY <1>3, <3>2, <3>3
  <2>3. CASE e.kind = "dropped" /\ AddFiles(e.files) /\ UNCHANGED <<listed, selected, sending>>
    BY <1>2, <1>3, <2>3, Kinds
  <2>4. CASE e.kind = "transfer" /\ TransferReported(e)
    <3>1. UNCHANGED <<listed, selected>>
      BY <2>4 DEF TransferReported
    <3>2. QED  BY <1>2, <1>3, <2>4, <3>1, Kinds
  <2>5. CASE e.kind = "notice" /\ UNCHANGED <<listed, selected, files, sending>>
    <3>1. e = Notice(e.device) /\ e.device \in Devices
      BY <1>2, <2>5, Kinds
    <3>2. \A d \in Devices : e # Found(d) /\ e # Lost(d)
      BY <3>1, Kinds
    <3>3. QED  BY <1>3, <2>5, <3>2
  <2>6. QED  BY <2>1, <2>2, <2>3, <2>4, <2>5 DEF Dispatch
<1>5. Agree(listed, events, devices)
  BY ListsAre
<1>6. Agree(listed', events', devices)
  BY <1>1, <1>4, <1>5, AgreeDispatched
<1>7. Agree(listed', events', devices')
  BY <1>1, <1>6
<1>8. QED  BY <1>4, <1>7, ListsAre

\* The loss of a device, with what its connection had to report.
LEMMA OnPeerClosedLists ==
  ASSUME PageTypeOK, ListsAgree, NEW d \in Devices, OnPeerClosed(d)
  PROVE  ListsAgree'
<1>. DEFINE e == Transfer(FALSE, FALSE, TRUE)
            mid == events \o Unfinished(d)
<1>1. /\ events \in Seq(Events) /\ devices' = devices \ {d} /\ listed' = listed /\ selected' = selected
      /\ events' = events \o (Unfinished(d) \o LostIfListed(d))
  BY DEF OnPeerClosed, Post, PageTypeOK, pageVars
<1>2. e \in Events /\ Lost(d) \in Events
  BY NewEvents
<1>3. Unfinished(d) \in Seq(Events) /\ LostIfListed(d) \in Seq(Events)
  <2>1. Unfinished(d) = <<e>> \/ Unfinished(d) = <<>>
    BY DEF Unfinished
  <2>2. LostIfListed(d) = <<Lost(d)>> \/ LostIfListed(d) = <<>>
    BY DEF LostIfListed
  <2>. HIDE DEF e
  <2>3. <<e>> \in Seq(Events) /\ <<Lost(d)>> \in Seq(Events) /\ <<>> \in Seq(Events)
    BY <1>2
  <2>4. QED  BY <2>1, <2>2, <2>3
<1>4. events' = mid \o LostIfListed(d)
  BY <1>1, <1>3, ConcatAssociative, SMTT(30)
<1>5. Agree(listed, events, devices) /\ (selected # None => selected \in listed)
  BY ListsAre
<1>6. mid \in Seq(Events) /\ Agree(listed, mid, devices)
  <2>1. CASE link[d] = "busy"
    <3>1. mid = events \o <<e>>
      BY <2>1 DEF Unfinished
    <3>2. \A x \in Devices : e # Found(x) /\ e # Lost(x) /\ e # Notice(x)
      BY DEF Transfer, Found, Lost, Notice
    <3>. HIDE DEF e, mid
    <3>3. /\ \A x \in Devices : x \in devices <=> (e = Found(x) \/ (x \in devices /\ e # Lost(x)))
          /\ \A x \in Devices : e = Notice(x) => x \notin devices
      BY <3>2
    <3>4. QED  BY <1>1, <1>2, <1>5, <3>1, <3>3, AgreePosted
  <2>2. CASE link[d] # "busy"
    <3>1. Unfinished(d) = <<>>
      BY <2>2 DEF Unfinished
    <3>2. mid = events
      BY <1>1, <3>1, ConcatEmptySeq
    <3>. HIDE DEF mid
    <3>3. QED  BY <1>1, <1>5, <3>2
  <2>3. QED  BY <2>1, <2>2
<1>. HIDE DEF mid
<1>7. Agree(listed, events', devices')
  <2>1. CASE d \in devices
    <3>1. events' = mid \o <<Lost(d)>>
      BY <1>4, <2>1 DEF LostIfListed
    <3>2. \A x \in Devices : (Lost(d) = Lost(x) <=> x = d) /\ Lost(d) # Found(x) /\ Lost(d) # Notice(x)
      BY Kinds
    <3>3. \A x \in Devices : x \in devices' <=> (Lost(d) = Found(x) \/ (x \in devices /\ Lost(d) # Lost(x)))
      BY <1>1, <3>2
    <3>4. \A x \in Devices : Lost(d) = Notice(x) => x \notin devices
      BY <3>2
    <3>5. QED  BY <1>2, <1>6, <3>1, <3>3, <3>4, AgreePosted
  <2>2. CASE d \notin devices
    <3>1. LostIfListed(d) = <<>> /\ devices' = devices
      BY <1>1, <2>2 DEF LostIfListed
    <3>2. events' = mid
      BY <1>4, <1>6, <3>1, ConcatEmptySeq
    <3>3. QED  BY <1>6, <3>1, <3>2
  <2>3. QED  BY <2>1, <2>2
<1>8. Agree(listed', events', devices') /\ (selected' # None => selected' \in listed')
  BY <1>1, <1>5, <1>7
<1>9. QED  BY <1>8, ListsAre

\* What one handler posts and changes in m_devices, for the others.
LEMMA IoLists ==
  ASSUME PageTypeOK, ListsAgree,
         \/ \E d \in Devices, renamed \in BOOLEAN : OnMatch(d, renamed)
         \/ \E d \in Devices : TimerExpires(d)
         \/ \E d \in Devices, ok \in BOOLEAN : FileEnds(d, ok)
         \/ \E d \in Devices : ConnectionFails(d)
         \/ \E ok \in BOOLEAN : IncomingEnds(ok)
         \/ SendFiles
  PROVE  ListsAgree'
<1>1. listed' = listed /\ selected' = selected /\ events \in Seq(Events)
  BY DEF OnMatch, TimerExpires, FileEnds, ConnectionFails, IncomingEnds, SendFiles, pageVars, PageTypeOK
<1>2. selected # None => selected \in listed
  BY ListsAre
<1>3. ASSUME NEW e \in Events, e.kind \notin {"found", "lost", "notice"}, Post(<<e>>), devices' = devices
      PROVE  ListsAgree'
  <2>1. \A d \in Devices : e # Found(d) /\ e # Lost(d) /\ e # Notice(d)
    BY <1>3, Kinds
  <2>2. \A d \in Devices : d \in devices' <=> (e = Found(d) \/ (d \in devices /\ e # Lost(d)))
    BY <1>3, <2>1
  <2>3. \A d \in Devices : e = Notice(d) => d \notin devices
    BY <2>1
  <2>4. QED  BY <1>1, <1>3, <2>2, <2>3, ListsPosted
<1>4. ASSUME Post(<<>>) \/ events' = events, devices' = devices
      PROVE  ListsAgree'
  BY <1>1, <1>2, <1>4, PostedNone, ListsFrame
<1>5. ASSUME NEW incoming \in BOOLEAN, NEW ok \in BOOLEAN, NEW end \in BOOLEAN
      PROVE  /\ Transfer(incoming, ok, end) \in Events
             /\ Transfer(incoming, ok, end).kind \notin {"found", "lost", "notice"}
  BY NewEvents DEF Transfer
<1>6. ASSUME NEW d \in Devices, NEW renamed \in BOOLEAN, OnMatch(d, renamed)
      PROVE  ListsAgree'
  <2>1. CASE Post(<<Found(d)>>)
    <3>1. Found(d) \in Events /\ devices' = devices \cup {d}
      BY <1>6, NewEvents DEF OnMatch
    <3>2. \A x \in Devices : (Found(d) = Found(x) <=> x = d) /\ Found(d) # Lost(x) /\ Found(d) # Notice(x)
      BY Kinds
    <3>3. \A x \in Devices : x \in devices' <=> (Found(d) = Found(x) \/ (x \in devices /\ Found(d) # Lost(x)))
      BY <3>1, <3>2
    <3>4. \A x \in Devices : Found(d) = Notice(x) => x \notin devices
      BY <3>2
    <3>5. QED  BY <1>1, <2>1, <3>1, <3>3, <3>4, ListsPosted
  <2>2. CASE d \in devices /\ Post(<<>>)
    <3>1. devices' = devices
      BY <1>6, <2>2 DEF OnMatch
    <3>2. QED  BY <1>4, <2>2, <3>1
  <2>3. QED  BY <1>6, <2>1, <2>2 DEF OnMatch
<1>7. ASSUME NEW d \in Devices, TimerExpires(d)
      PROVE  ListsAgree'
  <2>1. Notice(d) \in Events /\ Post(<<Notice(d)>>) /\ devices' = devices /\ d \notin devices
    BY <1>7, NewEvents DEF TimerExpires, ioVars
  <2>2. \A x \in Devices : (Notice(d) = Notice(x) <=> x = d) /\ Notice(d) # Lost(x) /\ Notice(d) # Found(x)
    BY Kinds
  <2>3. \A x \in Devices : x \in devices' <=> (Notice(d) = Found(x) \/ (x \in devices /\ Notice(d) # Lost(x)))
    BY <2>1, <2>2
  <2>4. \A x \in Devices : Notice(d) = Notice(x) => x \notin devices
    BY <2>1, <2>2
  <2>5. QED  BY <1>1, <2>1, <2>3, <2>4, ListsPosted
<1>8. ASSUME NEW d \in Devices, NEW ok \in BOOLEAN, FileEnds(d, ok)
      PROVE  ListsAgree'
  <2>1. Post(<<Transfer(FALSE, ok, left[d] = 1)>>) /\ devices' = devices
    BY <1>8 DEF FileEnds
  <2>2. (left[d] = 1) \in BOOLEAN
    OBVIOUS
  <2>3. QED  BY <1>3, <1>5, <2>1, <2>2
<1>9. ASSUME NEW d \in Devices, ConnectionFails(d)
      PROVE  ListsAgree'
  <2>1. Post(<<Transfer(FALSE, FALSE, TRUE)>>) \/ Post(<<>>)
    BY <1>9 DEF ConnectionFails, Unfinished
  <2>2. devices' = devices
    BY <1>9 DEF ConnectionFails
  <2>3. QED  BY <1>3, <1>4, <1>5, <2>1, <2>2
<1>10. ASSUME NEW ok \in BOOLEAN, IncomingEnds(ok)
       PROVE  ListsAgree'
  <2>1. Post(<<Transfer(TRUE, ok, TRUE)>>) /\ devices' = devices
    BY <1>10 DEF IncomingEnds, ioVars
  <2>2. QED  BY <1>3, <1>5, <2>1
<1>11. ASSUME SendFiles
       PROVE  ListsAgree'
  <2>1. devices' = devices /\ (Post(<<Transfer(FALSE, FALSE, TRUE)>>) \/ events' = events)
    BY <1>11 DEF SendFiles, RefuseBatch
  <2>2. QED  BY <1>3, <1>4, <1>5, <2>1
<1>12. QED  BY <1>6, <1>7, <1>8, <1>9, <1>10, <1>11

LEMMA UserLists ==
  ASSUME PageTypeOK, ListsAgree,
         \/ \E d \in Devices : SelectDevice(d)
         \/ ClosePanel
         \/ PickFiles
         \/ \E fs \in SUBSET Paths : FilesPicked(fs)
         \/ StartTransfer
         \/ \E d \in Devices : Ready(d)
         \/ UNCHANGED vars
  PROVE  ListsAgree'
<1>1. selected # None => selected \in listed
  BY ListsAre
<1>2. UNCHANGED <<listed, events, devices>>
  BY DEF SelectDevice, ClosePanel, PickFiles, FilesPicked, StartTransfer, Ready, vars, ioVars, pageVars
<1>3. selected' # None => selected' \in listed
  BY <1>1 DEF SelectDevice, ClosePanel, PickFiles, FilesPicked, StartTransfer, Ready, vars, pageVars
<1>4. QED  BY <1>2, <1>3, ListsFrame

LEMMA DropFilesLists ==
  ASSUME PageTypeOK, ListsAgree, NEW fs \in SUBSET Paths, DropFiles(fs)
  PROVE  ListsAgree'
<1>1. /\ events \in Seq(Events) /\ Dropped(fs) \in Events
      /\ listed' = listed /\ selected' = selected /\ devices' = devices
  BY NewEvents DEF PageTypeOK, DropFiles, pageVars, ioVars
<1>2. \A d \in Devices : Dropped(fs) # Found(d) /\ Dropped(fs) # Lost(d) /\ Dropped(fs) # Notice(d)
  BY DEF Dropped, Found, Lost, Notice
<1>3. events' = events \o <<Dropped(fs)>>
  BY <1>1, AppendIsConcat DEF DropFiles
<1>4. Agree(listed, events, devices) /\ (selected # None => selected \in listed)
  BY ListsAre
<1>5. /\ \A d \in Devices : d \in devices <=> (Dropped(fs) = Found(d) \/ (d \in devices /\ Dropped(fs) # Lost(d)))
      /\ \A d \in Devices : Dropped(fs) = Notice(d) => d \notin devices
  BY <1>2
<1>6. Agree(listed, events', devices)
  BY <1>1, <1>3, <1>4, <1>5, AgreePosted
<1>7. Agree(listed', events', devices') /\ (selected' # None => selected' \in listed')
  BY <1>1, <1>4, <1>6
<1>8. QED  BY <1>7, ListsAre

-----------------------------------------------------------------------------
\* The theorems.

Inv == Locked /\ PanelShowsTarget /\ ListsAgree

LEMMA InvInit ==
  ASSUME PageAssumption, Init
  PROVE  Inv
<1>1. Cardinality(Paths) \in Nat /\ MaxEvents \in Nat
  BY FS_CardinalityType DEF PageAssumption
<1>2. /\ listed = {} /\ selected = None /\ files = {} /\ sending = FALSE /\ picking = FALSE
      /\ target = None /\ calls = <<>> /\ events = <<>> /\ devices = {}
      /\ link = [d \in Devices |-> "none"] /\ left = [d \in Devices |-> 0]
  BY DEF Init
<1>3. PageTypeOK
  <2>1. /\ listed \in SUBSET Devices /\ selected \in Devices \cup {None} /\ files \in SUBSET Paths
        /\ sending \in BOOLEAN /\ picking \in BOOLEAN /\ target \in Devices \cup {None}
        /\ devices \in SUBSET Devices
    BY DEF Init
  <2>2. calls \in Seq([device : Devices, files : (SUBSET Paths) \ {{}}]) /\ events \in Seq(Events)
    BY <1>2
  <2>3. Len(events) <= MaxEvents
    BY <1>1, <1>2
  <2>4. link \in [Devices -> {"none", "offline", "idle", "busy"}]
    BY <1>2
  <2>5. left \in [Devices -> 0..Cardinality(Paths)]
    BY <1>1, <1>2
  <2>6. QED  BY <2>1, <2>2, <2>3, <2>4, <2>5 DEF PageTypeOK
<1>4. LeftWhileBusy
  BY <1>2 DEF LeftWhileBusy
<1>5. Len(events) = 0 /\ Busy = {} /\ Ends = {}
  BY <1>2 DEF Busy, Ends
<1>6. LockedByOneBatch
  BY <1>2, <1>5 DEF LockedByOneBatch
<1>7. PanelShowsTarget
  BY <1>2 DEF PanelShowsTarget
<1>8. Agree(listed, events, devices)
  BY <1>2, <1>5 DEF Agree, After
<1>9. ListsAgree
  BY <1>2, <1>8, ListsAre
<1>10. QED  BY <1>3, <1>4, <1>6, <1>7, <1>9 DEF Inv, Locked

LEMMA LockedNext ==
  ASSUME PageAssumption, Locked, [Next]_vars
  PROVE  Locked'
<1>1. CASE UNCHANGED vars
  <2>1. /\ sending' = sending /\ calls' = calls /\ events' = events /\ link' = link /\ left' = left
        /\ UNCHANGED <<listed, selected, files, picking, target, devices>>
    BY <1>1 DEF vars
  <2>2. PageTypeOK' /\ LeftWhileBusy'
    BY <2>1 DEF Locked, PageTypeOK, LeftWhileBusy
  <2>3. LockedByOneBatch'
    BY <2>1, LockFrame DEF Locked, Busy, Ends
  <2>4. QED  BY <2>2, <2>3 DEF Locked
<1>2. QED
  BY <1>1, UserStep, DropFilesStep, StartTransferStep, DispatchStep, SendFilesStep, FileEndsStep,
     ConnectionFailsStep, OnMatchStep, ReadyStep, OnPeerClosedStep, PostingStep DEF Next

LEMMA PanelNext ==
  ASSUME PageAssumption, PageTypeOK, PanelShowsTarget, [Next]_vars
  PROVE  PanelShowsTarget'
<1>1. CASE UNCHANGED <<selected, sending, target>>
  BY <1>1 DEF PanelShowsTarget
<1>2. CASE ClosePanel \/ \E d \in Devices : SelectDevice(d)
  BY <1>2 DEF ClosePanel, SelectDevice, PanelShowsTarget
<1>3. CASE StartTransfer
  BY <1>3 DEF StartTransfer, PanelShowsTarget
<1>4. CASE Dispatch
  <2>1. target' = target
    BY <1>4 DEF Dispatch
  <2>2. sending' => sending
    BY <1>4, Zenon DEF Dispatch, DeviceLost, TransferReported
  <2>3. selected' = selected \/ selected' = None
    BY <1>4 DEF Dispatch, DeviceLost, TransferReported
  <2>4. QED  BY <2>1, <2>2, <2>3 DEF PanelShowsTarget
<1>5. QED
  BY <1>1, <1>2, <1>3, <1>4 DEF Next, PickFiles, FilesPicked, DropFiles, SendFiles, FileEnds,
     ConnectionFails, OnMatch, Ready, OnPeerClosed, TimerExpires, IncomingEnds, pageVars, vars

LEMMA ListsNext ==
  ASSUME PageTypeOK, ListsAgree, [Next]_vars
  PROVE  ListsAgree'
BY IoLists, UserLists, DropFilesLists, DispatchLists, OnPeerClosedLists DEF Next

LEMMA InvNext ==
  ASSUME PageAssumption, Inv, [Next]_vars
  PROVE  Inv'
BY LockedNext, PanelNext, ListsNext DEF Inv, Locked

\* The types: above all, a connection never counts down its files below zero, nor
\* has more of them than the user has.
THEOREM PageTypeCorrect == Spec => []PageTypeOK
<1>1. Inv => PageTypeOK
  BY DEF Inv, Locked
<1>2. QED  BY <1>1, InvInit, InvNext, PageAssumption, PTL DEF Spec

\* For any number of devices and files, the send button is locked exactly while one
\* call, one busy connection or one end of batch on its way will unlock it.
THEOREM ButtonLocked == Spec => []LockedByOneBatch
<1>1. Inv => LockedByOneBatch
  BY DEF Inv, Locked
<1>2. QED  BY <1>1, InvInit, InvNext, PageAssumption, PTL DEF Spec

\* For any number of devices, the panel never shows another device than the one
\* that files are being sent to.
THEOREM PanelStays == Spec => []PanelShowsTarget
<1>1. Inv => PanelShowsTarget
  BY DEF Inv
<1>2. QED  BY <1>1, InvInit, InvNext, PageAssumption, PTL DEF Spec

\* For any number of devices and any queue of events, the page's list is the
\* controller's once the queue has been worked off, and no notice contradicts it.
THEOREM ListsFollow == Spec => []ListsAgree
<1>1. Inv => ListsAgree
  BY DEF Inv
<1>2. QED  BY <1>1, InvInit, InvNext, PageAssumption, PTL DEF Spec
=============================================================================
