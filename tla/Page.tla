--------------------------------- MODULE Page ---------------------------------
(***************************************************************************)
(* The page (ArayuzHtml.h), the bridge (UiBridge.cpp) and the controller   *)
(* (AppController.cpp) of one device: two threads and two queues.  What    *)
(* the user does becomes calls that the io thread works off later, and     *)
(* what happens on the io thread becomes events that the page works off    *)
(* later, so that each side acts on what the other was a while ago.        *)
(*                                                                         *)
(* A connection is what TransferContract leaves of it: it takes a batch,   *)
(* reports its files one by one, and says which report is the last.        *)
(***************************************************************************)
EXTENDS Integers, Sequences, FiniteSets

CONSTANTS
  Devices,     \* the other devices
  Paths,       \* the files the user has
  None,        \* no device
  MaxEvents    \* bound: events waiting for the page

ASSUME PageAssumption ==
  /\ None \notin Devices
  /\ IsFiniteSet(Paths)
  /\ MaxEvents \in Nat

VARIABLES
  listed,     \* state.devices
  selected,   \* state.selected
  files,      \* state.files
  sending,    \* state.sending
  picking,    \* the file dialog has been opened and not answered
  target,     \* history: the device of the last batch
  calls,      \* posted to the io thread and not run yet: sendFiles
  events,     \* posted to the page and not run yet
  devices,    \* m_devices
  link,       \* m_clients and their state: "none", "offline", "idle" or "busy"
  left        \* for each busy link, the files whose end is still to be reported

pageVars == <<listed, selected, files, sending, picking, target>>
ioVars == <<devices, link, left>>
vars == <<listed, selected, files, sending, picking, target, calls, events,
          devices, link, left>>

Found(d) == [kind |-> "found", device |-> d]
Lost(d) == [kind |-> "lost", device |-> d]
Dropped(fs) == [kind |-> "dropped", files |-> fs]
Notice(d) == [kind |-> "notice", device |-> d]
Transfer(incoming, ok, end) ==
  [kind |-> "transfer", incoming |-> incoming, ok |-> ok, end |-> end]

Init ==
  /\ listed = {} /\ selected = None /\ files = {} /\ sending = FALSE
  /\ picking = FALSE /\ target = None
  /\ calls = <<>> /\ events = <<>>
  /\ devices = {} /\ link = [d \in Devices |-> "none"] /\ left = [d \in Devices |-> 0]

-----------------------------------------------------------------------------
\* What the user does on the page.

\* MUTANT: the device can be changed while files are being sent.
SelectAnyTime(d) ==
  /\ d \in listed
  /\ selected' = d
  /\ files' = {}
  /\ UNCHANGED <<listed, sending, picking, target, calls, events>>
  /\ UNCHANGED ioVars

SelectDevice(d) ==
  /\ d \in listed
  /\ ~sending
  /\ selected' = d
  /\ files' = {}
  /\ UNCHANGED <<listed, sending, picking, target, calls, events>>
  /\ UNCHANGED ioVars

\* The panel's close button; the list of files stays as it is.
ClosePanel ==
  /\ ~sending
  /\ selected' = None
  /\ UNCHANGED <<listed, files, sending, picking, target, calls, events>>
  /\ UNCHANGED ioVars

\* dosyaSec(), up to the dialog.
PickFiles ==
  /\ ~sending /\ ~picking
  /\ picking' = TRUE
  /\ UNCHANGED <<listed, selected, files, sending, target, calls, events>>
  /\ UNCHANGED ioVars

\* dosyaEkle()
AddFiles(fs) == files' = IF selected = None THEN files ELSE files \cup fs

\* dosyaSec(), after the dialog: whatever has happened since.
FilesPicked(fs) ==
  /\ picking
  /\ picking' = FALSE
  /\ AddFiles(fs)
  /\ UNCHANGED <<listed, selected, sending, target, calls, events>>
  /\ UNCHANGED ioVars

\* Files dropped on the page come back through the bridge, as an event.
DropFiles(fs) ==
  /\ selected # None /\ ~sending
  /\ Len(events) < MaxEvents
  /\ events' = Append(events, Dropped(fs))
  /\ UNCHANGED pageVars
  /\ UNCHANGED ioVars
  /\ UNCHANGED calls

\* transferBaslat()
StartTransfer ==
  /\ selected # None /\ ~sending /\ files # {}
  /\ sending' = TRUE
  /\ target' = selected
  /\ calls' = Append(calls, [device |-> selected, files |-> files])
  /\ UNCHANGED <<listed, selected, files, picking, events>>
  /\ UNCHANGED ioVars

-----------------------------------------------------------------------------
\* The page's handlers of events.

\* cihazKayboldu()
DeviceLost(d) ==
  /\ listed' = listed \ {d}
  /\ selected' = IF selected = d THEN None ELSE selected
  /\ UNCHANGED <<files, sending>>

\* The end of a batch: incoming files have an end of their own.
BatchEnd(e) == e.end /\ ~e.incoming

\* MUTANT: the end of an incoming file is taken for the end of the batch.
AnyEndReported(e) ==
  /\ sending' = (sending /\ ~e.end)
  /\ files' = IF e.end /\ e.ok THEN {} ELSE files
  /\ UNCHANGED <<listed, selected>>

\* transferDurumu(): whatever device it is about, which the event need not say.
TransferReported(e) ==
  /\ sending' = (sending /\ ~BatchEnd(e))
  /\ files' = IF BatchEnd(e) /\ e.ok THEN {} ELSE files
  /\ UNCHANGED <<listed, selected>>

\* The page runs the next event.
Dispatch ==
  /\ events # <<>>
  /\ events' = Tail(events)
  /\ LET e == Head(events) IN
     \/ e.kind = "found" /\ listed' = listed \cup {e.device} /\ UNCHANGED <<selected, files, sending>>
     \/ e.kind = "lost" /\ DeviceLost(e.device)
     \/ e.kind = "dropped" /\ AddFiles(e.files) /\ UNCHANGED <<listed, selected, sending>>
     \/ e.kind = "transfer" /\ TransferReported(e)
     \/ e.kind = "notice" /\ UNCHANGED <<listed, selected, files, sending>>
  /\ UNCHANGED <<picking, target, calls>>
  /\ UNCHANGED ioVars

-----------------------------------------------------------------------------
\* The io thread.

\* Events are posted to the page.
Post(new) ==
  /\ Len(events) + Len(new) <= MaxEvents
  /\ events' = events \o new

\* MUTANT: files for a device without connection are forgotten.
RefuseQuietly(d) == UNCHANGED events

\* Not connected: one report for the whole batch.
RefuseBatch(d) == Post(<<Transfer(FALSE, FALSE, TRUE)>>)

\* sendFiles()
SendFiles ==
  /\ calls # <<>>
  /\ calls' = Tail(calls)
  /\ LET d == Head(calls).device  n == Cardinality(Head(calls).files) IN
     \/ link[d] \in {"none", "offline"} /\ RefuseBatch(d) /\ UNCHANGED <<link, left>>
     \/ /\ link[d] \in {"idle", "busy"}
        /\ link' = [link EXCEPT ![d] = "busy"]
        /\ left' = [left EXCEPT ![d] = @ + n]
        /\ UNCHANGED events
  /\ UNCHANGED pageVars
  /\ UNCHANGED devices

\* A file of the batch ends; the connection goes on with the next.
FileEnds(d, ok) ==
  /\ link[d] = "busy"
  /\ Post(<<Transfer(FALSE, ok, left[d] = 1)>>)
  /\ left' = [left EXCEPT ![d] = @ - 1]
  /\ link' = [link EXCEPT ![d] = IF left[d] = 1 THEN "idle" ELSE "busy"]
  /\ UNCHANGED pageVars
  /\ UNCHANGED <<calls, devices>>

\* What a connection that closes has to report.
Unfinished(d) == IF link[d] = "busy" THEN <<Transfer(FALSE, FALSE, TRUE)>> ELSE <<>>

\* A write fails: the connection closes and stays in the table.
ConnectionFails(d) ==
  /\ link[d] \in {"idle", "busy"}
  /\ Post(Unfinished(d))
  /\ link' = [link EXCEPT ![d] = "offline"]
  /\ left' = [left EXCEPT ![d] = 0]
  /\ UNCHANGED pageVars
  /\ UNCHANGED <<calls, devices>>

\* onMatch(): a device not listed yet, or under a new name, is reported; one
\* without connection is connected to.
OnMatch(d, renamed) ==
  /\ Post(IF d \notin devices \/ renamed THEN <<Found(d)>> ELSE <<>>)
  /\ devices' = devices \cup {d}
  /\ link' = [link EXCEPT ![d] = IF @ = "none" THEN "offline" ELSE @]
  /\ UNCHANGED pageVars
  /\ UNCHANGED <<calls, left>>

\* Both sockets of the connection are connected.
Ready(d) ==
  /\ link[d] = "offline"
  /\ link' = [link EXCEPT ![d] = "idle"]
  /\ UNCHANGED pageVars
  /\ UNCHANGED <<calls, events, devices, left>>

\* MUTANT: nobody is told that the device is gone.
NobodyTold(d) == <<>>

\* The device is reported as lost if it was listed.
LostIfListed(d) == IF d \in devices THEN <<Lost(d)>> ELSE <<>>

\* onPeerClosed(): the connection closes, with its report, before the device is
\* reported as lost.
OnPeerClosed(d) ==
  /\ Post(Unfinished(d) \o LostIfListed(d))
  /\ devices' = devices \ {d}
  /\ link' = [link EXCEPT ![d] = "none"]
  /\ left' = [left EXCEPT ![d] = 0]
  /\ UNCHANGED pageVars
  /\ UNCHANGED calls

\* The timer of addDevice(), which the user may have called for any device five
\* seconds ago: he is told that the device did not answer unless it is listed.
TimerExpires(d) ==
  /\ d \notin devices
  /\ Post(<<Notice(d)>>)
  /\ UNCHANGED pageVars
  /\ UNCHANGED ioVars
  /\ UNCHANGED calls

\* The end of a file that comes in (PeerConnection), batchEnd as it sets it.
IncomingEnds(ok) ==
  /\ Post(<<Transfer(TRUE, ok, TRUE)>>)
  /\ UNCHANGED pageVars
  /\ UNCHANGED ioVars
  /\ UNCHANGED calls

-----------------------------------------------------------------------------
Next ==
  \/ \E d \in Devices : SelectDevice(d)
  \/ ClosePanel
  \/ PickFiles
  \/ \E fs \in SUBSET Paths : FilesPicked(fs)
  \/ \E fs \in (SUBSET Paths) \ {{}} : DropFiles(fs)
  \/ StartTransfer
  \/ Dispatch
  \/ SendFiles
  \/ \E d \in Devices, ok \in BOOLEAN : FileEnds(d, ok)
  \/ \E d \in Devices : ConnectionFails(d)
  \/ \E d \in Devices, renamed \in BOOLEAN : OnMatch(d, renamed)
  \/ \E d \in Devices : Ready(d)
  \/ \E d \in Devices : OnPeerClosed(d)
  \/ \E d \in Devices : TimerExpires(d)
  \/ \E ok \in BOOLEAN : IncomingEnds(ok)

Spec == Init /\ [][Next]_vars

\* Both threads work off their queues, and a batch comes to its end: the other
\* device answers, or the connection closes.
Fairness ==
  /\ WF_vars(Dispatch)
  /\ SF_vars(SendFiles)
  /\ \A d \in Devices : SF_vars(\E ok \in BOOLEAN : FileEnds(d, ok))

FairSpec == Spec /\ Fairness

-----------------------------------------------------------------------------
Events ==
  [kind : {"found", "lost", "notice"}, device : Devices]
  \cup [kind : {"dropped"}, files : SUBSET Paths]
  \cup [kind : {"transfer"}, incoming : BOOLEAN, ok : BOOLEAN, end : BOOLEAN]

\* The type invariant.
PageTypeOK ==
  /\ listed \in SUBSET Devices /\ selected \in Devices \cup {None} /\ files \in SUBSET Paths
  /\ sending \in BOOLEAN /\ picking \in BOOLEAN /\ target \in Devices \cup {None}
  /\ calls \in Seq([device : Devices, files : (SUBSET Paths) \ {{}}])
  /\ events \in Seq(Events) /\ Len(events) <= MaxEvents
  /\ devices \in SUBSET Devices
  /\ link \in [Devices -> {"none", "offline", "idle", "busy"}]
  /\ left \in [Devices -> 0..Cardinality(Paths)]

\* The send button is locked if and only if exactly one thing will unlock it: a
\* call the io thread has not run, a busy connection, or an end of batch the page
\* has not run.  Otherwise it would stay locked for ever, or a second batch could
\* be started while the first is under way.
Busy == {d \in Devices : link[d] = "busy"}
IsEnd(e) == e.kind = "transfer" /\ BatchEnd(e)
Ends == {i \in 1..Len(events) : IsEnd(events[i])}

LockedByOneBatch ==
  /\ sending <=> (calls # <<>> \/ Busy # {} \/ Ends # {})
  /\ calls # <<>> => Len(calls) = 1 /\ Busy = {} /\ Ends = {}
  /\ Busy # {} => Ends = {}
  /\ \A d, e \in Busy : d = e
  /\ \A i, j \in Ends : i = j

\* While a batch is sent the panel shows its device or, once that is lost, none:
\* its progress and its end are never shown, nor its files replaced, under
\* another one.
PanelShowsTarget == sending => selected \in {target, None}

\* The page lists d once it has run the first n of its events.
Listed(d, n) ==
  \/ d \in listed /\ \A i \in 1..n : events[i] # Lost(d)
  \/ \E i \in 1..n : events[i] = Found(d) /\ \A j \in (i + 1)..n : events[j] # Lost(d)

\* The panel is open only for a listed device, and the page's list is the
\* controller's of a while ago: once all events have been run they are equal.
\* When the user is told that a device did not answer, it is not on the page.
ListsAgree ==
  /\ selected # None => selected \in listed
  /\ \A d \in Devices : Listed(d, Len(events)) <=> d \in devices
  /\ \A d \in Devices, n \in 1..Len(events) : events[n] = Notice(d) => ~Listed(d, n)

\* The send button is unlocked in the end.
UnlockedEventually == sending ~> ~sending
=============================================================================
