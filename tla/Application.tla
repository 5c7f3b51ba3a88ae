----------------------------- MODULE Application ------------------------------
(***************************************************************************)
(* The life of one program: WinMain (main.cpp), the bridge's constructor,  *)
(* message loop and destructor (UiBridge.cpp), start() and stop() of the   *)
(* controller (AppController.cpp), the window and the log (Logger.h), on   *)
(* the UI thread and the io thread.                                        *)
(*                                                                         *)
(* What the handlers of the io thread are for is left to the other         *)
(* modules; here they fill tables, post events, write to the log, and may  *)
(* end the thread with an exception.                                       *)
(***************************************************************************)
EXTENDS Window, Sequences

CONSTANTS
  Relock,    \* what locking a mutex again does to its holder: "hangs", "enters"
  MaxEvents  \* bound: events waiting for the page

ASSUME ApplicationAssumption == Relock \subseteq {"hangs", "enters"} /\ MaxEvents \in Nat

VARIABLES
  opened,   \* Logger::m_isInitialized
  hung,     \* the threads that wait for the log for ever
  ui,       \* where the UI thread is
  web,      \* m_web and its page: "none", "up" or "destroyed"
  big,      \* the page takes the window for maximized
  events,   \* posted to the page and not run yet: sizes and "net"
  closing,  \* WM_CLOSE has been posted
  told,     \* the message boxes the user has been shown
  bound,    \* the ports that are open
  running,  \* m_running
  stopped,  \* m_io.stop() has been called
  io,       \* where the io thread is
  tables    \* something is in m_devices or m_clients

logVars == <<opened, hung>>
pageVars == <<web, big, events>>
netVars == <<bound, running, stopped, io, tables>>
vars == <<opened, hung, ui, window, child, web, big, events, closing, told,
          bound, running, stopped, io, tables>>

Threads == {"ui", "io"}
Ports == {"main", "file", "discovery"}

Init ==
  /\ opened = FALSE /\ hung = {}
  /\ ui = "start"
  /\ window = "none" /\ child = FitChild("hidden")
  /\ web = "none" /\ big = FALSE /\ events = <<>>
  /\ closing = FALSE /\ told = {}
  /\ bound = {} /\ running = FALSE /\ stopped = FALSE /\ io = "none" /\ tables = FALSE

-----------------------------------------------------------------------------
\* The log.

\* MUTANT: writeLog() calls init() every time.
InitEveryTime == TRUE

\* writeLog() calls init(): the file could not be opened before.
NeedsInit == ~opened

\* LOG() in thread t: init(), called with the mutex held, locks it again.  A thread
\* that hangs keeps the mutex, so that any other hangs as well.
Logs(t) ==
  \/ /\ ~NeedsInit /\ hung = {}
     /\ UNCHANGED logVars
  \/ /\ NeedsInit /\ hung = {} /\ "enters" \in Relock
     /\ opened' \in BOOLEAN
     /\ UNCHANGED hung
  \/ /\ hung # {} \/ (NeedsInit /\ "hangs" \in Relock)
     /\ hung' = hung \cup {t}
     /\ UNCHANGED opened

\* The UI thread is at `place` and not hanging.
At(place) == ui = place /\ "ui" \notin hung

-----------------------------------------------------------------------------
\* Start-up.

\* Logger::init(), the first thing WinMain does.
InitLog ==
  /\ At("start")
  /\ opened' \in BOOLEAN
  /\ ui' = "construct"
  /\ UNCHANGED <<hung, closing, told>>
  /\ UNCHANGED windowVars /\ UNCHANGED pageVars /\ UNCHANGED netVars

\* The discovery socket cannot be opened: a line in the log, and on.
SocketFails ==
  /\ At("construct")
  /\ Logs("ui")
  /\ UNCHANGED <<ui, closing, told>>
  /\ UNCHANGED windowVars /\ UNCHANGED pageVars /\ UNCHANGED netVars

\* Controller, window and bridge have been made, the page is being loaded.
Construct ==
  /\ At("construct")
  /\ ui' = "loop"
  /\ Sized("hidden")
  /\ web' = "up"
  /\ UNCHANGED <<big, events, closing, told>>
  /\ UNCHANGED logVars /\ UNCHANGED netVars

\* One of them cannot be made; the others are destroyed again.
ConstructFails ==
  /\ At("construct")
  /\ ui' = "fatal"
  /\ UNCHANGED <<closing, told>>
  /\ UNCHANGED logVars /\ UNCHANGED windowVars /\ UNCHANGED pageVars /\ UNCHANGED netVars

\* WinMain's handler: the log, a message box, the end.
Fatal ==
  /\ At("fatal")
  /\ Logs("ui")
  /\ IF "ui" \in hung' THEN UNCHANGED <<ui, told>>
                       ELSE ui' = "ended" /\ told' = told \cup {"program"}
  /\ UNCHANGED closing
  /\ UNCHANGED windowVars /\ UNCHANGED pageVars /\ UNCHANGED netVars

-----------------------------------------------------------------------------
\* The message loop.

Post(new) ==
  /\ Len(events) + Len(new) <= MaxEvents
  /\ events' = events \o new

\* MUTANT: only maximizing is reported.
ReportMaximized(state) == IF state = "maximized" THEN <<state>> ELSE <<>>

\* MUTANT: minimizing is reported, too.
ReportAll(state) == IF state = "hidden" THEN <<>> ELSE <<state>>

\* WM_SIZE reports that the window has been maximized, or is its normal size.
Reported(state) == IF state \in {"normal", "maximized"} THEN <<state>> ELSE <<>>

\* WM_SIZE
Resize(state) == Sized(state) /\ Post(Reported(state))

\* uygulamaHazir, once the page has drawn its first frame: the window is shown,
\* and start() begins.
PageReady ==
  /\ At("loop") /\ window = "hidden"
  /\ \E state \in {"normal", "maximized"} : Resize(state)
  /\ ui' = "starting"
  /\ UNCHANGED <<web, big, closing, told>>
  /\ UNCHANGED logVars /\ UNCHANGED netVars

\* The user, or Windows, gives the window another state.
ChangeState(state) ==
  /\ At("loop") /\ window \in {"normal", "maximized", "minimized"} \ {state}
  /\ Resize(state)
  /\ UNCHANGED <<ui, web, big, closing, told>>
  /\ UNCHANGED logVars /\ UNCHANGED netVars

\* start(): the three ports are opened,
OpenPorts ==
  /\ At("starting") /\ ~running
  /\ bound' = Ports
  /\ ui' = "bound"
  /\ UNCHANGED <<running, stopped, io, tables, closing, told>>
  /\ UNCHANGED logVars /\ UNCHANGED windowVars /\ UNCHANGED pageVars

\* the device's own addresses are listed, with a line in the log if they cannot be,
CollectLocalIps ==
  /\ At("bound")
  /\ UNCHANGED logVars \/ Logs("ui")
  /\ ui' = "listed"
  /\ UNCHANGED <<closing, told>>
  /\ UNCHANGED windowVars /\ UNCHANGED pageVars /\ UNCHANGED netVars

\* and the io thread begins to run.
Start ==
  /\ At("listed")
  /\ io' = "idle"
  /\ running' = TRUE
  /\ ui' = "started"
  /\ UNCHANGED <<bound, stopped, tables, closing, told>>
  /\ UNCHANGED logVars /\ UNCHANGED windowVars /\ UNCHANGED pageVars

\* The last line of start().
StartLogged ==
  /\ At("started")
  /\ Logs("ui")
  /\ ui' = "loop"
  /\ UNCHANGED <<closing, told>>
  /\ UNCHANGED windowVars /\ UNCHANGED pageVars /\ UNCHANGED netVars

\* start() throws.  Both acceptors are made together, so that neither port stays
\* open if one of them is in use; if it is the third, the first two stay.  All stay
\* if the host has no name to look up, or the thread cannot be made.
StartFails ==
  /\ \/ At("starting") /\ ~running /\ bound' \in {{}, {"main", "file"}}
     \/ (At("bound") \/ At("listed")) /\ UNCHANGED bound
  /\ ui' = "failed"
  /\ UNCHANGED <<running, stopped, io, tables, closing, told>>
  /\ UNCHANGED logVars /\ UNCHANGED windowVars /\ UNCHANGED pageVars

\* MUTANT: the user is told, and the window stays.
TellOnly == UNCHANGED closing

\* m_window.close(): WM_CLOSE is posted.
CloseWindow == closing' = TRUE

\* The handler of that exception: the log, a message box, and the window closes.
TellFailure ==
  /\ At("failed")
  /\ Logs("ui")
  /\ IF "ui" \in hung' THEN UNCHANGED <<ui, told, closing>>
                       ELSE ui' = "loop" /\ told' = told \cup {"network"} /\ CloseWindow
  /\ UNCHANGED windowVars /\ UNCHANGED pageVars /\ UNCHANGED netVars

\* pencereKapat, Alt+F4, or the end of the session.
AskClose ==
  /\ At("loop") /\ window # "destroyed" /\ ~closing
  /\ CloseWindow
  /\ UNCHANGED <<ui, told>>
  /\ UNCHANGED logVars /\ UNCHANGED windowVars /\ UNCHANGED pageVars /\ UNCHANGED netVars

\* WM_CLOSE destroys the window, and WM_DESTROY ends the loop.
Destroy ==
  /\ At("loop") /\ closing /\ window # "destroyed"
  /\ window' = "destroyed"
  /\ UNCHANGED <<child, ui, closing, told>>
  /\ UNCHANGED logVars /\ UNCHANGED pageVars /\ UNCHANGED netVars

\* The next event is evaluated, also in the loop of a message box.
Dispatch ==
  /\ ui \in {"loop", "failed"} /\ "ui" \notin hung
  /\ events # <<>>
  /\ events' = Tail(events)
  /\ big' = IF Head(events) = "net" THEN big ELSE Head(events) = "maximized"
  /\ UNCHANGED <<web, ui, closing, told>>
  /\ UNCHANGED logVars /\ UNCHANGED windowVars /\ UNCHANGED netVars

-----------------------------------------------------------------------------
\* The end: run() returns, and ~UiBridge, ~MainWindow, ~AppController follow.

\* MUTANT: the io thread is left to run out of work.
WorkReset == UNCHANGED stopped

\* MUTANT: the thread is told to stop and not waited for.
NoJoin == TRUE

IoStop == stopped' = TRUE

\* stop(): a network that is not running has nothing to stop.
Stop ==
  /\ At("loop") /\ window = "destroyed"
  /\ \/ running /\ running' = FALSE /\ IoStop /\ ui' = "join"
     \/ ~running /\ ui' = "unhook" /\ UNCHANGED <<running, stopped>>
  /\ UNCHANGED <<bound, io, tables, closing, told>>
  /\ UNCHANGED logVars /\ UNCHANGED windowVars /\ UNCHANGED pageVars

\* m_thread.join() returns.
Joined == io = "over"

\* The io thread has ended, and the tables are the UI thread's.
Clear ==
  /\ At("join") /\ Joined
  /\ tables' = FALSE
  /\ bound' = {}
  /\ ui' = "unhook"
  /\ UNCHANGED <<running, stopped, io, closing, told>>
  /\ UNCHANGED logVars /\ UNCHANGED windowVars /\ UNCHANGED pageVars

\* m_web is destroyed, with the events it has not run.
DestroyWeb ==
  /\ At("unhook")
  /\ web' = "destroyed" /\ events' = <<>>
  /\ ui' = "leave"
  /\ UNCHANGED <<big, closing, told>>
  /\ UNCHANGED logVars /\ UNCHANGED windowVars /\ UNCHANGED netVars

\* ~AppController: stop() once more, and what is left of a start that failed goes.
Leave ==
  /\ At("leave")
  /\ bound' = {}
  /\ ui' = "ended"
  /\ UNCHANGED <<running, stopped, io, tables, closing, told>>
  /\ UNCHANGED logVars /\ UNCHANGED windowVars /\ UNCHANGED pageVars

-----------------------------------------------------------------------------
\* The io thread: m_io.run() takes handlers until it is stopped.

IoAt(place) == io = place /\ "io" \notin hung

HandlerBegins ==
  /\ IoAt("idle") /\ ~stopped
  /\ io' = "handler"
  /\ UNCHANGED <<ui, closing, told, bound, running, stopped, tables>>
  /\ UNCHANGED logVars /\ UNCHANGED windowVars /\ UNCHANGED pageVars

\* A device is listed, connected to, or lost.
TablesChange ==
  /\ IoAt("handler")
  /\ tables' \in BOOLEAN
  /\ UNCHANGED <<ui, closing, told, bound, running, stopped, io>>
  /\ UNCHANGED logVars /\ UNCHANGED windowVars /\ UNCHANGED pageVars

\* An event for the page.
HandlerPosts ==
  /\ IoAt("handler")
  /\ Post(<<"net">>)
  /\ UNCHANGED <<web, big, ui, closing, told>>
  /\ UNCHANGED logVars /\ UNCHANGED windowVars /\ UNCHANGED netVars

HandlerLogs ==
  /\ IoAt("handler")
  /\ Logs("io")
  /\ UNCHANGED <<ui, closing, told>>
  /\ UNCHANGED windowVars /\ UNCHANGED pageVars /\ UNCHANGED netVars

HandlerEnds ==
  /\ IoAt("handler")
  /\ io' = "idle"
  /\ UNCHANGED <<ui, closing, told, bound, running, stopped, tables>>
  /\ UNCHANGED logVars /\ UNCHANGED windowVars /\ UNCHANGED pageVars

\* A handler throws: nobody but the log is told.
HandlerThrows ==
  /\ IoAt("handler")
  /\ io' = "threw"
  /\ UNCHANGED <<ui, closing, told, bound, running, stopped, tables>>
  /\ UNCHANGED logVars /\ UNCHANGED windowVars /\ UNCHANGED pageVars

ThrowLogged ==
  /\ IoAt("threw")
  /\ Logs("io")
  /\ io' = IF "io" \in hung' THEN io ELSE "over"
  /\ UNCHANGED <<ui, closing, told, bound, running, stopped, tables>>
  /\ UNCHANGED windowVars /\ UNCHANGED pageVars

\* run() returns.
IoReturns ==
  /\ IoAt("idle") /\ stopped
  /\ io' = "over"
  /\ UNCHANGED <<ui, closing, told, bound, running, stopped, tables>>
  /\ UNCHANGED logVars /\ UNCHANGED windowVars /\ UNCHANGED pageVars

-----------------------------------------------------------------------------
\* The UI thread goes on by itself, and so does the io thread.
UiGoesOn ==
  \/ InitLog \/ Construct \/ ConstructFails \/ Fatal
  \/ PageReady \/ OpenPorts \/ CollectLocalIps \/ Start \/ StartFails \/ StartLogged
  \/ TellFailure
  \/ Destroy \/ Stop \/ Clear \/ DestroyWeb \/ Leave

IoGoesOn == HandlerEnds \/ ThrowLogged \/ IoReturns

Next ==
  \/ SocketFails
  \/ UiGoesOn
  \/ \E state \in {"normal", "maximized", "minimized"} : ChangeState(state)
  \/ AskClose
  \/ Dispatch
  \/ HandlerBegins \/ TablesChange \/ HandlerPosts \/ HandlerLogs \/ HandlerThrows
  \/ IoGoesOn

Spec == Init /\ [][Next]_vars

\* Threads that do not hang go on; message boxes are answered.
FairSpec == Spec /\ WF_vars(UiGoesOn) /\ WF_vars(Dispatch) /\ WF_vars(IoGoesOn)

-----------------------------------------------------------------------------
\* The type invariant.
ApplicationTypeOK ==
  /\ opened \in BOOLEAN /\ hung \in SUBSET Threads
  /\ ui \in {"start", "construct", "fatal", "loop", "starting", "bound", "listed",
             "started", "failed", "join", "unhook", "leave", "ended"}
  /\ window \in {"none", "hidden", "normal", "maximized", "minimized", "destroyed"}
  /\ web \in {"none", "up", "destroyed"} /\ big \in BOOLEAN
  /\ events \in Seq({"normal", "maximized", "net"}) /\ Len(events) <= MaxEvents
  /\ closing \in BOOLEAN /\ told \in SUBSET {"program", "network"}
  /\ bound \in SUBSET Ports /\ running \in BOOLEAN /\ stopped \in BOOLEAN
  /\ io \in {"none", "idle", "handler", "threw", "over"}
  /\ tables \in BOOLEAN

\* The io thread ends first (UiBridge.cpp:43, AppController.cpp:64): while it may run
\* a handler there is a page to post to, and from the moment the UI thread has
\* cleared the tables and the ports nothing fills them again, whether the thread was
\* stopped, ended by an exception, or never began.
NetworkStopsFirst ==
  /\ io \in {"idle", "handler", "threw"} => web = "up" /\ ui \notin {"unhook", "leave", "ended"}
  /\ ui \in {"unhook", "leave", "ended"} => ~tables
  /\ ui = "ended" => bound = {}

\* A thread waits for the log for ever only if its file could not be opened, neither
\* at the beginning nor later: writeLog() locks a mutex it holds only then.
WaitsOnlyWithoutLog == hung # {} => ~opened

\* The title bar's button agrees with the window, once the page has run what is on
\* its way: maximized is what the last report says, or the page if there is none.
Reports == {i \in 1..Len(events) : events[i] # "net"}
SaysMaximized ==
  IF Reports = {} THEN big
  ELSE \A i \in Reports : (\A j \in Reports : j <= i) => events[i] = "maximized"

TitleBarAgrees ==
  window \in {"normal", "maximized"} => (SaysMaximized <=> window = "maximized")

\* Ports that are open, and that nobody serves yet, are served in the end; or, wherever
\* start() fails, the user is told and they are closed again; unless a thread hangs.
ServedOrTold ==
  (bound # {} /\ io = "none")
    ~> (io # "none" \/ (bound = {} /\ "network" \in told) \/ hung # {})

\* A window that is closed takes the program with it, wherever the io thread is,
\* also if it has ended long before; unless a thread hangs.
ClosedEnds == closing ~> (ui = "ended" \/ hung # {})
=============================================================================
