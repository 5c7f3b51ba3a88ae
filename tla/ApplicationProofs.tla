--------------------------- MODULE ApplicationProofs ---------------------------
(***************************************************************************)
(* Proofs about Application, for any window and any bound on the queue:    *)
(* what the threads may be doing when, what the log costs them, and that   *)
(* the page and the window agree.                                          *)
(***************************************************************************)
EXTENDS Application, SequenceTheorems, TLAPS

EventKinds == {"normal", "maximized", "net"}

\* Before the network has been asked to start, and while the program runs.
Before == {"start", "construct", "fatal"}
Running == {"loop", "starting", "bound", "listed", "started", "failed"}
After == {"unhook", "leave", "ended"}

\* Which of the two threads may do what, by where the UI thread is: the io thread
\* exists from Start to Stop, and there is a window from Construct to Destroy.
ThreadsInStep ==
  /\ ui \in Before =>
       /\ bound = {} /\ ~running /\ io = "none" /\ ~tables
       /\ window = "none" /\ hung \subseteq {"ui"}
  /\ ui = "start" => hung = {}
  /\ ui \in Running => web = "up" /\ (running <=> io # "none")
  /\ ui = "join" => web = "up" /\ ~running /\ stopped /\ window = "destroyed"
  /\ ui \in After => ~running /\ io \in {"none", "over"} /\ ~tables /\ window \in {"none", "destroyed"}
  /\ io = "none" => ~tables
  /\ ui = "ended" => bound = {}

\* The page lies where FitChild() would put it now.
PageFits == window \in {"normal", "maximized"} => child = FitChild(window)

-----------------------------------------------------------------------------
\* The log, the window and the queue: what a step does to each.

LEMMA LogStep ==
  ASSUME [Next]_vars
  PROVE  \/ UNCHANGED logVars
         \/ ui = "start" /\ "ui" \notin hung /\ opened' \in BOOLEAN /\ hung' = hung
         \/ \E t \in Threads : Logs(t)
<1>1. CASE InitLog
  BY <1>1 DEF InitLog, At
<1>2. CASE SocketFails \/ Fatal \/ StartLogged \/ TellFailure
  BY <1>2 DEF SocketFails, Fatal, StartLogged, TellFailure, Threads
<1>3. CASE HandlerLogs \/ ThrowLogged
  BY <1>3 DEF HandlerLogs, ThrowLogged, Threads
<1>4. CASE UNCHANGED vars
  BY <1>4 DEF vars, logVars
<1>5. CASE \/ Construct \/ ConstructFails \/ PageReady \/ OpenPorts \/ Start \/ StartFails \/ Destroy \/ Stop
           \/ Clear \/ DestroyWeb \/ Leave \/ AskClose \/ Dispatch
           \/ \E state \in {"normal", "maximized", "minimized"} : ChangeState(state)
  BY <1>5 DEF Construct, ConstructFails, PageReady, OpenPorts, Start, StartFails, Destroy, Stop, Clear,
     DestroyWeb, Leave, AskClose, Dispatch, ChangeState, logVars
<1>6. CASE HandlerBegins \/ TablesChange \/ HandlerPosts \/ HandlerThrows \/ HandlerEnds \/ IoReturns
  BY <1>6 DEF HandlerBegins, TablesChange, HandlerPosts, HandlerThrows, HandlerEnds, IoReturns, logVars
<1>7. CASE CollectLocalIps
  BY <1>7 DEF CollectLocalIps, Threads
<1>8. QED  BY <1>1, <1>2, <1>3, <1>4, <1>5, <1>6, <1>7 DEF Next, UiGoesOn, IoGoesOn

LEMMA WindowStep ==
  ASSUME [Next]_vars
  PROVE  \/ UNCHANGED windowVars
         \/ window' = "destroyed" /\ child' = child
         \/ \E state \in {"hidden", "normal", "maximized", "minimized"} : Sized(state)
<1>1. CASE Destroy
  BY <1>1 DEF Destroy
<1>2. CASE Construct
  BY <1>2 DEF Construct
<1>3. CASE PageReady \/ \E state \in {"normal", "maximized", "minimized"} : ChangeState(state)
  BY <1>3 DEF PageReady, ChangeState, Resize
<1>4. CASE UNCHANGED vars
  BY <1>4 DEF vars, windowVars
<1>5. CASE \/ InitLog \/ SocketFails \/ ConstructFails \/ Fatal \/ OpenPorts \/ CollectLocalIps \/ Start
           \/ StartFails \/ StartLogged
           \/ TellFailure \/ Stop \/ Clear \/ DestroyWeb \/ Leave \/ AskClose \/ Dispatch
  BY <1>5 DEF InitLog, SocketFails, ConstructFails, Fatal, OpenPorts, CollectLocalIps, Start, StartFails, StartLogged,
     TellFailure, Stop, Clear, DestroyWeb, Leave, AskClose, Dispatch
<1>6. CASE \/ HandlerBegins \/ TablesChange \/ HandlerPosts \/ HandlerLogs \/ HandlerThrows
           \/ HandlerEnds \/ ThrowLogged \/ IoReturns
  BY <1>6 DEF HandlerBegins, TablesChange, HandlerPosts, HandlerLogs, HandlerThrows, HandlerEnds,
     ThrowLogged, IoReturns
<1>7. QED  BY <1>1, <1>2, <1>3, <1>4, <1>5, <1>6 DEF Next, UiGoesOn, IoGoesOn

\* What a step does to the queue, to the page's belief and to the window's state.
LEMMA EventStep ==
  ASSUME [Next]_vars
  PROVE  \/ UNCHANGED <<events, big>> /\ (window' = window \/ window' \in {"hidden", "destroyed"})
         \/ window' = "minimized" /\ Post(<<>>) /\ big' = big
         \/ \E state \in {"normal", "maximized"} : window' = state /\ Post(<<state>>) /\ big' = big
         \/ Post(<<"net">>) /\ UNCHANGED <<window, big>>
         \/ Dispatch /\ window' = window
         \/ ui = "unhook" /\ events' = <<>> /\ UNCHANGED <<window, big>>
<1>1. CASE PageReady \/ \E state \in {"normal", "maximized", "minimized"} : ChangeState(state)
  <2>1. PICK state \in {"normal", "maximized", "minimized"} : Resize(state) /\ big' = big
    BY <1>1 DEF PageReady, ChangeState
  <2>2. window' = state /\ Post(Reported(state))
    BY <2>1 DEF Resize, Sized
  <2>3. CASE state = "minimized"
    <3>1. Reported(state) = <<>>
      BY <2>3 DEF Reported
    <3>2. QED  BY <2>1, <2>2, <2>3, <3>1
  <2>4. CASE state # "minimized"
    <3>1. Reported(state) = <<state>>
      BY <2>4 DEF Reported
    <3>2. QED  BY <2>1, <2>2, <2>4, <3>1
  <2>5. QED  BY <2>3, <2>4
<1>2. CASE HandlerPosts
  BY <1>2 DEF HandlerPosts, windowVars
<1>3. CASE Dispatch
  BY <1>3 DEF Dispatch, windowVars
<1>4. CASE DestroyWeb
  BY <1>4 DEF DestroyWeb, At, windowVars
<1>5. CASE UNCHANGED vars
  BY <1>5 DEF vars
<1>6. CASE Destroy \/ Construct
  BY <1>6 DEF Destroy, Construct, Sized, pageVars
<1>7. CASE \/ InitLog \/ SocketFails \/ ConstructFails \/ Fatal \/ OpenPorts \/ CollectLocalIps \/ Start
           \/ StartFails \/ StartLogged
           \/ TellFailure \/ Stop \/ Clear \/ Leave \/ AskClose
  BY <1>7 DEF InitLog, SocketFails, ConstructFails, Fatal, OpenPorts, CollectLocalIps, Start, StartFails, StartLogged,
     TellFailure, Stop, Clear, Leave, AskClose, pageVars, windowVars
<1>8. CASE \/ HandlerBegins \/ TablesChange \/ HandlerLogs \/ HandlerThrows
           \/ HandlerEnds \/ ThrowLogged \/ IoReturns
  BY <1>8 DEF HandlerBegins, TablesChange, HandlerLogs, HandlerThrows, HandlerEnds,
     ThrowLogged, IoReturns, pageVars, windowVars
<1>9. QED
  BY <1>1, <1>2, <1>3, <1>4, <1>5, <1>6, <1>7, <1>8 DEF Next, UiGoesOn, IoGoesOn

-----------------------------------------------------------------------------
\* The log.

LEMMA LogNext ==
  ASSUME ApplicationTypeOK, ThreadsInStep, WaitsOnlyWithoutLog, [Next]_vars
  PROVE  /\ opened' \in BOOLEAN /\ hung' \in SUBSET Threads
         /\ WaitsOnlyWithoutLog'
<1>1. opened \in BOOLEAN /\ hung \in SUBSET Threads /\ (ui = "start" => hung = {}) /\ (hung # {} => ~opened)
  BY DEF ApplicationTypeOK, ThreadsInStep, WaitsOnlyWithoutLog
<1>2. CASE UNCHANGED logVars
  BY <1>1, <1>2 DEF logVars, WaitsOnlyWithoutLog
<1>3. CASE ui = "start" /\ opened' \in BOOLEAN /\ hung' = hung
  BY <1>1, <1>3 DEF WaitsOnlyWithoutLog
<1>4. CASE \E t \in Threads : Logs(t)
  <2>1. PICK t \in Threads : Logs(t)
    BY <1>4
  <2>2. CASE ~NeedsInit /\ hung = {} /\ UNCHANGED logVars
    BY <1>1, <2>2 DEF logVars, WaitsOnlyWithoutLog
  <2>3. CASE hung = {} /\ opened' \in BOOLEAN /\ UNCHANGED hung
    BY <1>1, <2>3 DEF WaitsOnlyWithoutLog
  <2>4. CASE (hung # {} \/ NeedsInit) /\ hung' = hung \cup {t} /\ UNCHANGED opened
    BY <1>1, <2>4 DEF NeedsInit, WaitsOnlyWithoutLog
  <2>5. QED  BY <2>1, <2>2, <2>3, <2>4 DEF Logs
<1>5. QED  BY <1>2, <1>3, <1>4, LogStep

-----------------------------------------------------------------------------
\* The threads.

\* The variables that say where they are.
threadVars == <<ui, web, closing, told, bound, running, stopped, io, tables>>

LEMMA TypesNext ==
  ASSUME ApplicationTypeOK, [Next]_vars
  PROVE  /\ ui' \in Before \cup Running \cup {"join"} \cup After
         /\ web' \in {"none", "up", "destroyed"} /\ closing' \in BOOLEAN
         /\ told' \in SUBSET {"program", "network"} /\ bound' \in SUBSET Ports
         /\ running' \in BOOLEAN /\ stopped' \in BOOLEAN
         /\ io' \in {"none", "idle", "handler", "threw", "over"} /\ tables' \in BOOLEAN
<1>. USE DEF Before, Running, After
<1>1. /\ ui \in Before \cup Running \cup {"join"} \cup After
      /\ web \in {"none", "up", "destroyed"} /\ closing \in BOOLEAN
      /\ told \in SUBSET {"program", "network"} /\ bound \in SUBSET Ports
      /\ running \in BOOLEAN /\ stopped \in BOOLEAN
      /\ io \in {"none", "idle", "handler", "threw", "over"} /\ tables \in BOOLEAN
  BY DEF ApplicationTypeOK
<1>2. CASE UNCHANGED threadVars
  BY <1>1, <1>2 DEF threadVars
<1>3. CASE InitLog \/ ConstructFails \/ StartLogged \/ PageReady \/ CollectLocalIps
  <2>1. /\ ui' \in {"construct", "fatal", "loop", "starting", "listed"}
        /\ UNCHANGED <<web, closing, told, bound, running, stopped, io, tables>>
    BY <1>3 DEF InitLog, ConstructFails, StartLogged, PageReady, CollectLocalIps, pageVars, netVars
  <2>2. QED  BY <1>1, <2>1
<1>4. CASE Construct \/ AskClose
  BY <1>1, <1>4 DEF Construct, AskClose, CloseWindow, pageVars, netVars
<1>5. CASE Fatal
  <2>1. /\ ui' \in {ui, "ended"} /\ told' \in {told, told \cup {"program"}}
        /\ UNCHANGED <<web, closing, bound, running, stopped, io, tables>>
    BY <1>5 DEF Fatal, pageVars, netVars
  <2>2. QED  BY <1>1, <2>1
<1>6. CASE TellFailure
  <2>1. /\ ui' \in {ui, "loop"} /\ told' \in {told, told \cup {"network"}}
        /\ UNCHANGED <<web, bound, running, stopped, io, tables>>
    BY <1>6 DEF TellFailure, pageVars, netVars
  <2>2. closing' = closing \/ closing' = TRUE
    BY <1>6 DEF TellFailure, CloseWindow
  <2>3. told' \in SUBSET {"program", "network"}
    BY <1>1, <2>1
  <2>4. closing' \in BOOLEAN
    BY <1>1, <2>2
  <2>5. QED  BY <1>1, <2>1, <2>3, <2>4
<1>7. CASE OpenPorts \/ Start \/ StartFails
  BY <1>1, <1>7 DEF OpenPorts, Start, StartFails, Ports, pageVars
<1>8. CASE Stop \/ Clear
  BY <1>1, <1>8 DEF Stop, Clear, IoStop, pageVars
<1>9. CASE DestroyWeb \/ Leave
  BY <1>1, <1>9 DEF DestroyWeb, Leave, pageVars, netVars
<1>10. CASE HandlerBegins \/ HandlerEnds \/ HandlerThrows \/ IoReturns
  BY <1>1, <1>10 DEF HandlerBegins, HandlerEnds, HandlerThrows, IoReturns, pageVars
<1>11. CASE TablesChange
  BY <1>1, <1>11 DEF TablesChange, pageVars
<1>12. CASE ThrowLogged
  BY <1>1, <1>12 DEF ThrowLogged, pageVars
<1>13. CASE \/ SocketFails \/ Destroy \/ HandlerPosts \/ HandlerLogs \/ Dispatch
           \/ \E state \in {"normal", "maximized", "minimized"} : ChangeState(state)
  BY <1>2, <1>13 DEF SocketFails, Destroy, HandlerPosts, HandlerLogs, Dispatch, ChangeState,
     threadVars, pageVars, netVars
<1>14. CASE UNCHANGED vars
  BY <1>2, <1>14 DEF vars, threadVars
<1>15. QED
  BY <1>3, <1>4, <1>5, <1>6, <1>7, <1>8, <1>9, <1>10, <1>11, <1>12, <1>13, <1>14
     DEF Next, UiGoesOn, IoGoesOn

LEMMA ThreadsNext ==
  ASSUME ApplicationTypeOK, ThreadsInStep, [Next]_vars
  PROVE  ThreadsInStep'
<1>. USE DEF ThreadsInStep, Before, Running, After, At, IoAt
<1>1. CASE UNCHANGED vars
  BY <1>1 DEF vars
<1>2. CASE InitLog
  BY <1>2 DEF InitLog, windowVars, pageVars, netVars
<1>3. CASE SocketFails
  BY <1>3 DEF SocketFails, Logs, logVars, windowVars, pageVars, netVars
<1>4. CASE Construct \/ ConstructFails
  BY <1>4 DEF Construct, ConstructFails, Sized, logVars, windowVars, pageVars, netVars
<1>5. CASE Fatal
  BY <1>5 DEF Fatal, Logs, logVars, windowVars, pageVars, netVars
<1>6. CASE PageReady \/ \E state \in {"normal", "maximized", "minimized"} : ChangeState(state)
  <2>1. window' \in {"normal", "maximized", "minimized"} /\ ui = "loop" /\ ui' \in {"loop", "starting"}
        /\ web' = web
        /\ UNCHANGED netVars
    BY <1>6 DEF PageReady, ChangeState, Resize, Sized
  <2>2. QED  BY <2>1 DEF netVars
<1>7. CASE OpenPorts \/ Start \/ StartFails
  BY <1>7 DEF OpenPorts, Start, StartFails, logVars, windowVars, pageVars
<1>8. CASE CollectLocalIps \/ StartLogged \/ TellFailure
  BY <1>8 DEF CollectLocalIps, StartLogged, TellFailure, windowVars, pageVars, netVars
<1>9. CASE AskClose \/ Destroy \/ Dispatch
  BY <1>9 DEF AskClose, Destroy, Dispatch, logVars, windowVars, pageVars, netVars
<1>10. CASE Stop \/ Clear
  BY <1>10 DEF Stop, IoStop, Clear, Joined, logVars, windowVars, pageVars
<1>11. CASE DestroyWeb \/ Leave
  BY <1>11 DEF DestroyWeb, Leave, logVars, windowVars, pageVars, netVars
<1>12. CASE HandlerBegins \/ TablesChange \/ HandlerThrows \/ HandlerEnds \/ IoReturns
  BY <1>12 DEF HandlerBegins, TablesChange, HandlerThrows, HandlerEnds, IoReturns, logVars, windowVars, pageVars
<1>13. CASE HandlerPosts \/ HandlerLogs \/ ThrowLogged
  BY <1>13 DEF HandlerPosts, HandlerLogs, ThrowLogged, logVars, windowVars, pageVars, netVars
<1>14. QED
  BY <1>1, <1>2, <1>3, <1>4, <1>5, <1>6, <1>7, <1>8, <1>9, <1>10, <1>11, <1>12, <1>13
     DEF Next, UiGoesOn, IoGoesOn

LEMMA NetworkStopped ==
  ASSUME ThreadsInStep, ApplicationTypeOK
  PROVE  NetworkStopsFirst
<1>1. ui \in Before \cup Running \cup {"join"} \cup After
  BY DEF ApplicationTypeOK, Before, Running, After
<1>2. QED  BY <1>1 DEF ThreadsInStep, NetworkStopsFirst, Before, Running, After

-----------------------------------------------------------------------------
\* The queue of the page's events.

LEMMA QueueNext ==
  ASSUME ApplicationTypeOK, [Next]_vars
  PROVE  /\ events' \in Seq(EventKinds) /\ Len(events') <= MaxEvents
         /\ big' \in BOOLEAN
<1>1. /\ events \in Seq(EventKinds) /\ Len(events) <= MaxEvents /\ big \in BOOLEAN
      /\ MaxEvents \in Nat
  BY ApplicationAssumption DEF ApplicationTypeOK, EventKinds
<1>2. ASSUME NEW new \in Seq(EventKinds), Post(new)
      PROVE  events' \in Seq(EventKinds) /\ Len(events') <= MaxEvents
  <2>1. events' = events \o new /\ Len(events) + Len(new) <= MaxEvents
    BY <1>2 DEF Post
  <2>2. QED  BY <1>1, <2>1, ConcatProperties
<1>3. CASE UNCHANGED <<events, big>>
  BY <1>1, <1>3
<1>4. CASE Post(<<>>) /\ big' = big
  <2>1. <<>> \in Seq(EventKinds)
    OBVIOUS
  <2>2. QED  BY <1>1, <1>2, <1>4, <2>1
<1>5. CASE \E state \in {"normal", "maximized"} : Post(<<state>>) /\ big' = big
  <2>1. PICK state \in {"normal", "maximized"} : Post(<<state>>) /\ big' = big
    BY <1>5
  <2>2. <<state>> \in Seq(EventKinds)
    BY DEF EventKinds
  <2>3. QED  BY <1>1, <1>2, <2>1, <2>2
<1>6. CASE Post(<<"net">>) /\ big' = big
  <2>1. <<"net">> \in Seq(EventKinds)
    BY DEF EventKinds
  <2>2. QED  BY <1>1, <1>2, <1>6, <2>1
<1>7. CASE Dispatch
  <2>1. events # <<>> /\ events' = Tail(events)
    BY <1>7 DEF Dispatch
  <2>2. events' \in Seq(EventKinds) /\ Len(events') <= MaxEvents
    BY <1>1, <2>1, HeadTailProperties
  <2>3. big' = big \/ big' = (Head(events) = "maximized")
    BY <1>7 DEF Dispatch
  <2>4. big' \in BOOLEAN
    BY <1>1, <2>3, Zenon
  <2>5. QED  BY <2>2, <2>4
<1>8. CASE events' = <<>> /\ big' = big
  <2>1. events' \in Seq(EventKinds) /\ Len(events') = 0
    BY <1>8
  <2>2. QED  BY <1>1, <1>8, <2>1
<1>9. QED  BY <1>3, <1>4, <1>5, <1>6, <1>7, <1>8, EventStep

-----------------------------------------------------------------------------
\* The window and its edges.

LEMMA FitsNext ==
  ASSUME PageFits, [Next]_vars
  PROVE  PageFits'
<1>1. CASE UNCHANGED windowVars \/ (window' = "destroyed" /\ child' = child)
  <2>1. window' \in {"normal", "maximized"} => window' = window /\ child' = child
    BY <1>1 DEF windowVars
  <2>2. QED  BY <2>1 DEF PageFits
<1>2. CASE \E state \in {"hidden", "normal", "maximized", "minimized"} : Sized(state)
  BY <1>2 DEF Sized, PageFits
<1>3. QED  BY <1>1, <1>2, WindowStep

LEMMA WindowTypeNext ==
  ASSUME ApplicationTypeOK, [Next]_vars
  PROVE  window' \in {"none", "hidden", "normal", "maximized", "minimized", "destroyed"}
<1>1. \/ window' = window
      \/ window' \in {"hidden", "normal", "maximized", "minimized", "destroyed"}
  BY WindowStep DEF windowVars, Sized
<1>2. QED  BY <1>1 DEF ApplicationTypeOK

LEMMA CoordinatesAreIntegers ==
  ASSUME NEW x \in Coordinates
  PROVE  x \in Int /\ -Half <= x /\ x <= Half - 1
<1>1. Half \in Int
  BY DEF Half
<1>2. QED  BY <1>1 DEF Coordinates

\* A coordinate survives the two 16-bit words of the message, below zero as well.
LEMMA ShortWord ==
  ASSUME NEW x \in Int, -Half <= x, x <= Half - 1
  PROVE  Short(Word(x)) = x
<1>1. Half \in Int /\ Half > 0
  BY DEF Half
<1>2. CASE x >= 0
  <2>1. x % (2 * Half) = x
    BY <1>1, <1>2
  <2>2. QED  BY <1>1, <1>2, <2>1 DEF Short, Word
<1>3. CASE x < 0
  <2>1. x % (2 * Half) = x + 2 * Half
    BY <1>1, <1>3
  <2>2. QED  BY <1>1, <1>3, <2>1 DEF Short, Word
<1>4. QED  BY <1>2, <1>3

LEMMA EdgesFound ==
  ASSUME PageFits
  PROVE  EdgesResize
<1>0. /\ Border \in Nat
      /\ Frame.left \in Coordinates /\ Frame.top \in Coordinates
      /\ Frame.right \in Coordinates /\ Frame.bottom \in Coordinates
      /\ Work.left \in Coordinates /\ Work.top \in Coordinates
      /\ Work.right \in Coordinates /\ Work.bottom \in Coordinates
  BY WindowAssumption DEF Rects
<1>1. /\ Border \in Int /\ 0 <= Border /\ Half \in Int
      /\ Frame.left \in Int /\ Frame.top \in Int /\ Frame.right \in Int /\ Frame.bottom \in Int
      /\ Work.left \in Int /\ Work.top \in Int /\ Work.right \in Int /\ Work.bottom \in Int
      /\ -Half <= Frame.left /\ -Half <= Frame.top
      /\ Frame.right <= Half - 1 /\ Frame.bottom <= Half - 1
      /\ Frame.left + 2 * Border <= Frame.right
      /\ Frame.top + 2 * Border <= Frame.bottom
  <2>1. Half \in Int
    BY DEF Half
  <2>2. QED  BY <1>0, <2>1, CoordinatesAreIntegers, WindowAssumption
<1>2. ASSUME window = "maximized",
             NEW x \in Client(window).left..Client(window).right - 1,
             NEW y \in Client(window).top..Client(window).bottom - 1,
             NEW side \in {"left", "right", "top", "bottom"}
      PROVE  ~Beyond(side, x, y)
  <2>1. /\ Client(window).left = Work.left + Border /\ Client(window).top = Work.top + Border
        /\ Client(window).right = Work.right - Border /\ Client(window).bottom = Work.bottom - Border
    BY <1>2 DEF Client, Outline, Rect
  <2>2. /\ child.left = 0 /\ child.top = 0
        /\ child.right = (Client(window).right - Client(window).left) - 0
        /\ child.bottom = (Client(window).bottom - Client(window).top) - 0
    BY <1>2 DEF PageFits, FitChild, ResizeBorder, Rect
  <2>. DEFINE l == Client(window).left
              t == Client(window).top
              r == Client(window).right
              b == Client(window).bottom
  <2>3. l \in Int /\ t \in Int /\ r \in Int /\ b \in Int
    BY <1>1, <2>1
  <2>4. /\ child.left = 0 /\ child.top = 0 /\ child.right = (r - l) - 0 /\ child.bottom = (b - t) - 0
        /\ x \in l..r - 1 /\ y \in t..b - 1
    BY <2>2
  <2>5. Beyond(side, x, y) =
          CASE side = "left" -> x < l + child.left
            [] side = "right" -> x >= l + child.right
            [] side = "top" -> y < t + child.top
            [] side = "bottom" -> y >= t + child.bottom
    BY DEF Beyond
  <2>. HIDE DEF l, t, r, b
  <2>6. ~(x < l + child.left) /\ ~(x >= l + child.right) /\ ~(y < t + child.top) /\ ~(y >= t + child.bottom)
    BY <2>3, <2>4
  <2>7. QED  BY <2>5, <2>6
<1>3. ASSUME window = "normal",
             NEW x \in Client(window).left..Client(window).right - 1,
             NEW y \in Client(window).top..Client(window).bottom - 1,
             NEW side \in {"left", "right", "top", "bottom"}, Beyond(side, x, y)
      PROVE  HitTest(window, Word(x), Word(y)) \in Moving(side)
  <2>1. /\ Client(window).left = Frame.left /\ Client(window).top = Frame.top
        /\ Client(window).right = Frame.right /\ Client(window).bottom = Frame.bottom
    <3>1. Outline(window) = Frame
      BY <1>3 DEF Outline
    <3>2. Frame.left + 0 = Frame.left /\ Frame.top + 0 = Frame.top
          /\ Frame.right - 0 = Frame.right /\ Frame.bottom - 0 = Frame.bottom
      BY <1>1
    <3>3. QED  BY <1>3, <3>1, <3>2 DEF Client, Rect
  <2>2. /\ child.left = Border /\ child.top = 0
        /\ child.right = (Frame.right - Frame.left) - Border
        /\ child.bottom = (Frame.bottom - Frame.top) - Border
    BY <1>3, <2>1 DEF PageFits, FitChild, ResizeBorder, Rect
  <2>3. /\ x \in Int /\ -Half <= x /\ x <= Half - 1
        /\ y \in Int /\ -Half <= y /\ y <= Half - 1
    <3>1. x \in Frame.left..Frame.right - 1 /\ y \in Frame.top..Frame.bottom - 1
      BY <2>1
    <3>2. QED  BY <1>1, <3>1
  <2>4. Short(Word(x)) = x /\ Short(Word(y)) = y
    BY <2>3, ShortWord
  <2>. DEFINE left == x < Frame.left + Border
              right == x >= Frame.right - Border
              top == y < Frame.top + Border
              bottom == y >= Frame.bottom - Border
  <2>5. HitTest(window, Word(x), Word(y)) =
          CASE window = "maximized" -> "client"
            [] window # "maximized" /\ top /\ (left \/ right) -> IF left THEN "topleft" ELSE "topright"
            [] window # "maximized" /\ ~top /\ bottom /\ (left \/ right) -> IF left THEN "bottomleft" ELSE "bottomright"
            [] window # "maximized" /\ ~(left \/ right) /\ (top \/ bottom) -> IF top THEN "top" ELSE "bottom"
            [] window # "maximized" /\ ~top /\ ~bottom /\ (left \/ right) -> IF left THEN "left" ELSE "right"
            [] OTHER -> "client"
    BY <1>3, <2>4 DEF HitTest, Outline, ResizeBorder
  <2>6. /\ side = "left" => left
        /\ side = "right" => right /\ ~left
        /\ side = "top" => FALSE
        /\ side = "bottom" => bottom /\ ~top
    <3>1. /\ side = "left" => x < Frame.left + Border
          /\ side = "right" => x >= Frame.left + ((Frame.right - Frame.left) - Border)
          /\ side = "top" => y < Frame.top + 0
          /\ side = "bottom" => y >= Frame.top + ((Frame.bottom - Frame.top) - Border)
      BY <1>3, <2>1, <2>2 DEF Beyond
    <3>2. y >= Frame.top /\ x \in Int /\ y \in Int
      BY <1>1, <2>1
    <3>3. QED  BY <1>1, <3>1, <3>2
  <2>. HIDE DEF left, right, top, bottom
  <2>7. CASE side = "left"
    BY <1>3, <2>5, <2>6, <2>7 DEF Moving
  <2>8. CASE side = "right"
    BY <1>3, <2>5, <2>6, <2>8 DEF Moving
  <2>9. CASE side = "bottom"
    BY <1>3, <2>5, <2>6, <2>9 DEF Moving
  <2>10. QED  BY <2>6, <2>7, <2>8, <2>9
<1>4. QED  BY <1>2, <1>3 DEF EdgesResize

-----------------------------------------------------------------------------
\* The title bar.

\* SaysMaximized of any queue and any belief.
Sizes(es) == {i \in 1..Len(es) : es[i] # "net"}
LastSays(es) == \A i \in Sizes(es) : (\A j \in Sizes(es) : j <= i) => es[i] = "maximized"
Says(es, b) == IF Sizes(es) = {} THEN b ELSE LastSays(es)

LEMMA SaysIs == SaysMaximized <=> Says(events, big)
BY DEF SaysMaximized, Reports, Says, LastSays, Sizes

LEMMA SaysIsNext == SaysMaximized' <=> Says(events', big')
BY DEF SaysMaximized, Reports, Says, LastSays, Sizes

\* An event more: a report of the size decides, any other changes nothing.
LEMMA SaysPosted ==
  ASSUME NEW es \in Seq(EventKinds), NEW b \in BOOLEAN, NEW e \in EventKinds,
         NEW es2, es2 = es \o <<e>>
  PROVE  /\ e = "net" => (Says(es2, b) <=> Says(es, b))
         /\ e # "net" => (Says(es2, b) <=> e = "maximized")
<1>1. es2 = Append(es, e)
  BY AppendIsConcat
<1>2. /\ Len(es2) = Len(es) + 1 /\ es2[Len(es) + 1] = e
      /\ \A i \in 1..Len(es) : es2[i] = es[i]
      /\ Len(es) \in Nat
  BY <1>1, AppendProperties
<1>3. CASE e = "net"
  <2>1. Sizes(es2) = Sizes(es)
    BY <1>2, <1>3 DEF Sizes
  <2>2. \A i \in Sizes(es) : es2[i] = es[i]
    BY <1>2 DEF Sizes
  <2>3. LastSays(es2) <=> LastSays(es)
    BY <2>1, <2>2 DEF LastSays
  <2>4. QED  BY <1>3, <2>1, <2>3 DEF Says
<1>4. CASE e # "net"
  <2>1. Sizes(es2) = Sizes(es) \cup {Len(es) + 1}
    BY <1>2, <1>4 DEF Sizes
  <2>2. \A j \in Sizes(es2) : j \in Nat /\ j <= Len(es) + 1
    BY <1>2 DEF Sizes
  <2>3. ASSUME NEW i \in Sizes(es2), \A j \in Sizes(es2) : j <= i
        PROVE  i = Len(es) + 1
    <3>1. Len(es) + 1 <= i /\ i <= Len(es) + 1 /\ i \in Nat /\ Len(es) \in Nat
      BY <1>2, <2>1, <2>2, <2>3
    <3>2. QED  BY <3>1
  <2>4. LastSays(es2) <=> es2[Len(es) + 1] = "maximized"
    BY <2>1, <2>2, <2>3 DEF LastSays
  <2>5. QED  BY <1>2, <1>4, <2>1, <2>4 DEF Says
<1>5. QED  BY <1>3, <1>4

\* The first event is run: what it says becomes the page's belief.
LEMMA SaysRun ==
  ASSUME NEW es \in Seq(EventKinds), NEW b \in BOOLEAN, es # <<>>,
         NEW b2 \in BOOLEAN,
         Head(es) = "net" => b2 = b,
         Head(es) # "net" => (b2 <=> Head(es) = "maximized")
  PROVE  Says(Tail(es), b2) <=> Says(es, b)
<1>. DEFINE rest == Tail(es)
<1>1. /\ Len(rest) = Len(es) - 1 /\ Len(es) \in Nat /\ Len(es) >= 1
      /\ \A i \in 1..Len(rest) : rest[i] = es[i + 1]
      /\ Head(es) = es[1]
  BY HeadTailProperties
<1>. HIDE DEF rest
<1>2. /\ \A i \in Sizes(rest) : i \in Nat /\ i + 1 \in Sizes(es) /\ rest[i] = es[i + 1]
      /\ \A i \in Sizes(es) : i \in Nat /\ (i = 1 \/ (i - 1 \in Sizes(rest) /\ i - 1 \in Nat))
      /\ 1 \in Sizes(es) <=> Head(es) # "net"
      /\ \A i \in Sizes(rest) : i >= 1
  <2>1. ASSUME NEW i \in Sizes(rest)
        PROVE  i \in Nat /\ i + 1 \in Sizes(es) /\ rest[i] = es[i + 1] /\ i >= 1
    BY <1>1 DEF Sizes
  <2>2. ASSUME NEW i \in Sizes(es), i # 1
        PROVE  i - 1 \in Sizes(rest) /\ i - 1 \in Nat
    <3>1. i \in 1..Len(es) /\ es[i] # "net" /\ i - 1 \in 1..Len(rest) /\ (i - 1) + 1 = i
      BY <1>1, <2>2 DEF Sizes
    <3>2. rest[i - 1] = es[i]
      BY <1>1, <3>1
    <3>3. QED  BY <3>1, <3>2 DEF Sizes
  <2>3. 1 \in Sizes(es) <=> Head(es) # "net"
    BY <1>1 DEF Sizes
  <2>4. \A i \in Sizes(es) : i \in Nat
    BY DEF Sizes
  <2>5. QED  BY <2>1, <2>2, <2>3, <2>4
<1>3. CASE Sizes(rest) = {}
  <2>1. \A i \in Sizes(es) : i = 1
    BY <1>2, <1>3
  <2>2. CASE Head(es) = "net"
    <3>1. Sizes(es) = {}
      BY <1>2, <2>1, <2>2
    <3>2. QED  BY <1>3, <2>2, <3>1 DEF Says, rest
  <2>3. CASE Head(es) # "net"
    <3>1. Sizes(es) = {1}
      BY <1>2, <2>1, <2>3
    <3>2. LastSays(es) <=> es[1] = "maximized"
      BY <3>1 DEF LastSays
    <3>3. QED  BY <1>1, <1>3, <2>3, <3>1, <3>2 DEF Says, rest
  <2>4. QED  BY <2>2, <2>3
<1>4. CASE Sizes(rest) # {}
  <2>1. Sizes(es) # {}
    BY <1>2, <1>4
  <2>2. ASSUME NEW i \in Sizes(rest)
        PROVE  (\A j \in Sizes(rest) : j <= i) <=> (\A j \in Sizes(es) : j <= i + 1)
    <3>1. ASSUME \A j \in Sizes(rest) : j <= i, NEW j \in Sizes(es)
          PROVE  j <= i + 1
      BY <1>2, <2>2, <3>1
    <3>2. ASSUME \A j \in Sizes(es) : j <= i + 1, NEW j \in Sizes(rest)
          PROVE  j <= i
      <4>1. j + 1 <= i + 1 /\ i \in Nat /\ j \in Nat
        BY <1>2, <2>2, <3>2
      <4>2. QED  BY <4>1
    <3>3. QED  BY <3>1, <3>2
  <2>3. ASSUME NEW i \in Sizes(es), \A j \in Sizes(es) : j <= i
        PROVE  i - 1 \in Sizes(rest) /\ (i - 1) + 1 = i
    <3>1. PICK k \in Sizes(rest) : TRUE
      BY <1>4
    <3>2. k + 1 <= i /\ k >= 1 /\ k \in Nat /\ i \in Nat
      BY <1>2, <2>3, <3>1
    <3>3. i # 1 /\ (i - 1) + 1 = i
      BY <3>2
    <3>4. QED  BY <1>2, <3>3
  <2>4. LastSays(es) => LastSays(rest)
    BY <1>2, <2>2 DEF LastSays
  <2>5. LastSays(rest) => LastSays(es)
    <3>1. ASSUME LastSays(rest), NEW i \in Sizes(es), \A j \in Sizes(es) : j <= i
          PROVE  es[i] = "maximized"
      <4>1. i - 1 \in Sizes(rest) /\ (i - 1) + 1 = i
        BY <2>3, <3>1
      <4>2. \A j \in Sizes(rest) : j <= i - 1
        BY <2>2, <3>1, <4>1
      <4>3. rest[i - 1] = "maximized" /\ rest[i - 1] = es[(i - 1) + 1]
        BY <1>2, <3>1, <4>1, <4>2 DEF LastSays
      <4>4. QED  BY <4>1, <4>3
    <3>2. QED  BY <3>1 DEF LastSays
  <2>6. QED  BY <1>4, <2>1, <2>4, <2>5 DEF Says, rest
<1>5. QED  BY <1>3, <1>4

LEMMA TitleNext ==
  ASSUME ApplicationTypeOK, ThreadsInStep, TitleBarAgrees, [Next]_vars
  PROVE  TitleBarAgrees'
<1>1. events \in Seq(EventKinds) /\ big \in BOOLEAN
  BY DEF ApplicationTypeOK, EventKinds
<1>2. window \in {"normal", "maximized"} => (Says(events, big) <=> window = "maximized")
  BY SaysIs DEF TitleBarAgrees
<1>3. SUFFICES ASSUME window' \in {"normal", "maximized"}
               PROVE  Says(events', big') <=> window' = "maximized"
  BY SaysIsNext DEF TitleBarAgrees
<1>4. CASE UNCHANGED <<events, big>> /\ (window' = window \/ window' \in {"hidden", "destroyed"})
  BY <1>2, <1>3, <1>4
<1>5. CASE \E state \in {"normal", "maximized"} : window' = state /\ Post(<<state>>) /\ big' = big
  <2>1. PICK state \in {"normal", "maximized"} : window' = state /\ Post(<<state>>) /\ big' = big
    BY <1>5
  <2>2. events' = events \o <<state>> /\ state \in EventKinds /\ state # "net"
    BY <2>1 DEF Post, EventKinds
  <2>3. Says(events', big) <=> state = "maximized"
    BY <1>1, <2>2, SaysPosted
  <2>4. QED  BY <2>1, <2>3
<1>6. CASE Post(<<"net">>) /\ UNCHANGED <<window, big>>
  <2>1. events' = events \o <<"net">> /\ "net" \in EventKinds
    BY <1>6 DEF Post, EventKinds
  <2>2. Says(events', big) <=> Says(events, big)
    BY <1>1, <2>1, SaysPosted
  <2>3. QED  BY <1>2, <1>3, <1>6, <2>2
<1>7. CASE Dispatch /\ window' = window
  <2>1. events # <<>> /\ events' = Tail(events)
    BY <1>7 DEF Dispatch
  <2>2. big' = IF Head(events) = "net" THEN big ELSE Head(events) = "maximized"
    BY <1>7 DEF Dispatch
  <2>3. big' \in BOOLEAN
    BY <1>1, <2>2, Zenon
  <2>4. /\ Head(events) = "net" => big' = big
        /\ Head(events) # "net" => (big' <=> Head(events) = "maximized")
    BY <2>2, Zenon
  <2>5. Says(Tail(events), big') <=> Says(events, big)
    BY <1>1, <2>1, <2>3, <2>4, SaysRun
  <2>6. QED  BY <1>2, <1>3, <1>7, <2>1, <2>5
<1>8. CASE ui = "unhook" /\ UNCHANGED window
  BY <1>3, <1>8 DEF ThreadsInStep, After
<1>9. CASE window' = "minimized"
  BY <1>3, <1>9
<1>10. QED  BY <1>4, <1>5, <1>6, <1>7, <1>8, <1>9, EventStep

-----------------------------------------------------------------------------
\* The theorems.

Inv ==
  /\ ApplicationTypeOK /\ ThreadsInStep /\ WaitsOnlyWithoutLog
  /\ PageFits /\ TitleBarAgrees

LEMMA InvInit ==
  ASSUME Init
  PROVE  Inv
<1>1. MaxEvents \in Nat
  BY ApplicationAssumption
<1>2. /\ opened = FALSE /\ hung = {} /\ ui = "start" /\ window = "none" /\ web = "none"
      /\ big = FALSE /\ closing = FALSE /\ told = {} /\ events = <<>>
      /\ bound = {} /\ running = FALSE /\ stopped = FALSE /\ io = "none" /\ tables = FALSE
  BY DEF Init
<1>3. ApplicationTypeOK
  <2>1. events \in Seq({"normal", "maximized", "net"}) /\ Len(events) <= MaxEvents
    BY <1>1, <1>2
  <2>2. /\ opened \in BOOLEAN /\ hung \in SUBSET Threads /\ big \in BOOLEAN /\ closing \in BOOLEAN
        /\ told \in SUBSET {"program", "network"} /\ bound \in SUBSET Ports
        /\ running \in BOOLEAN /\ stopped \in BOOLEAN /\ tables \in BOOLEAN
    BY <1>2, Zenon
  <2>3. QED  BY <1>2, <2>1, <2>2 DEF ApplicationTypeOK
<1>4. ThreadsInStep
  BY <1>2 DEF ThreadsInStep, Before, Running, After
<1>5. WaitsOnlyWithoutLog /\ PageFits /\ TitleBarAgrees
  BY <1>2 DEF WaitsOnlyWithoutLog, PageFits, TitleBarAgrees
<1>6. QED  BY <1>3, <1>4, <1>5 DEF Inv

LEMMA InvNext ==
  ASSUME Inv, [Next]_vars
  PROVE  Inv'
<1>1. ApplicationTypeOK /\ ThreadsInStep /\ WaitsOnlyWithoutLog /\ PageFits /\ TitleBarAgrees
  BY DEF Inv
<1>2. ApplicationTypeOK'
  <2>1. opened' \in BOOLEAN /\ hung' \in SUBSET Threads
    BY <1>1, LogNext
  <2>2. events' \in Seq({"normal", "maximized", "net"}) /\ Len(events') <= MaxEvents /\ big' \in BOOLEAN
    BY <1>1, QueueNext DEF EventKinds
  <2>3. window' \in {"none", "hidden", "normal", "maximized", "minimized", "destroyed"}
    BY <1>1, WindowTypeNext
  <2>4. QED  BY <1>1, <2>1, <2>2, <2>3, TypesNext DEF ApplicationTypeOK, Before, Running, After
<1>3. ThreadsInStep' /\ WaitsOnlyWithoutLog'
  BY <1>1, ThreadsNext, LogNext
<1>4. PageFits' /\ TitleBarAgrees'
  BY <1>1, FitsNext, TitleNext
<1>5. QED  BY <1>2, <1>3, <1>4 DEF Inv

\* The types: the queue of the page's events stays within its bound.
THEOREM ApplicationTypeCorrect == Spec => []ApplicationTypeOK
<1>1. Inv => ApplicationTypeOK
  BY DEF Inv
<1>2. QED  BY <1>1, InvInit, InvNext, PTL DEF Spec

\* However the program is started and ended, the io thread runs handlers only while
\* there is a page, and nothing is left in the tables or on the ports after it.
THEOREM NetworkIsFirst == Spec => []NetworkStopsFirst
<1>1. Inv => NetworkStopsFirst
  BY NetworkStopped DEF Inv
<1>2. QED  BY <1>1, InvInit, InvNext, PTL DEF Spec

\* With the log file open no thread waits for the log for ever, whichever of the
\* two things a second lock of its mutex does.
THEOREM LogIsSafeOnceOpened == Spec => []WaitsOnlyWithoutLog
<1>1. Inv => WaitsOnlyWithoutLog
  BY DEF Inv
<1>2. QED  BY <1>1, InvInit, InvNext, PTL DEF Spec

\* For any number of reports on their way, the title bar's button ends up as the
\* window is.
THEOREM TitleBarFollows == Spec => []TitleBarAgrees
<1>1. Inv => TitleBarAgrees
  BY DEF Inv
<1>2. QED  BY <1>1, InvInit, InvNext, PTL DEF Spec

\* For every border, window and monitor whose coordinates fit into 16 bits, a point
\* the page leaves free resizes the window on its side.
THEOREM EdgesAlwaysResize == Spec => []EdgesResize
<1>1. Inv => EdgesResize
  BY EdgesFound DEF Inv
<1>2. QED  BY <1>1, InvInit, InvNext, PTL DEF Spec
=============================================================================
