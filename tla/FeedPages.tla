----------------------------- MODULE FeedPages -----------------------------
(***************************************************************************)
(* The pages that show the live feed, Stream and Timeline (src/console/src/ *)
(* pages), on top of the connection: one is mounted at a time, each takes   *)
(* the messages it has not processed yet unless it is paused, and Timeline  *)
(* paints a canvas that nothing repaints unless draw is called.             *)
(*                                                                         *)
(* A handler, the renders it causes and their effects are one step.  An     *)
(* event stands for the KernelEvent mapWireEvent makes of it.               *)
(***************************************************************************)
EXTENDS Connection

CONSTANTS
    EVENT_TYPES,
    StreamCap, TimelineCap,  \* MAX_EVENTS of the two pages
    Windows,                 \* the widths the window buttons offer, in ticks of the feed's clock
    MaxView                  \* the widest view the wheel reaches

ASSUME PagesAssumption ==
    /\ StreamCap \in 1 .. MAX_MESSAGES /\ TimelineCap \in 1 .. MAX_MESSAGES
    /\ MaxView \in Nat /\ Windows \subseteq 1 .. MaxView /\ Windows # {}

VARIABLES
    route,       \* the page that is mounted: stream, timeline or another one
    shown,       \* events, oldest first
    processedMessage,  \* its ref
    paused, activeTypes,
    picked,      \* expandedId or selectedEvent, 0 for none
    window, view,\* Timeline: timeWindow and zoomRef.viewNs
    canvas       \* Timeline: what draw was last run on

filterVars == <<paused, activeTypes>>
zoomVars   == <<window, view>>
pageVars   == <<shown, processedMessage, filterVars, picked, zoomVars, canvas>>
pagesVars  == <<connVars, route, pageVars>>

Routes == {"stream", "timeline", "other"}
Cap(r) == IF r = "stream" THEN StreamCap ELSE TimelineCap
DefaultWindow == CHOOSE w \in Windows : \A o \in Windows : w <= o

(* mapWireEvent throws on a type it does not know, or on bad timing.        *)
mapWireEvent(e) == wire[e].type \in EVENT_TYPES /\ Ts(e) > 0
Mapped(msgs)    == Filter(Data(msgs), { e \in Events : mapWireEvent(e) })

Active(events, types) == Filter(events, { e \in Events : wire[e].type \in types })

-----------------------------------------------------------------------------
(* getVisRange ends at the event that came last, whatever its timestamp.    *)
getVisRange(events, v) == Ts(Last(events)) - v .. Ts(Last(events))

(* The events draw finds in the visible range, among those of active types; *)
(* the 5 ms by which it widens the range at both ends are left out.         *)
visEvents(events, types, v) ==
    LET active == Active(events, types)
    IN  IF active = <<>> THEN {} ELSE { e \in Range(active) : Ts(e) \in getVisRange(active, v) }

(* What draw was last run on: the events it goes through for their bars and *)
(* the one it highlights. Which of them get a bar is decided from the same  *)
(* events: one whose service is not among the MAX_LANES lanes has none.     *)
Drawing(events, types, sel, v) ==
    [visible |-> visEvents(events, types, v), selected |-> sel, view |-> v]

BlankCanvas == [visible |-> {}, selected |-> 0, view |-> DefaultWindow]

PagesInit ==
    /\ ConnInit
    /\ route = "stream"
    /\ shown = <<>> /\ processedMessage = 0
    /\ paused = FALSE /\ activeTypes = EVENT_TYPES /\ picked = 0
    /\ window = DefaultWindow /\ view = DefaultWindow /\ canvas = BlankCanvas

-----------------------------------------------------------------------------
Pending(from) == Filter(messages', { m \in Range(messages') : m.id > from })

ProcessMessages_PausedSkips(base, from) ==
    LET pending == Pending(from)
    IN  IF route' = "other" \/ pending = <<>>
        THEN shown' = base /\ processedMessage' = from
        ELSE /\ shown' = IF paused' THEN base
                         ELSE LastN(base \o Mapped(pending), Cap(route'))
             /\ processedMessage' = Last(pending).id

(* The effect on messages and paused, started from the events `base`.       *)
ProcessMessages(base, from) ==
    LET pending == Pending(from)
    IN  IF paused' \/ route' = "other" \/ pending = <<>>
        THEN shown' = base /\ processedMessage' = from
        ELSE /\ shown' = LastN(base \o Mapped(pending), Cap(route'))
             /\ processedMessage' = Last(pending).id

(* Stream closes the row that is no longer listed; Timeline keeps its event. *)
SettleRow(sel) ==
    picked' = IF route' = "stream" /\ sel \notin Range(Active(shown', activeTypes'))
              THEN 0 ELSE sel

(* draw runs when asked to, when events came, and when the selection, the   *)
(* types or the window changed.                                             *)
Paint(asked) ==
    canvas' = IF /\ route' = "timeline"
                 /\ \/ asked \/ shown' # shown
                    \/ picked' # picked \/ activeTypes' # activeTypes \/ window' # window
              THEN Drawing(shown', activeTypes', picked', view')
              ELSE canvas

Effects(base, sel, asked) ==
    /\ ProcessMessages(base, processedMessage)
    /\ SettleRow(sel)
    /\ Paint(asked)

Shows(r) == mounted /\ route = r

-----------------------------------------------------------------------------
(* Operations both pages have. *)
toggleType(t) ==
    /\ Shows("stream") \/ Shows("timeline")
    /\ activeTypes' = IF t \notin activeTypes THEN activeTypes \cup {t}
                      ELSE activeTypes \ {t}
    /\ activeTypes' # {}
    /\ UNCHANGED <<connVars, route, paused, zoomVars>>
    /\ Effects(shown, picked, FALSE)

togglePause ==
    /\ Shows("stream") \/ Shows("timeline")
    /\ paused' = ~paused
    /\ UNCHANGED <<connVars, route, activeTypes, zoomVars>>
    /\ Effects(shown, picked, FALSE)

clearEvents ==
    /\ Shows("stream") \/ Shows("timeline")
    /\ clearMessages
    /\ UNCHANGED <<feedVars, drops, socketVars, runVars, route, filterVars, zoomVars>>
    /\ Effects(<<>>, 0, TRUE)

(* A row of Stream is clicked, or its detail closed. *)
SelectRow(e) ==
    /\ Shows("stream") /\ e \in Range(Active(shown, activeTypes))
    /\ UNCHANGED <<connVars, route, filterVars, zoomVars>>
    /\ Effects(shown, IF e = picked THEN 0 ELSE e, FALSE)

CloseRow ==
    /\ Shows("stream") /\ picked # 0
    /\ UNCHANGED <<connVars, route, filterVars, zoomVars>>
    /\ Effects(shown, 0, FALSE)

(* A click on Timeline's canvas hits an event of an active type, or none.   *)
handleCanvasClick ==
    /\ Shows("timeline")
    /\ UNCHANGED <<connVars, route, filterVars, zoomVars>>
    /\ \E e \in Range(Active(shown, activeTypes)) \cup {0} :
         Effects(shown, IF e = picked THEN 0 ELSE e, FALSE)

(* Escape and the detail's button. *)
CloseDetail ==
    /\ Shows("timeline") /\ picked # 0
    /\ UNCHANGED <<connVars, route, filterVars, zoomVars>>
    /\ Effects(shown, 0, FALSE)

(* A window button sets the view; an unchanged window repaints nothing. *)
SetWindow(w) ==
    /\ Shows("timeline")
    /\ window' = w /\ view' = w
    /\ UNCHANGED <<connVars, route, filterVars>>
    /\ Effects(shown, picked, FALSE)

handleWheel ==
    /\ Shows("timeline")
    /\ \E v \in {view - 1, view + 1} : v \in 1 .. MaxView /\ view' = v
    /\ UNCHANGED <<connVars, route, filterVars, window>>
    /\ Effects(shown, picked, TRUE)

(* The canvas is resized or the theme changes. *)
Redraw ==
    /\ Shows("timeline")
    /\ UNCHANGED <<connVars, route, filterVars, zoomVars>>
    /\ Effects(shown, picked, TRUE)

-----------------------------------------------------------------------------
(* The provider's steps reach the mounted page by its effects. *)
Rendered ==
    /\ UNCHANGED <<route, filterVars, zoomVars>>
    /\ Effects(shown, picked, FALSE)

ProviderStep ==
    /\ \/ connect \/ onopen \/ onerror \/ onclose \/ Air \/ Remount
       \/ \E l \in requests : hydrateHistory(l)
    /\ Rendered

(* A page that mounts starts afresh, from all the messages there are. *)
MountPage(r) ==
    /\ route' = r
    /\ paused' = FALSE /\ activeTypes' = EVENT_TYPES /\ picked' = 0
    /\ window' = DefaultWindow /\ view' = DefaultWindow
    /\ ProcessMessages(<<>>, 0)
    /\ canvas' = IF r = "timeline" THEN Drawing(shown', activeTypes', 0, view') ELSE BlankCanvas

Navigate(r) == mounted /\ r # route /\ UNCHANGED connVars /\ MountPage(r)

LeaveConsole == UnmountProvider /\ MountPage(route)
EnterConsole  == MountProvider /\ UNCHANGED <<route, pageVars>>

PagesNext ==
    \/ ProviderStep \/ LeaveConsole \/ EnterConsole
    \/ togglePause \/ clearEvents \/ CloseRow \/ CloseDetail \/ handleCanvasClick
    \/ handleWheel \/ Redraw
    \/ \E t \in EVENT_TYPES : toggleType(t)
    \/ \E e \in Events : SelectRow(e)
    \/ \E w \in Windows : SetWindow(w)
    \/ \E r \in Routes : Navigate(r)

PagesSpec == PagesInit /\ [][PagesNext]_pagesVars /\ ConnFairness

-----------------------------------------------------------------------------
(* No two messages of useConnection's list have one key, although history   *)
(* and the live feed overlap, the feed repeats itself and StrictMode's      *)
(* first request answers late.  As the pages hold no more than the list, a  *)
(* page shows no event twice either, however long it was paused, unless     *)
(* messages it rejects took room in the list.                               *)
NoDuplicates ==
    /\ \A i, j \in DOMAIN messages :
         i # j => Key(messages[i].event) # Key(messages[j].event)
    /\ (\A e \in Events : mapWireEvent(e)) => IsInjective(shown)

(* A mounted page that is not paused shows the newest messages that map to  *)
(* events, in the list's order and last; Timeline's canvas was painted from *)
(* exactly these events, types and selection, and Stream's open row is      *)
(* listed.                                                                  *)
PageCurrent ==
    mounted =>
      /\ route # "other" /\ ~paused => IsSuffix(LastN(Mapped(messages), Cap(route)), shown)
      /\ route = "timeline" => canvas = Drawing(shown, activeTypes, picked, canvas.view)
      /\ route = "stream" /\ picked # 0 => picked \in Range(Active(shown, activeTypes))

-----------------------------------------------------------------------------
(* The messages of a list that a page has taken up to an id.                *)
Taken(msgs, upTo) == Filter(msgs, { m \in Range(msgs) : m.id <= upTo })

(* Inductive for PageCurrent and NoDuplicates: a page ends with the newest   *)
(* of what it took from the list, even while it is paused.  If every event   *)
(* maps and the list dropped nothing, it shows nothing else.                 *)
ShownInv ==
    /\ route \in Routes /\ processedMessage \in Nat /\ processedMessage <= sequence
    /\ shown \in Seq(Events)
    /\ route = "other" => shown = <<>> /\ processedMessage = 0
    /\ route # "other" =>
         /\ Len(shown) <= Cap(route)
         /\ IsSuffix(LastN(Mapped(Taken(messages, processedMessage)), Cap(route)), shown)
         /\ ~paused => Taken(messages, processedMessage) = messages
    /\ (\A e \in Events : mapWireEvent(e)) =>
         /\ IsInjective(shown)
         /\ Len(messages) < MAX_MESSAGES => Len(shown) <= Len(Taken(messages, processedMessage))

(* Timeline's canvas and Stream's open row follow what is shown. *)
PaintInv ==
    /\ route = "timeline" => canvas = Drawing(shown, activeTypes, picked, canvas.view)
    /\ route = "stream" /\ picked # 0 => picked \in Range(Active(shown, activeTypes))

PagesInv == ListInv /\ ShownInv /\ PaintInv
=============================================================================
