----------------------------- MODULE CanvasEditor -----------------------------
(***************************************************************************)
(* The canvas of the web application, in one tab: widgets, connectors and  *)
(* comments, drags, undo and redo, a copy in the browser's storage, and    *)
(* what arrives late: a file that was read, an answer of a question card.  *)
(* Every position, size, colour, layer and title is one `look'.            *)
(***************************************************************************)
EXTENDS Integers, SequencesExt

CONSTANTS MaxWidgets, MaxComments,  \* bounds: what is ever made
          Keep,                     \* how many changes can be undone
          Stored,                   \* what the storage may hold at first
          None,
          MaxActs,                  \* bound: what the user does to the canvas
          MaxPicks,                 \* bound: tools, selections, copies, undos
          MaxSaves                  \* bound: saves, which may fail

Id == 1..MaxWidgets
Look == 0..1
Data == [text : 0..1, card : {"idle", "loading", "ready"}, file : BOOLEAN]
CanvasWidget == [look : Look, locked : BOOLEAN, data : Data]

IsCanvas(c) ==
    /\ c = [widgets |-> c.widgets, links |-> c.links, comments |-> c.comments, view |-> c.view]
    /\ DOMAIN c.widgets \subseteq Id /\ c.widgets \in [DOMAIN c.widgets -> CanvasWidget]
    /\ c.links \subseteq Id \X Id
    /\ DOMAIN c.comments \subseteq 1..MaxComments
    /\ c.comments \in [DOMAIN c.comments -> [on : Id \cup {None}, look : Look]]
    /\ c.view \in Look

\* Connectors join widgets of the canvas, comments are on one or on none.
HasEnds(c) ==
    /\ \A l \in c.links : {l[1], l[2]} \subseteq DOMAIN c.widgets
    /\ \A k \in DOMAIN c.comments : c.comments[k].on \in DOMAIN c.widgets \cup {None}

EmptyCanvas == [widgets |-> <<>>, links |-> {}, comments |-> <<>>, view |-> 0]

CanvasEditorAssumption ==
    /\ {MaxWidgets, MaxComments, MaxActs, MaxPicks, MaxSaves} \subseteq Nat /\ Keep \in Nat \ {0}
    /\ \A c \in Stored \ {None} : IsCanvas(c) /\ HasEnds(c)

VARIABLES open,       \* the canvas is shown
          canvas,
          stored,     \* the copy in the storage, or None
          timer,      \* to save it: running, or how it ended
          undoStack, redoStack, historyEntries,
          selection,  \* widgets, and the connector selected, or None
          tool,       \* the tool, and the source of a connector, or None
          gesture,    \* a drag, resize or pan, or None
          clipboard,  \* copied widgets
          late,       \* files being read and questions asked
          stray,      \* for the property: a connector was drawn from a widget
                      \* that had been removed since it was picked
          count

vars == <<open, canvas, stored, timer, undoStack, redoStack, historyEntries, selection,
          tool, gesture, clipboard, late, stray, count>>

TypeOK ==
    /\ open \in BOOLEAN /\ stray \in BOOLEAN /\ IsCanvas(canvas)
    /\ stored = None \/ IsCanvas(stored)
    /\ timer \in {"running", "saved", "failed"}
    /\ \A s \in {undoStack, redoStack, historyEntries} :
         Len(s) <= Keep /\ \A i \in DOMAIN s : IsCanvas(s[i])
    /\ selection \in [widgets : SUBSET Id, link : (Id \X Id) \cup {None}]
    /\ tool \in [name : {"select", "hand", "connector", "comment"}, source : Id \cup {None}]
    /\ gesture = None \/ ( /\ IsCanvas(gesture.before) /\ gesture.moved \in BOOLEAN
                           /\ gesture.kind \in {"widgets", "comment", "pan"} )
    /\ clipboard \subseteq CanvasWidget
    /\ late \subseteq [of : Id, data : Data]
    /\ count \in [widgets : 0..MaxWidgets, comments : 0..MaxComments, acts : 0..MaxActs,
                  picks : 0..MaxPicks, saves : 0..MaxSaves]

Unselected == [widgets |-> {}, link |-> None]

\* loadCanvas
loadCanvas == IF stored = None THEN EmptyCanvas ELSE stored

Init ==
    /\ open = TRUE /\ stored \in Stored /\ canvas = loadCanvas /\ timer = "running"
    /\ undoStack = <<>> /\ redoStack = <<>> /\ historyEntries = <<>>
    /\ selection = Unselected /\ tool = [name |-> "select", source |-> None]
    /\ gesture = None /\ clipboard = {} /\ late = {} /\ stray = FALSE
    /\ count = [widgets |-> Cardinality(DOMAIN canvas.widgets),
                comments |-> Cardinality(DOMAIN canvas.comments), acts |-> 0,
                picks |-> 0, saves |-> 0]

-----------------------------------------------------------------------------
Last50(s) == SubSeq(s, IF Len(s) > Keep THEN Len(s) - Keep + 1 ELSE 1, Len(s))
First50(s) == SubSeq(s, 1, IF Len(s) > Keep THEN Keep ELSE Len(s))

\* Something new on the canvas is saved when nothing changed for a while.
setCanvasDirect(next) == canvas' = next /\ timer' = "running"

recordChange(before) ==
    /\ undoStack' = Last50(Append(undoStack, before)) /\ redoStack' = <<>>
    /\ historyEntries' = First50(<<canvas'>> \o historyEntries)

\* mutateCanvas and replaceCanvas
mutateCanvas(next) == setCanvasDirect(next) /\ recordChange(canvas)

UnchangedHistory == UNCHANGED <<undoStack, redoStack, historyEntries>>

\* During a drag the pointer is taken: what is left are keys, timers, the wheel.
Key == open /\ count.acts < MaxActs
Pointer == Key /\ gesture = None
Tick == count' = [count EXCEPT !.acts = @ + 1]
Pick == open /\ count.picks < MaxPicks /\ count' = [count EXCEPT !.picks = @ + 1]

There == DOMAIN canvas.widgets
Present(ids) == ids \cap There

\* Some widgets are changed, each to what a function makes of it.
Changed(c, ids, to) ==
    [c EXCEPT !.widgets = [w \in DOMAIN @ |-> IF w \in ids THEN to[@[w]] ELSE @[w]]]

\* Variant: the connectors of a widget that is removed stay.
WithoutWidgetsOnly(c, ids) ==
    [c EXCEPT !.widgets = [w \in DOMAIN @ \ ids |-> @[w]],
              !.comments = [k \in {j \in DOMAIN @ : @[j].on \notin ids} |-> @[k]]]

\* Widgets are removed with their connectors and comments.
Without(c, ids) ==
    [c EXCEPT !.widgets = [w \in DOMAIN @ \ ids |-> @[w]],
              !.links = {l \in @ : l[1] \notin ids /\ l[2] \notin ids},
              !.comments = [k \in {j \in DOMAIN @ : @[j].on \notin ids} |-> @[k]]]

\* New widgets, one for each of a sequence, at the next identities.
With(c, new) ==
    [c EXCEPT !.widgets = [w \in DOMAIN @ \cup (count.widgets + 1 .. count.widgets + Len(new)) |->
        IF w \in DOMAIN @ THEN @[w] ELSE new[w - count.widgets]]]

Make(new) ==
    /\ count.widgets + Len(new) <= MaxWidgets
    /\ mutateCanvas(With(canvas, new))
    /\ count' = [count EXCEPT !.acts = @ + 1, !.widgets = @ + Len(new)]

Made(new) == count.widgets + 1 .. count.widgets + Len(new)

NewWidget == [look |-> 0, locked |-> FALSE,
              data |-> [text |-> 0, card |-> "idle", file |-> FALSE]]

-----------------------------------------------------------------------------
(* Changes that are recorded.                                               *)
addWidget ==
    /\ Pointer /\ Make(<<NewWidget>>)
    /\ selection' = [widgets |-> Made(<<NewWidget>>), link |-> None]
    /\ tool' = [tool EXCEPT !.name = "select"]
    /\ UNCHANGED <<open, stored, gesture, clipboard, late, stray>>

\* A file is dropped: a widget is added, and the file is read for it.
dropFiles ==
    /\ Pointer /\ Make(<<NewWidget>>)
    /\ selection' = [widgets |-> Made(<<NewWidget>>), link |-> None]
    /\ tool' = [tool EXCEPT !.name = "select"]
    /\ late' = late \cup {[of |-> count.widgets + 1,
                           data |-> [NewWidget.data EXCEPT !.file = TRUE]]}
    /\ UNCHANGED <<open, stored, gesture, clipboard, stray>>

\* A widget is changed: what it says, how it looks, whether it is locked.
updateWidget(w, to) ==
    /\ Pointer /\ w \in There /\ Tick /\ mutateCanvas(Changed(canvas, {w}, to))
    /\ UNCHANGED <<open, stored, selection, tool, gesture, clipboard, late, stray>>

Type(w, text) ==
    /\ canvas.widgets[w].data.text # text
    /\ updateWidget(w, [v \in CanvasWidget |-> [v EXCEPT !.data.text = text]])

Lock(w) == updateWidget(w, [v \in CanvasWidget |-> [v EXCEPT !.locked = ~@]])

\* Its menu also brings it forward or backward, which is to select it and
\* then layerSelection.
Collapse(w) == updateWidget(w, [v \in CanvasWidget |-> [v EXCEPT !.look = 1 - @]])

\* The file viewer reads a file, to be put in the data that it showed.
loadFile(w) ==
    /\ Pointer /\ w \in There /\ ~canvas.widgets[w].data.file /\ Tick
    /\ late' = late \cup {[of |-> w, data |-> [canvas.widgets[w].data EXCEPT !.file = TRUE]]}
    /\ UnchangedHistory
    /\ UNCHANGED <<open, canvas, stored, timer, selection, tool, gesture, clipboard, stray>>

\* A question is put; where no source is connected it is answered at once.
submit(w, connected) ==
    LET to == [v \in CanvasWidget |-> [v EXCEPT !.data.card = IF connected THEN "loading" ELSE "ready"]]
        data == canvas.widgets[w].data
    IN /\ Pointer /\ w \in There /\ data.card # "loading" /\ data.text # 0 /\ Tick
       /\ mutateCanvas(Changed(canvas, {w}, to))
       /\ late' = (IF connected
                   THEN late \cup {[of |-> w, data |-> [data EXCEPT !.card = "ready"]]} ELSE late)
       /\ UNCHANGED <<open, stored, selection, tool, gesture, clipboard, stray>>

\* The file or the answer arrives, with all the data that was shown then.
Arrive(a) ==
    LET to == [v \in CanvasWidget |-> [v EXCEPT !.data = a.data]]
    IN /\ open /\ late' = late \ {a}
       /\ mutateCanvas(Changed(canvas, {a.of}, to))
       /\ UNCHANGED <<open, stored, selection, tool, gesture, clipboard, stray, count>>

\* updateSelected, layerSelection and connectData, which takes the first.
updateSelected(to, ids) ==
    /\ Pointer /\ ids # {} /\ ids \subseteq selection.widgets /\ Tick
    /\ mutateCanvas(Changed(canvas, ids, to))
    /\ UNCHANGED <<open, stored, selection, tool, gesture, clipboard, late, stray>>

layerSelection ==
    updateSelected([v \in CanvasWidget |-> [v EXCEPT !.look = 1 - @]], selection.widgets)

groupSelection ==
    /\ Pointer /\ Cardinality(Present(selection.widgets)) >= 2 /\ Make(<<NewWidget>>)
    /\ selection' = [selection EXCEPT !.widgets = @ \cup Made(<<NewWidget>>)]
    /\ UNCHANGED <<open, stored, tool, gesture, clipboard, late, stray>>

addComment(on) ==
    LET k == count.comments + 1
    IN /\ Pointer /\ k <= MaxComments
       /\ mutateCanvas([canvas EXCEPT !.comments =
              [j \in DOMAIN @ \cup {k} |-> IF j = k THEN [on |-> on, look |-> 0] ELSE @[j]]])
       /\ tool' = [tool EXCEPT !.name = "select"]
       /\ count' = [count EXCEPT !.acts = @ + 1, !.comments = k]
       /\ UNCHANGED <<open, stored, selection, gesture, clipboard, late, stray>>

\* The comments panel changes a comment, or deletes it.
updateComment(k, deleted) ==
    LET comments == canvas.comments
        becomes == IF deleted THEN [j \in DOMAIN comments \ {k} |-> comments[j]]
                   ELSE [comments EXCEPT ![k].look = 1 - @]
    IN /\ Pointer /\ k \in DOMAIN comments /\ Tick
       /\ mutateCanvas([canvas EXCEPT !.comments = becomes])
       /\ UNCHANGED <<open, stored, selection, tool, gesture, clipboard, late, stray>>

removeSelection ==
    /\ Key /\ selection # Unselected /\ Tick
    /\ IF selection.link # None
       THEN /\ mutateCanvas([canvas EXCEPT !.links = @ \ {selection.link}])
            /\ selection' = [selection EXCEPT !.link = None]
       ELSE /\ mutateCanvas(Without(canvas, selection.widgets))
            /\ selection' = [selection EXCEPT !.widgets = {}]
    /\ UNCHANGED <<open, stored, tool, gesture, clipboard, late, stray>>

\* The menu of a widget removes it.
removeWidget(w) ==
    /\ Pointer /\ w \in There /\ Tick /\ mutateCanvas(Without(canvas, {w}))
    /\ selection' = [selection EXCEPT !.widgets = {}]
    /\ UNCHANGED <<open, stored, tool, gesture, clipboard, late, stray>>

Copied == {canvas.widgets[w] : w \in Present(selection.widgets)}

copySelection ==
    /\ Pick /\ clipboard' = Copied /\ UnchangedHistory
    /\ UNCHANGED <<open, canvas, stored, timer, selection, tool, gesture, late, stray>>

Paste(copies) ==
    LET new == SetToSeq({[v EXCEPT !.locked = FALSE] : v \in copies})
    IN /\ copies # {} /\ Make(new)
       /\ selection' = [selection EXCEPT !.widgets = Made(new)]
       /\ UNCHANGED <<open, stored, tool, gesture, late, stray>>

pasteClipboard == Key /\ Paste(clipboard) /\ UNCHANGED clipboard
duplicateSelection == Key /\ Paste(Copied) /\ clipboard' = Copied

\* Any earlier state of the history is put back, as a change.
Restore(i) ==
    /\ Pointer /\ Tick /\ mutateCanvas(historyEntries[i])
    /\ UNCHANGED <<open, stored, selection, tool, gesture, clipboard, late, stray>>

-----------------------------------------------------------------------------
(* Undo and redo, which keys may call in the middle of a drag.              *)
undo ==
    /\ Pick /\ undoStack # <<>>
    /\ redoStack' = Last50(Append(redoStack, canvas))
    /\ setCanvasDirect(Last(undoStack)) /\ undoStack' = Front(undoStack)
    /\ selection' = Unselected
    /\ UNCHANGED <<open, stored, historyEntries, tool, gesture, clipboard, late, stray>>

redo ==
    /\ open /\ redoStack # <<>>
    /\ undoStack' = Last50(Append(undoStack, canvas))
    /\ setCanvasDirect(Last(redoStack)) /\ redoStack' = Front(redoStack)
    /\ selection' = Unselected
    /\ UNCHANGED <<open, stored, historyEntries, tool, gesture, clipboard, late, stray, count>>

-----------------------------------------------------------------------------
(* Selecting, and the tools.                                                *)
Select(widgets, link) ==
    /\ Pick /\ gesture = None /\ tool.name = "select"
    /\ selection' = [widgets |-> widgets, link |-> link]
    /\ UnchangedHistory
    /\ UNCHANGED <<open, canvas, stored, timer, tool, gesture, clipboard, late, stray>>

\* A widget alone or with the others, a connector, or what a marquee hits.
SelectSome ==
    \/ \E w \in There : Select({w}, None)
    \/ \E l \in canvas.links : {l[1], l[2]} \subseteq There /\ Select({}, l)
    \/ \E hits \in {{}, There} : Select(hits, None)

Tool(name) ==
    /\ Pick /\ gesture = None
    /\ tool' = [name |-> name, source |-> IF name = "connector" THEN tool.source ELSE None]
    /\ UnchangedHistory
    /\ UNCHANGED <<open, canvas, stored, timer, selection, gesture, clipboard, late, stray>>

\* The connector tool: a click picks the source, another draws the connector.
PickSource(w) ==
    /\ open /\ gesture = None /\ tool = [name |-> "connector", source |-> None] /\ w \in There
    /\ tool' = [tool EXCEPT !.source = w]
    /\ selection' = [selection EXCEPT !.widgets = {w}]
    /\ UnchangedHistory
    /\ UNCHANGED <<open, canvas, stored, timer, gesture, clipboard, late, stray, count>>

Connect(w) ==
    LET drawn == <<tool.source, w>>
    IN /\ Pointer /\ tool.name = "connector" /\ tool.source # None /\ w \in There /\ Tick
       /\ IF tool.source = w \/ drawn \in canvas.links
          THEN UnchangedHistory /\ UNCHANGED <<canvas, timer, stray>>
          ELSE /\ mutateCanvas([canvas EXCEPT !.links = @ \cup {drawn}])
               /\ stray' = (stray \/ tool.source \notin There)
       /\ tool' = [name |-> IF tool.source = w THEN "connector" ELSE "select", source |-> None]
       /\ UNCHANGED <<open, stored, selection, gesture, clipboard, late>>

selectWidget(w) ==
    \/ PickSource(w) \/ Connect(w)
    \/ tool.name = "comment" /\ w \in There /\ addComment(w)

-----------------------------------------------------------------------------
(* Drags, resizes and pans work on the canvas as it was when they began.    *)
Begin(kind, of) ==
    /\ Pointer /\ Tick
    /\ gesture' = [kind |-> kind, of |-> of, before |-> canvas, moved |-> FALSE]
    /\ UnchangedHistory
    /\ UNCHANGED <<open, canvas, stored, timer, tool, clipboard, late, stray>>

\* A widget is dragged with the selection it is in, or with what is inside a
\* frame; the locked ones stay.
startWidgetDrag(w, inside) ==
    LET ids == (IF w \in selection.widgets THEN selection.widgets ELSE {w}) \cup inside
    IN /\ tool.name = "select" /\ w \in There /\ ~canvas.widgets[w].locked
       /\ Begin("widgets", {v \in Present(ids) : ~canvas.widgets[v].locked})
       /\ selection' = [selection EXCEPT !.widgets = ids]

startResize(w) ==
    /\ w \in Present(selection.widgets) /\ ~canvas.widgets[w].locked
    /\ Begin("widgets", {w}) /\ UNCHANGED selection

startCommentDrag(k) ==
    /\ tool.name = "select" /\ k \in DOMAIN canvas.comments
    /\ Begin("comment", {k}) /\ UNCHANGED selection

startPan == tool.name = "hand" /\ Begin("pan", {}) /\ UNCHANGED selection

Moved(g, look) ==
    LET to == [v \in CanvasWidget |-> [v EXCEPT !.look = look]]
    IN CASE g.kind = "widgets" -> Changed(g.before, g.of, to)
         [] g.kind = "comment" -> [g.before EXCEPT !.comments =
                [k \in DOMAIN @ |-> IF k \in g.of THEN [@[k] EXCEPT !.look = look] ELSE @[k]]]
         [] OTHER -> [g.before EXCEPT !.view = look]

onStagePointerMove(look) ==
    /\ open /\ gesture # None /\ setCanvasDirect(Moved(gesture, look))
    /\ gesture' = [gesture EXCEPT !.moved = TRUE]
    /\ UnchangedHistory
    /\ UNCHANGED <<open, stored, selection, tool, clipboard, late, stray, count>>

onStagePointerUp ==
    /\ open /\ gesture # None /\ gesture' = None /\ UNCHANGED <<canvas, timer>>
    /\ IF gesture.moved THEN recordChange(gesture.before) ELSE UnchangedHistory
    /\ UNCHANGED <<open, stored, selection, tool, clipboard, late, stray, count>>

\* The wheel, the zoom buttons, the minimap: the view changes unrecorded.
onWheel ==
    /\ Key /\ Tick /\ setCanvasDirect([canvas EXCEPT !.view = 1 - @]) /\ UnchangedHistory
    /\ UNCHANGED <<open, stored, selection, tool, gesture, clipboard, late, stray>>

-----------------------------------------------------------------------------
(* The storage.                                                             *)
saveCanvas(ok) ==
    /\ open /\ timer = "running" /\ count.saves < MaxSaves
    /\ timer' = (IF ok THEN "saved" ELSE "failed") /\ stored' = (IF ok THEN canvas ELSE stored)
    /\ count' = [count EXCEPT !.saves = @ + 1]
    /\ UnchangedHistory
    /\ UNCHANGED <<open, canvas, selection, tool, gesture, clipboard, late, stray>>

\* clearSavedCanvas
Reset ==
    /\ Pointer /\ Tick /\ stored' = None /\ setCanvasDirect(EmptyCanvas)
    /\ undoStack' = <<>> /\ redoStack' = <<>> /\ historyEntries' = <<>>
    /\ selection' = Unselected
    /\ UNCHANGED <<open, tool, gesture, clipboard, late, stray>>

\* Another view is opened, which discards the rest: a save that is due, a file
\* and an answer are lost.
Discarded ==
    /\ undoStack' = <<>> /\ redoStack' = <<>> /\ historyEntries' = <<>>
    /\ selection' = Unselected /\ tool' = [name |-> "select", source |-> None]
    /\ clipboard' = {} /\ late' = {}

Leave ==
    /\ Pointer /\ Tick /\ open' = FALSE /\ canvas' = EmptyCanvas /\ timer' = "saved"
    /\ Discarded /\ UNCHANGED <<stored, gesture, stray>>

Open ==
    /\ ~open /\ open' = TRUE /\ setCanvasDirect(loadCanvas)
    /\ Discarded /\ UNCHANGED <<stored, gesture, stray, count>>

Next ==
    \/ addWidget \/ dropFiles \/ layerSelection \/ groupSelection \/ removeSelection
    \/ copySelection \/ pasteClipboard \/ duplicateSelection \/ undo \/ redo \/ SelectSome
    \/ startPan \/ onStagePointerUp \/ onWheel \/ Reset \/ Leave \/ Open
    \/ \E w \in There :
         \/ (\E text \in 0..1 : Type(w, text)) \/ Lock(w) \/ Collapse(w) \/ loadFile(w) \/ removeWidget(w)
         \/ (\E connected \in BOOLEAN : submit(w, connected))
         \/ selectWidget(w) \/ startResize(w)
         \/ (\E inside \in {{}, There} : startWidgetDrag(w, inside))
    \/ \E a \in late : Arrive(a)
    \/ tool.name = "comment" /\ addComment(None)
    \/ \E k \in DOMAIN canvas.comments :
         startCommentDrag(k) \/ (\E deleted \in BOOLEAN : updateComment(k, deleted))
    \/ \E i \in DOMAIN historyEntries : Restore(i)
    \/ \E name \in {"select", "hand", "connector", "comment"} : Tool(name)
    \/ \E look \in Look : onStagePointerMove(look)
    \/ \E ok \in BOOLEAN : saveCanvas(ok)

Spec == Init /\ [][Next]_vars

-----------------------------------------------------------------------------
Kept == Range(undoStack) \cup Range(redoStack) \cup Range(historyEntries)

(* The canvas and every copy of it that can come back joins and annotates   *)
(* only widgets it has, but for a connector drawn from a removed widget.    *)
EndsAreThere == ~stray => \A c \in {canvas, loadCanvas} \cup Kept : HasEnds(c)

(* What is shown as saved is what the storage holds, unless it refused it.  *)
SavedIsStored == open /\ timer = "saved" => stored = canvas

\* What a change is about: neither the view nor the time is undone.
Content(c) == <<c.widgets, c.links, c.comments>>

(* However drags, keys and late answers interleave, what the canvas was     *)
(* before a change can be brought back, until it is reset or left: at once  *)
(* after every change but the moves of a drag, and what there was before    *)
(* them when the drag ends.                                                 *)
ChangesCanBeUndone ==
    LET moves == /\ gesture # None /\ UnchangedHistory
                 /\ \E look \in Look : canvas' = Moved(gesture, look)
        drops == gesture # None /\ gesture' = None /\ gesture.moved
        resets == canvas' = EmptyCanvas /\ Kept' = {}
        Keeps(c) == \E k \in Kept' : Content(k) = Content(c)
    IN open /\ ~resets =>
          /\ Content(canvas') # Content(canvas) /\ ~moves => Keeps(canvas)
          /\ drops => Keeps(gesture.before)
=============================================================================
