---------------------------- MODULE EditorSession -----------------------------
(***************************************************************************)
(* The editor of the open note: the engine (patches/integration/editor.ts),*)
(* its component (MarkdownEditor.tsx), what the workspace makes of its     *)
(* changes (useNoteEditorIntegration.ts, useWorkspaceEditorMode.ts) and of *)
(* its identity (editorSessionId).                                         *)
(*                                                                         *)
(* While an input method composes, the engine announces nothing and puts   *)
(* off loads, modes and permissions; 20 ms after the composition it goes   *)
(* through them (Flush).  An operator on a world w is a function of the    *)
(* engine; an action applies some of them.  A text is the set of the edits *)
(* in it.  React renders before the next input of the user, and later than *)
(* anything else it pleases.  Positions, scrolling and the outline are     *)
(* left out: an insertion has a place, or lost it.                         *)
(***************************************************************************)
EXTENDS Naturals, FiniteSets

CONSTANTS Notes,      \* objects that may be notes
          First,      \* the notes there are at first
          Edits,      \* what the user may type, in order
          Images,     \* pasted into the editor
          Files,      \* added with the picker
          Theirs,     \* an edit of another device
          MaxSwitches,\* what the user does besides editing
          Meanwhile,  \* texts change also during a composition, images arrive before a render
          None

EditorAssumption ==
  /\ First \subseteq Notes /\ First # {} /\ Edits \cup Images \cup Files \subseteq Nat
  /\ Edits \cap Images = {} /\ Edits \cap Files = {} /\ Images \cap Files = {}
  /\ Theirs \notin Edits \cup Images \cup Files /\ MaxSwitches \in Nat /\ Meanwhile \in BOOLEAN

VARIABLES
  listed, held, locked,   \* the notes, their texts, the locked ones
  active, previewing, remount,   \* what the workspace shows; a new editor session is due
  source, reading,        \* the device's switches: source visible, read-only
  props, shown,           \* of the last render; the text the component knows
  engine, places, files,  \* the engine; insertions and added files that are under way
  origin, erased, dropped, overwritten, typed, switches   \* history

vars == <<listed, held, locked, active, previewing, remount, source, reading, props, shown,
          engine, places, files, origin, erased, dropped, overwritten, typed, switches>>

Tokens == Edits \cup Images \cup Files \cup {Theirs}
Modes == {"live", "source", "reading"}
Off == [on |-> FALSE]
Nowhere == [state |-> "none"]

Init ==
  /\ listed = First /\ held = [n \in Notes |-> {}] /\ locked = {}
  /\ active \in First /\ previewing = FALSE /\ remount = FALSE
  /\ source = FALSE /\ reading = FALSE
  /\ props = None /\ shown = {} /\ engine = Off
  /\ places = [i \in Images |-> Nowhere] /\ files = [f \in Files |-> None]
  /\ origin = [t \in Tokens |-> {}] /\ erased = {} /\ dropped = {} /\ overwritten = {}
  /\ typed = {} /\ switches = 0

(* useWorkspaceEditorMode and effectiveEditorMode. *)
ReadOnly == reading \/ active \in locked
EffectiveMode == IF source THEN "source" ELSE IF ReadOnly THEN "reading" ELSE "live"

Wanted ==
  IF active = None \/ previewing THEN None
  ELSE [key |-> active, text |-> held[active], mode |-> EffectiveMode, readOnly |-> ReadOnly]

Rendered == props = Wanted /\ ~ remount

-----------------------------------------------------------------------------
(* The engine.  context.readOnly; composing or the view's composing. *)
Protected(e) == e.forced \/ e.mode = "reading"
Busy(e) == e.composing \/ (e.ime /\ e.mode # "source")

World == [engine |-> engine, held |-> held, shown |-> shown, props |-> props,
          source |-> source, places |-> places, dropped |-> dropped,
          overwritten |-> overwritten]

(* History: the surface an image was pasted into is there and editable.    *)
SameSurface(e) ==
  engine.on /\ e.on /\ e.mode = engine.mode /\ e.key = engine.key /\ ~ Protected(e)

Becomes(w) ==
  /\ engine' = w.engine /\ held' = w.held /\ shown' = w.shown /\ props' = w.props
  /\ source' = w.source /\ dropped' = w.dropped /\ overwritten' = w.overwritten
  /\ places' = [i \in Images |->
                  IF w.places[i].state # "saving" THEN w.places[i]
                  ELSE [w.places[i] EXCEPT !.still = @ /\ SameSurface(w.engine)]]

Unplaced(w) ==
  [w EXCEPT !.places = [i \in Images |-> IF @[i].state = "saving" THEN [@[i] EXCEPT !.valid = FALSE]
                                         ELSE @[i]]]

(* onChange of the workspace: a text goes to the note it names, unless that  *)
(* is in the trash or locked.                                                *)
Patched(w, key, text) ==
  IF key \notin listed \ locked THEN [w EXCEPT !.dropped = @ \cup (text \ w.held[key])]
  ELSE [w EXCEPT !.held[key] = text,
                 !.overwritten = @ \cup {t \in w.held[key] \ text : <<key, t>> \notin erased}]

Emit(w, text) ==
  IF text = w.engine.markdown THEN w
  ELSE LET seen == IF w.props.key = w.engine.key THEN [w EXCEPT !.shown = text] ELSE w
       IN Patched([seen EXCEPT !.engine.markdown = text], w.engine.key, text)

(* onModeChange: a switch of the engine itself becomes the device's. *)
Switched(w, next) ==
  IF next # w.props.mode /\ (next = "source") # (w.props.mode = "source")
    THEN [w EXCEPT !.source = (next = "source")] ELSE w

(* A composition that is open when its surface is hidden ends with it.     *)
SetMode(w, next) ==
  LET e == w.engine
      text == IF "source" \in {e.mode, next} THEN e.markdown ELSE e.surface
  IN IF Busy(e) THEN [w EXCEPT !.engine.toMode = IF next = e.mode THEN None ELSE next]
     ELSE IF next = e.mode THEN w
     ELSE Switched([Unplaced(w) EXCEPT !.engine.mode = next, !.engine.surface = text,
                                       !.engine.ime = FALSE, !.engine.timer = @ \/ e.ime], next)

SetReadOnly(w, next) ==
  LET u == IF next THEN Unplaced(w) ELSE w
  IN IF Busy(w.engine) THEN [u EXCEPT !.engine.toRead = next]
     ELSE [u EXCEPT !.engine.forced = next]

(* A load spoils every insertion at once, also when it has to wait.        *)
LoadDocument(w, key, text) ==
  IF Busy(w.engine) THEN [Unplaced(w) EXCEPT !.engine.load = [key |-> key, text |-> text]]
  ELSE [Unplaced(w) EXCEPT !.engine.key = key, !.engine.markdown = text, !.engine.surface = text]

(* The composed text goes to the document it was composed in; then what was *)
(* put off happens, in this order.                                          *)
Composed(w) ==
  LET idle == [w EXCEPT !.engine.composing = FALSE]
  IN IF w.engine.composing /\ ~ Protected(w.engine) THEN Emit(idle, w.engine.surface) ELSE idle

Loaded(w) ==
  IF w.engine.load = None THEN w
  ELSE LoadDocument([w EXCEPT !.engine.load = None], w.engine.load.key, w.engine.load.text)

Permitted(w) ==
  IF w.engine.toRead = None THEN w
  ELSE SetReadOnly([w EXCEPT !.engine.toRead = None], w.engine.toRead)

Moded(w) ==
  IF w.engine.toMode = None THEN w
  ELSE SetMode([w EXCEPT !.engine.toMode = None], w.engine.toMode)

Flushed(w) == Moded(Permitted(Loaded(Composed(w))))

Flush ==
  /\ engine.on /\ engine.timer
  /\ IF engine.ime /\ engine.mode # "source" THEN FALSE   \* tries again in 20 ms
     ELSE Becomes(Flushed([World EXCEPT !.engine.timer = FALSE]))
  /\ UNCHANGED <<listed, locked, active, previewing, remount, reading, files,
                 origin, erased, typed, switches>>

(* createMintEditor with the component's first effects; destroy.           *)
Created ==
  [on |-> TRUE, key |-> Wanted.key, markdown |-> Wanted.text, surface |-> Wanted.text,
   mode |-> IF Wanted.readOnly \/ Wanted.mode = "reading" THEN "reading" ELSE "live",
   forced |-> Wanted.readOnly \/ Wanted.mode = "reading",
   composing |-> FALSE, ime |-> FALSE, timer |-> FALSE,
   load |-> None, toMode |-> None, toRead |-> None]

Destroyed(w) ==
  [Unplaced(w) EXCEPT !.engine = Off,
     !.dropped = @ \cup IF w.engine.on THEN w.engine.surface \ w.engine.markdown ELSE {}]

Mounted(w) ==
  SetMode([Destroyed(w) EXCEPT !.engine = Created, !.props = Wanted, !.shown = Wanted.text],
          Wanted.mode)

(* The effects of a render on an engine that stays.                        *)
Shown(w) ==
  IF Wanted.key = props.key /\ shown = Wanted.text THEN w
  ELSE LoadDocument([w EXCEPT !.shown = Wanted.text], Wanted.key, Wanted.text)

Updated(w) ==
  LET u == Shown([w EXCEPT !.props = Wanted])
      v == IF <<Wanted.readOnly, Wanted.mode>> = <<props.readOnly, props.mode>> THEN u
           ELSE SetReadOnly(u, Wanted.readOnly \/ Wanted.mode = "reading")
  IN IF Wanted.mode = props.mode THEN v ELSE SetMode(v, Wanted.mode)

Render ==
  /\ ~ Rendered /\ remount' = FALSE
  /\ Becomes(CASE Wanted = None -> [Destroyed(World) EXCEPT !.props = None]
               [] Wanted # None /\ (props = None \/ remount) -> Mounted(World)
               [] OTHER -> Updated(World))
  /\ UNCHANGED <<listed, locked, active, previewing, reading, files,
                 origin, erased, typed, switches>>

-----------------------------------------------------------------------------
(* A text that changes under a composition, or right before an image arrives *)
(* and is rendered, is replaced by what the engine had (README.md).          *)
Undisturbed == engine.on /\ engine.composing => Meanwhile

(* Input in the editor.  While composing, nothing is announced. *)
Input(w, text) ==
  LET u == [w EXCEPT !.engine.surface = text]
  IN IF Busy(w.engine) THEN u ELSE Emit(u, text)

Editable == engine.on /\ Rendered /\ ~ Protected(engine)
Fresh == {e \in Edits \ typed : \A f \in Edits \ typed : e <= f}
InEditor == <<listed, locked, active, previewing, remount, reading, files>>

Type(e) ==
  /\ Editable /\ e \in Fresh /\ typed' = typed \cup {e}
  /\ origin' = [origin EXCEPT ![e] = {engine.key}]
  /\ Becomes(Input(World, engine.surface \cup {e}))
  /\ UNCHANGED <<InEditor, erased, switches>>

(* Text is deleted, and with it the places of insertions next to it, or not. *)
Erase(t) ==
  /\ Editable /\ t \in engine.surface
  /\ erased' = erased \cup {<<engine.key, t>>}
  /\ \E near \in BOOLEAN :
       LET w == [(IF near THEN Unplaced(World) ELSE World)
                   EXCEPT !.engine.surface = engine.surface \ {t}]
           u == IF Busy(engine) THEN w
                ELSE LET v == [w EXCEPT !.held = held] IN Emit(v, engine.surface \ {t})
       IN Becomes([u EXCEPT !.overwritten = @ \ {t}])
  /\ UNCHANGED <<InEditor, origin, typed, switches>>

(* A property of the front matter, written from the text last rendered.    *)
Property(e) ==
  /\ Editable /\ engine.mode # "source" /\ ~ Busy(engine)
  /\ e \in Fresh /\ typed' = typed \cup {e}
  /\ origin' = [origin EXCEPT ![e] = {engine.key}]
  /\ Becomes(Input(Unplaced(World), props.text \cup {e}))
  /\ UNCHANGED <<InEditor, erased, switches>>

ComposeStart ==
  /\ Editable /\ ~ engine.ime
  /\ engine' = [engine EXCEPT !.ime = TRUE, !.composing = TRUE]
  /\ UNCHANGED <<InEditor, held, shown, props, source, places, origin, erased, dropped,
                 overwritten, typed, switches>>

ComposeEnd ==
  /\ engine.on /\ engine.ime
  /\ engine' = [engine EXCEPT !.ime = FALSE, !.timer = TRUE]
  /\ UNCHANGED <<InEditor, held, shown, props, source, places, origin, erased, dropped,
                 overwritten, typed, switches>>

(* insertImage: the place is marked, the image is saved, and then it must  *)
(* still be the same engine, note and place.                               *)
Paste(i) ==
  /\ engine.on /\ Rendered /\ places[i] = Nowhere
  /\ ~ props.readOnly /\ engine.mode # "reading"
  /\ places' = [places EXCEPT ![i] = [state |-> "saving", note |-> props.key,
                                       valid |-> ~ Protected(engine),
                                       still |-> ~ Protected(engine)]]
  /\ origin' = [origin EXCEPT ![i] = {props.key}]
  /\ UNCHANGED <<InEditor, held, shown, props, source, engine, erased, dropped, overwritten,
                 typed, switches>>

Inserts(i) ==
  /\ engine.on /\ props.key = places[i].note /\ places[i].valid
  /\ ~ Busy(engine) /\ ~ Protected(engine)

Saved(i) ==
  /\ places[i].state = "saving" /\ (Rendered \/ Meanwhile)
  /\ \E ok \in BOOLEAN :
       Becomes(IF ok /\ Inserts(i)
                 THEN Input([World EXCEPT !.places[i] =
                               [state |-> IF @.still THEN "inserted" ELSE "misplaced"]],
                            engine.surface \cup {i})
                 ELSE [World EXCEPT !.places[i] = [state |-> "cancelled"]])
  /\ UNCHANGED <<InEditor, origin, erased, typed, switches>>

-----------------------------------------------------------------------------
(* The workspace.  What the user does there counts as a switch.            *)
Acts == switches < MaxSwitches /\ switches' = switches + 1
Beside == <<engine, shown, props, places, dropped, overwritten, typed, erased>>

(* Mod-/ in the editor. *)
Toggle ==
  /\ Acts /\ engine.on /\ Rendered
  /\ Becomes(SetMode(World, IF engine.mode # "source" THEN "source"
                            ELSE IF engine.forced THEN "reading" ELSE "live"))
  /\ UNCHANGED <<InEditor, origin, erased, typed>>

ToggleSource ==
  /\ Acts /\ Rendered /\ active # None /\ ~ previewing
  /\ source' = ~ source
  /\ UNCHANGED <<listed, held, locked, active, previewing, remount, reading, files, origin, Beside>>

ToggleReadOnly ==
  /\ Acts /\ Rendered /\ active # None /\ ~ previewing /\ active \notin locked
  /\ reading' = ~ reading
  /\ UNCHANGED <<listed, held, locked, active, previewing, remount, source, files, origin, Beside>>

(* selectDocument, createDocument, duplicateDocument: a new session. *)
Select(n) ==
  /\ Acts /\ n \in listed \ {active}
  /\ active' = n /\ remount' = TRUE /\ previewing' = FALSE
  /\ UNCHANGED <<listed, held, locked, source, reading, files, origin, Beside>>

ToggleLock ==
  /\ Acts /\ active # None
  /\ locked' = IF active \in locked THEN locked \ {active} ELSE locked \cup {active}
  /\ remount' = TRUE
  /\ UNCHANGED <<listed, held, active, previewing, source, reading, files, origin, Beside>>

(* The note goes to the trash: it is stored first, then nothing is open.   *)
Trash ==
  /\ Acts /\ active # None
  /\ listed' = listed \ {active} /\ active' = None /\ remount' = TRUE
  /\ UNCHANGED <<held, locked, previewing, source, reading, files, origin, Beside>>

Preview ==
  /\ Acts /\ active # None /\ previewing' = ~ previewing
  /\ UNCHANGED <<listed, held, locked, active, remount, source, reading, files, origin, Beside>>

(* restoreHistoryAsCurrent: back to the empty text. *)
Restore ==
  /\ Acts /\ previewing /\ active \notin locked \cup {None}
  /\ held' = [held EXCEPT ![active] = {}]
  /\ erased' = erased \cup ({active} \X held[active])
  /\ previewing' = FALSE /\ remount' = TRUE
  /\ UNCHANGED <<listed, locked, active, source, reading, files, origin,
                 engine, shown, props, places, dropped, overwritten, typed>>

(* The picker: the note is remembered, and its text of later is extended.  *)
Pick(f) ==
  /\ Acts /\ Rendered /\ active # None /\ ~ previewing /\ ~ ReadOnly /\ files[f] = None
  /\ files' = [files EXCEPT ![f] = active] /\ origin' = [origin EXCEPT ![f] = {active}]
  /\ UNCHANGED <<listed, held, locked, active, previewing, remount, source, reading, Beside>>

Added(f) ==
  /\ Undisturbed /\ files[f] \in Notes
  /\ held' = IF files[f] \in listed \ locked /\ ~ ReadOnly /\ ~ previewing
               THEN [held EXCEPT ![files[f]] = @ \cup {f}] ELSE held
  /\ files' = [files EXCEPT ![f] = "added"]
  /\ UNCHANGED <<listed, locked, active, previewing, remount, source, reading, origin,
                 switches, Beside>>

(* A pull finds another device's version of the open note: what is here    *)
(* goes to a copy, which is opened in the same session.                    *)
Conflict(copy) ==
  /\ Undisturbed /\ active # None /\ copy \in Notes \ First /\ origin[Theirs] = {}
  /\ listed' = listed \cup {copy} /\ active' = copy
  /\ held' = [held EXCEPT ![copy] = held[active], ![active] = {Theirs}]
  /\ origin' = [t \in Tokens |-> IF t = Theirs THEN origin[t] \cup {active}
                                 ELSE IF t \in held[active] THEN origin[t] \cup {copy}
                                 ELSE origin[t]]
  /\ UNCHANGED <<locked, previewing, remount, source, reading, files, switches, Beside>>

EditingStep ==
  \/ Flush \/ Render \/ ComposeStart \/ ComposeEnd
  \/ \E e \in Edits : Type(e) \/ Property(e)
  \/ \E t \in Tokens : Erase(t)
  \/ \E i \in Images : Paste(i) \/ Saved(i)

WorkspaceStep ==
  \/ Toggle \/ ToggleSource \/ ToggleReadOnly \/ ToggleLock \/ Trash \/ Preview \/ Restore
  \/ \E n \in Notes : Select(n) \/ Conflict(n)
  \/ \E f \in Files : Pick(f) \/ Added(f)

Next == EditingStep \/ WorkspaceStep

-----------------------------------------------------------------------------
TypeOK ==
  /\ listed \subseteq Notes /\ held \in [Notes -> SUBSET Tokens] /\ locked \subseteq Notes
  /\ active \in listed \cup {None}
  /\ engine.on => engine.mode \in Modes /\ engine.key \in Notes
  /\ engine.on <=> props # None

(* What is typed, pasted or added for a note is never written to another:  *)
(* neither a composition that ends after the editor was given another note, *)
(* nor an image that arrives late.                                         *)
EditsStayHome == \A n \in Notes : \A t \in held[n] : n \in origin[t]

(* An image goes only where the user could have typed it all the while: not *)
(* into another surface, nor into one that was read-only in between.        *)
ImagesInPlace == \A i \in Images : places[i].state # "misplaced"

(* The editor takes nothing out of a note that the user did not take out.  *)
NothingOverwritten == overwritten = {}

(* What is typed is in its note, or on its way there while composing; an   *)
(* editor that is replaced in between drops it.                            *)
TypedArrives ==
  \A e \in typed :
    \/ \E n \in Notes : e \in held[n] \/ <<n, e>> \in erased
    \/ e \in dropped
    \/ engine.on /\ engine.composing /\ e \in engine.surface

Settled ==
  engine.on /\ Rendered /\ ~ engine.composing /\ ~ engine.ime /\ ~ engine.timer

(* When nothing is under way, engine, component and workspace have the     *)
(* same text of the same note, in the mode and with the permission that    *)
(* the switches and the lock call for.                                     *)
Agreement ==
  Settled =>
    /\ engine.key = active /\ engine.surface = engine.markdown
    /\ engine.markdown = shown /\ shown = held[active]
    /\ engine.mode = EffectiveMode /\ engine.forced = ReadOnly

EditorSafe ==
  /\ TypeOK /\ EditsStayHome /\ ImagesInPlace
  /\ Meanwhile \/ (NothingOverwritten /\ TypedArrives /\ Agreement)
=============================================================================
