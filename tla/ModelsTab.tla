------------------------------- MODULE ModelsTab -------------------------------
(***************************************************************************)
(* One connection of the Models tab (routes_models_stream.go).  render     *)
(* asks every running gateway for its groups, merges the answers and       *)
(* patches the browser: it remembers the card it last sent for each group  *)
(* and sends only what differs.  The first render precedes the             *)
(* registration for changes; afterwards an install or state change of a    *)
(* runtime runs a render in a goroutine of its own and the downloads       *)
(* subscription runs one in a third.  Only single patches are locked.      *)
(*                                                                         *)
(* A card is abstracted to the runtimes and the models it shows.           *)
(***************************************************************************)
EXTENDS Integers, FiniteSets

CONSTANTS
  MGateways,   \* runtimes
  MGroups,     \* model groups
  MFiles,      \* model files of a group
  Renders,     \* renders that may be in progress
  NoCard,
  MaxEdits     \* bound on the changes of gateways, files and downloads

VARIABLES
  gwUp,       \* gateways that run
  disk,       \* disk[g]: the model files of group g, which every gateway recognises
  fetching,   \* whether a download is listed
  hooked,     \* whether the connection is registered for changes
  wakes,      \* changes whose render has not begun
  lastGroupHTML, lastEmpty,  \* what the renderer remembers
  cards,      \* cards[g]: how many cards of g the browser shows, and the card
  body,       \* what #models-list holds: "" (nothing yet), an empty state, or "inner"
  rd,         \* rd[r]: [pc, gws, got] of render r
  overlapped, \* history: a render began while another was in progress
  edits

mtVars  == <<gwUp, disk, fetching, hooked, wakes, lastGroupHTML, lastEmpty, cards, body, rd, overlapped, edits>>
world   == <<gwUp, disk, fetching, edits>>
browser == <<cards, body>>
memory  == <<lastGroupHTML, lastEmpty>>

NoCards  == [g \in MGroups |-> [n |-> 0, card |-> NoCard]]
NoMemory == [g \in MGroups |-> NoCard]
RdIdle   == [pc |-> "idle", gws |-> {}, got |-> NoMemory]

MtInit ==
  /\ gwUp \in SUBSET MGateways /\ disk \in [MGroups -> SUBSET MFiles] /\ fetching = FALSE
  /\ hooked = FALSE /\ wakes = 1  \* the first render
  /\ lastGroupHTML = NoMemory /\ lastEmpty = ""
  /\ cards = NoCards /\ body = ""
  /\ rd = [r \in Renders |-> RdIdle] /\ overlapped = FALSE /\ edits = 0

MtTypeOK ==
  /\ gwUp \subseteq MGateways /\ disk \in [MGroups -> SUBSET MFiles]
  /\ lastEmpty \in {"", "loading", "no runtime", "no models", "inner"}
  /\ body \in {"", "loading", "no runtime", "no models", "inner"}
  /\ \A g \in MGroups : cards[g].n \in 0..Cardinality(Renders)
  /\ \A r \in Renders : rd[r].pc \in {"idle", "list", "emit", "remember"}
  /\ wakes \in 0..MaxEdits + 1 /\ edits \in 0..MaxEdits

-----------------------------------------------------------------------------
(* What happens beside the connection.                                     *)

Edit == edits < MaxEdits /\ edits' = edits + 1
Fires == wakes' = IF hooked THEN wakes + 1 ELSE wakes

\* A gateway starts or stops, or a runtime is installed: the manager's callbacks run.
fireStateChange(k) ==
  /\ Edit /\ Fires
  /\ gwUp' = IF k \in gwUp THEN gwUp \ {k} ELSE gwUp \cup {k}
  /\ UNCHANGED <<disk, fetching, hooked, memory, browser, rd, overlapped>>

\* A file is deleted through a gateway: the catalogue change is fired.
FireStateChange(g, f) ==
  /\ f \in disk[g] /\ gwUp # {} /\ Edit /\ Fires
  /\ disk' = [disk EXCEPT ![g] = @ \ {f}]
  /\ UNCHANGED <<gwUp, fetching, hooked, memory, browser, rd, overlapped>>

\* A download starts, and ends with or without its file.
subscribeDownloadsForRender(g, f) ==
  /\ Edit /\ Fires /\ fetching' = ~fetching
  /\ disk' = IF fetching THEN [disk EXCEPT ![g] = @ \cup {f}] ELSE disk
  /\ UNCHANGED <<gwUp, hooked, memory, browser, rd, overlapped>>

\* The handler registers once its own first render has returned.
AddOnStateChange ==
  /\ ~hooked /\ wakes = 0 /\ \A r \in Renders : rd[r].pc = "idle"
  /\ hooked' = TRUE
  /\ UNCHANGED <<world, wakes, memory, browser, rd, overlapped>>

-----------------------------------------------------------------------------
(* render.                                                                 *)

writePatchInner(b) == body' = b /\ cards' = NoCards

\* Mutant: an empty state leaves the memory of the groups alone.
EmptyKeepsMemory(b) ==
  IF b = lastEmpty /\ lastGroupHTML = NoMemory THEN UNCHANGED <<memory, browser>>
  ELSE writePatchInner(b) /\ lastEmpty' = b /\ UNCHANGED lastGroupHTML

\* emitEmpty replaces the list and forgets the groups, unless the browser shows it already.
emitEmpty(b) ==
  IF b = lastEmpty /\ lastGroupHTML = NoMemory THEN UNCHANGED <<memory, browser>>
  ELSE writePatchInner(b) /\ lastEmpty' = b /\ lastGroupHTML' = NoMemory

\* A render begins: with gateways and nothing shown, the spinner comes first.
RenderBegins(r) ==
  /\ rd[r].pc = "idle" /\ wakes > 0 /\ wakes' = wakes - 1
  /\ overlapped' = (overlapped \/ \E q \in Renders : rd[q].pc # "idle")
  /\ rd' = [rd EXCEPT ![r] = [RdIdle EXCEPT !.pc = "list", !.gws = gwUp]]
  /\ IF gwUp # {} /\ lastGroupHTML = NoMemory THEN emitEmpty("loading")
     ELSE UNCHANGED <<memory, browser>>
  /\ UNCHANGED <<world, hooked>>

\* aggregate merges the groups of the gateways that answer: one card per group, with the
\* union of the models and the runtimes that list it.
aggregate(answering) ==
  [g \in MGroups |-> IF answering = {} \/ disk[g] = {} THEN NoCard
                     ELSE [files |-> disk[g], runtimes |-> answering]]

RenderLists(r) ==
  /\ rd[r].pc = "list"
  /\ \E answering \in SUBSET rd[r].gws :
       rd' = [rd EXCEPT ![r].got = aggregate(answering), ![r].pc = "emit"]
  /\ UNCHANGED <<world, hooked, wakes, memory, browser, overlapped>>

\* What the patches of emitGroups do to the browser, given what is remembered: a new
\* group is appended, a changed one replaced, a missing one removed.  A patch for a card
\* that is not there does nothing; an appended card may be a second one.
Patched(got) ==
  LET base == IF lastGroupHTML = NoMemory THEN NoCards ELSE cards IN
  [g \in MGroups |->
     CASE got[g] = NoCard /\ lastGroupHTML[g] # NoCard -> [n |-> 0, card |-> NoCard]
       [] got[g] # NoCard /\ lastGroupHTML[g] = NoCard -> [n |-> base[g].n + 1, card |-> got[g]]
       [] got[g] # NoCard /\ lastGroupHTML[g] \notin {NoCard, got[g]} /\ base[g].n > 0 -> [base[g] EXCEPT !.card = got[g]]
       [] OTHER -> base[g]]

\* Empty states, or the groups: their patches are written first, the memory after.
RenderEmits(r) ==
  /\ rd[r].pc = "emit"
  /\ IF rd[r].gws = {} THEN emitEmpty("no runtime") /\ rd' = [rd EXCEPT ![r] = RdIdle]
     ELSE IF rd[r].got = NoMemory
     THEN emitEmpty(IF fetching THEN "inner" ELSE "no models") /\ rd' = [rd EXCEPT ![r] = RdIdle]
     ELSE /\ cards' = Patched(rd[r].got) /\ rd' = [rd EXCEPT ![r].pc = "remember"]
          /\ IF lastGroupHTML = NoMemory THEN body' = "inner" /\ lastEmpty' = "" ELSE UNCHANGED <<body, lastEmpty>>
          /\ UNCHANGED lastGroupHTML
  /\ UNCHANGED <<world, hooked, wakes, overlapped>>

RenderRemembers(r) ==
  /\ rd[r].pc = "remember"
  /\ lastGroupHTML' = rd[r].got /\ rd' = [rd EXCEPT ![r] = RdIdle]
  /\ UNCHANGED <<world, hooked, wakes, lastEmpty, browser, overlapped>>

MtNext ==
  \/ AddOnStateChange
  \/ \E k \in MGateways : fireStateChange(k)
  \/ \E g \in MGroups, f \in MFiles : FireStateChange(g, f) \/ subscribeDownloadsForRender(g, f)
  \/ \E r \in Renders : RenderBegins(r) \/ RenderLists(r) \/ RenderEmits(r) \/ RenderRemembers(r)

MtSpec == MtInit /\ [][MtNext]_mtVars

-----------------------------------------------------------------------------
(* Properties.                                                             *)

Shows ==
  /\ \A g \in MGroups : cards[g] = IF lastGroupHTML[g] = NoCard THEN [n |-> 0, card |-> NoCard]
                                   ELSE [n |-> 1, card |-> lastGroupHTML[g]]
  /\ lastGroupHTML = NoMemory => body = lastEmpty
  /\ lastGroupHTML # NoMemory => body = "inner"

Quiet == \A r \in Renders : rd[r].pc = "idle"

\* Between renders the browser shows exactly what the renderer remembers: one card, the
\* last one sent, for each group, or else the empty state.  So the next difference that
\* emitGroups sends lands, through every sequence of starts, stops, downloads, deletions
\* and gateways that do not answer, as long as no two renders have overlapped.
CardsMatchMemory == Quiet /\ ~overlapped => Shows

\* The same with no such condition, which render's comment promises ("the smallest set of
\* Datastar patches that brings the browser in line").  It fails: two renders that
\* overlap both append a card, or one patches what the other is about to forget.
BrowserInLine == Quiet => Shows
=============================================================================
