------------------------------ MODULE LogsView ------------------------------
(***************************************************************************)
(* The logs view of views/logs.go: a bounded buffer of lines, a cursor, the *)
(* follow flag and the scroll offset of the viewport that shows the buffer; *)
(* and the focus that `?` builds from it (app.go, diagnose/log_context.go). *)
(*                                                                         *)
(* A line is its number in the stream of its pod: the buffer holds the     *)
(* lines base .. base + count - 1, lines[i] being line base + i.  The      *)
(* cursor and the offset are indices into the buffer, as in the code.      *)
(* What a line says, the title's text and the width are left out.          *)
(***************************************************************************)
EXTENDS Integers

CONSTANTS
  MaxLines,  \* LogsViewMaxLines
  Window,    \* LogContextDefaultWindow
  Heights,   \* heights the content area may have
  MaxBatch,  \* bound: lines of one batch
  MaxFed     \* bound: lines of one pod's stream

ASSUME LinesAssumption   == MaxLines \in Nat \ {0}
ASSUME WindowAssumption  == Window \in Nat
ASSUME HeightsAssumption == Heights \subseteq Nat
ASSUME FeedAssumption    == MaxBatch \in Nat /\ MaxFed \in Nat

VARIABLES
  base,    \* lines evicted so far
  count,   \* len(v.lines)
  cursor,  \* -1 when the buffer is empty
  follow,  \* the cursor and the viewport stay at the newest line
  offset,  \* v.vp.YOffset, the index of the top row
  height,  \* v.vp.Height
  titled,  \* v.title is set
  screen,  \* contentHeight() of the last window size
  focus    \* the LogFocus of the last `?`

vars == <<base, count, cursor, follow, offset, height, titled, screen, focus>>

NoFocus == [index |-> -1, line |-> -1, windowStart |-> 0, first |-> 0, last |-> -1]
Focuses == [index : Int, line : Int, windowStart : Int, first : Int, last : Int]

TypeOK ==
  /\ base \in Nat
  /\ count \in 0..MaxLines
  /\ cursor \in -1..(count - 1)
  /\ count > 0 => cursor >= 0
  /\ follow \in BOOLEAN
  /\ offset \in Nat
  /\ height \in Nat
  /\ titled \in BOOLEAN
  /\ screen \in Heights \union {0}
  /\ focus \in Focuses

Init ==
  /\ base = 0 /\ count = 0 /\ cursor = -1 /\ follow = TRUE
  /\ offset = 0 /\ height = 0 /\ titled = FALSE /\ screen = 0
  /\ focus = NoFocus

-----------------------------------------------------------------------------
(* The viewport of bubbles, for a content of n lines and a height of h.    *)

AtLeast0(n) == IF n < 0 THEN 0 ELSE n

\* An empty content is one empty row.
Rows(n)            == IF n = 0 THEN 1 ELSE n
MaxYOffset(n, h)   == AtLeast0(Rows(n) - h)
SetYOffset(o, n, h) == IF o > MaxYOffset(n, h) THEN MaxYOffset(n, h) ELSE AtLeast0(o)
SetContent(o, n, h) == IF o > Rows(n) - 1 THEN MaxYOffset(n, h) ELSE o
AtBottom(o, n, h)  == o >= MaxYOffset(n, h)

(* The view's helpers: the cursor c on a content of n lines.               *)

EnsureCursorVisible(c, o, n, h) ==
  IF c < 0 \/ h = 0          THEN o
  ELSE IF c < o              THEN SetYOffset(c, n, h)
  ELSE IF c > o + h - 1      THEN SetYOffset(c - h + 1, n, h)
  ELSE o

\* SetContent(renderContent()) and ensureCursorVisible.
Redraw(c, o, n, h) == EnsureCursorVisible(c, SetContent(o, n, h), n, h)

\* The cursor moves to index i; on the newest line it turns follow on,
\* anywhere else off.
MoveTo(i) ==
  /\ cursor' = i
  /\ follow' = (i = count - 1)
  /\ offset' = Redraw(i, offset, count, height)
  /\ UNCHANGED <<base, count, height, titled, screen, focus>>

\* Where the cursor is once `evicted` lines have gone.
CursorUnclamped(evicted) == cursor - evicted
CursorKept(evicted)      == cursor
CursorAfter(evicted)     == AtLeast0(cursor - evicted)

\* Follow after a page scroll that left the viewport at o.
FollowKept(o)        == follow
FollowAfterScroll(o) ==
  follow /\ ~(AtBottom(offset, count, height) /\ ~AtBottom(o, count, height))

\* Where the app says the window of the focus starts.
StartUnclamped == cursor - Window
WindowStart    == AtLeast0(cursor - Window)

-----------------------------------------------------------------------------
(* The operations.                                                         *)

\* The window is resized.  The title takes a row.
SetSize(h, isTitled) ==
  /\ height' = IF isTitled THEN AtLeast0(h - 1) ELSE h
  /\ screen' = h

WindowSize(h) ==
  /\ SetSize(h, titled)
  /\ offset' = Redraw(cursor, offset, count, height')
  /\ UNCHANGED <<base, count, cursor, follow, titled, focus>>

\* openLogs: Reset, SetTitle and SetSize.  follow is left as it is.
OpenLogs ==
  /\ base' = 0 /\ count' = 0 /\ cursor' = -1
  /\ titled' = TRUE
  /\ SetSize(screen, TRUE)
  /\ offset' = Redraw(-1, SetContent(offset, 0, height), 0, height')
  /\ UNCHANGED <<follow, focus>>

\* A batch of k lines.
AppendLines(k) ==
  LET total   == count + k
      evicted == AtLeast0(total - MaxLines)
      left    == total - evicted
      kept    == IF evicted > 0 THEN CursorAfter(evicted) ELSE cursor
  IN  /\ k > 0 /\ base + total <= MaxFed
      /\ base' = base + evicted
      /\ count' = left
      /\ cursor' = IF follow \/ count = 0 THEN left - 1 ELSE kept
      /\ offset' = IF follow THEN MaxYOffset(left, height)
                   ELSE Redraw(cursor', offset, left, height)
      /\ UNCHANGED <<follow, height, titled, screen, focus>>

\* f: back on, the view snaps to the newest line.
ToggleFollow ==
  /\ follow' = ~follow
  /\ IF follow' /\ count > 0
       THEN cursor' = count - 1 /\ offset' = MaxYOffset(count, height)
       ELSE UNCHANGED <<cursor, offset>>
  /\ UNCHANGED <<base, count, height, titled, screen, focus>>

\* j and k: nothing at either end.
MoveCursor(delta) ==
  /\ count > 0
  /\ cursor + delta \in 0..(count - 1)
  /\ MoveTo(cursor + delta)

\* g and G.
JumpCursor(index) == count > 0 /\ MoveTo(index)

\* A page or half a page up or down, which scrolls the viewport without the
\* cursor.
PageScroll(rows) ==
  /\ rows # 0
  /\ IF rows < 0 THEN offset > 0 ELSE ~AtBottom(offset, count, height)
  /\ offset' = SetYOffset(offset + rows, count, height)
  /\ follow' = FollowAfterScroll(offset')
  /\ UNCHANGED <<base, count, cursor, height, titled, screen, focus>>

\* `?`: SelectedLine and LinesAround.  first .. last are the indices of the
\* lines of the window.
OpenDiagnoseForLog ==
  /\ cursor >= 0
  /\ focus' = [index |-> cursor, line |-> base + cursor, windowStart |-> WindowStart,
               first |-> base + AtLeast0(cursor - Window),
               last |-> base + (IF cursor + Window + 1 > count THEN count
                                ELSE cursor + Window + 1) - 1]
  /\ UNCHANGED <<base, count, cursor, follow, offset, height, titled, screen>>

\* Keys the view hands to its cursor or to the viewport.
Update ==
  \/ \E delta \in {-1, 1} : MoveCursor(delta)
  \/ \E index \in {0, count - 1} : JumpCursor(index)
  \/ \E rows \in {height, height \div 2} : PageScroll(rows) \/ PageScroll(-rows)

Next ==
  \/ \E h \in Heights : WindowSize(h)
  \/ OpenLogs
  \/ \E k \in 1..MaxBatch : AppendLines(k)
  \/ ToggleFollow
  \/ Update
  \/ OpenDiagnoseForLog

Spec == Init /\ [][Next]_vars

-----------------------------------------------------------------------------
(* Properties.                                                             *)

\* Live tail: while follow is on, the cursor is on the newest line and the
\* newest line is on screen, after any mix of batches, evictions, paging,
\* resizes and changes of pod (logs.go:20-24).
FollowShowsNewest ==
  follow /\ count > 0 =>
    /\ cursor = count - 1
    /\ height > 0 => cursor \in offset..(offset + height - 1)

\* A batch leaves the cursor on the line it is on, or on the oldest line left
\* once that one is evicted, unless follow is on or the buffer was empty
\* (logs.go:63-66).
CursorKeepsLine ==
  [][\A k \in 1..MaxBatch :
       AppendLines(k) /\ ~follow /\ count > 0 =>
         base' + cursor' = IF base + cursor < base' THEN base' ELSE base + cursor]_vars

\* The window of the focus, numbered from WindowStart as log_context.go does,
\* holds the line under the cursor and has its mark on it and on no other.
FocusMarked ==
  focus # NoFocus =>
    /\ focus.line \in focus.first..focus.last
    /\ \A l \in focus.first..focus.last :
         (focus.windowStart + (l - focus.first) = focus.index) <=> (l = focus.line)
=============================================================================
