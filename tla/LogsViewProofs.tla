--------------------------- MODULE LogsViewProofs ---------------------------
(***************************************************************************)
(* Proofs about LogsView for every buffer size, window and set of heights. *)
(* The three invariants are inductive together: FollowShowsNewest needs    *)
(* the types for its arithmetic, and FocusMarked only the focus.           *)
(***************************************************************************)
EXTENDS LogsView, TLAPS

Inv == TypeOK /\ FollowShowsNewest /\ FocusMarked

\* The offset the viewport ends at is a row, and SetYOffset keeps it within
\* the content.
LEMMA SetYOffsetType ==
  ASSUME NEW o \in Int, NEW n \in Nat, NEW h \in Nat
  PROVE  /\ SetYOffset(o, n, h) \in Nat
         /\ SetYOffset(o, n, h) <= MaxYOffset(n, h)
         /\ MaxYOffset(n, h) \in Nat
BY DEF SetYOffset, MaxYOffset, Rows, AtLeast0

\* Whatever the viewport showed, a redraw yields a row of the buffer that has
\* the cursor on screen (logs.go:236-249).
LEMMA RedrawShowsCursor ==
  ASSUME NEW n \in Nat, NEW c \in -1..(n - 1), NEW o \in Nat, NEW h \in Nat
  PROVE  /\ Redraw(c, o, n, h) \in Nat
         /\ c >= 0 /\ h > 0 => c \in Redraw(c, o, n, h)..(Redraw(c, o, n, h) + h - 1)
<1> DEFINE s == SetContent(o, n, h)
<1>1. s \in Nat
  <2>1. 0 \in Nat /\ MaxYOffset(n, h) \in Nat
    BY SetYOffsetType
  <2> QED BY <2>1 DEF SetContent
<1>2. CASE c < 0 \/ h = 0
  BY <1>1, <1>2 DEF Redraw, EnsureCursorVisible
<1>3. CASE c >= 0 /\ h > 0
  <2>1. n > 0 /\ Rows(n) = n /\ MaxYOffset(n, h) = (IF n - h < 0 THEN 0 ELSE n - h)
    BY <1>3 DEF Rows, MaxYOffset, AtLeast0
  <2>2. CASE c < s
    BY <1>1, <1>3, <2>1, <2>2 DEF Redraw, EnsureCursorVisible, SetYOffset, AtLeast0
  <2>3. CASE c > s + h - 1
    BY <1>1, <1>3, <2>1, <2>3 DEF Redraw, EnsureCursorVisible, SetYOffset, AtLeast0
  <2>4. CASE ~(c < s) /\ ~(c > s + h - 1)
    BY <1>1, <1>3, <2>4 DEF Redraw, EnsureCursorVisible
  <2> QED BY <2>2, <2>3, <2>4
<1> QED BY <1>2, <1>3

\* At the bottom, the newest line is on screen.
LEMMA BottomShowsNewest ==
  ASSUME NEW n \in Nat, n > 0, NEW h \in Nat
  PROVE  /\ MaxYOffset(n, h) \in Nat
         /\ h > 0 => n - 1 \in MaxYOffset(n, h)..(MaxYOffset(n, h) + h - 1)
BY DEF MaxYOffset, Rows, AtLeast0

LEMMA InitInv == Init => Inv
<1> SUFFICES ASSUME Init PROVE Inv
  OBVIOUS
<1>1. NoFocus \in Focuses
  BY DEF NoFocus, Focuses
<1>2. TypeOK
  <2>1. count \in 0..MaxLines /\ cursor \in -1..(count - 1) /\ offset \in Nat
    BY LinesAssumption DEF Init
  <2>2. /\ base \in Nat /\ height \in Nat /\ (count > 0 => cursor >= 0)
        /\ screen \in Heights \union {0}
    BY DEF Init
  <2>3. follow \in BOOLEAN /\ titled \in BOOLEAN /\ focus \in Focuses
    BY <1>1, Zenon DEF Init
  <2> QED BY <2>1, <2>2, <2>3 DEF TypeOK
<1>3. FollowShowsNewest /\ FocusMarked
  BY DEF Init, FollowShowsNewest, FocusMarked
<1> QED BY <1>2, <1>3 DEF Inv

\* Every step keeps the three invariants.
LEMMA StepInv == Inv /\ [Next]_vars => Inv'
<1> SUFFICES ASSUME Inv, [Next]_vars PROVE Inv'
  OBVIOUS
<1>t. /\ base \in Nat /\ count \in Nat /\ count <= MaxLines /\ MaxLines \in Nat \ {0}
      /\ cursor \in -1..(count - 1) /\ (count > 0 => cursor >= 0)
      /\ offset \in Nat /\ height \in Nat
  BY LinesAssumption DEF Inv, TypeOK
<1>s. screen \in Nat
  BY HeightsAssumption DEF Inv, TypeOK
<1>m. ASSUME NEW i \in 0..(count - 1), MoveTo(i) PROVE Inv'
  <2>1. offset' = Redraw(i, offset, count, height)
    BY <1>m DEF MoveTo
  <2>2. /\ offset' \in Nat
        /\ i >= 0 /\ height > 0 => i \in offset'..(offset' + height - 1)
    BY <1>t, <1>m, <2>1, RedrawShowsCursor
  <2>3. TypeOK'
    BY <1>t, <1>m, <2>2 DEF MoveTo, TypeOK, Inv
  <2>4. FollowShowsNewest'
    <3>1. follow' => i = count - 1
      BY <1>m DEF MoveTo
    <3> QED BY <1>t, <1>m, <2>2, <3>1 DEF MoveTo, FollowShowsNewest
  <2>5. FocusMarked'
    BY <1>m DEF MoveTo, FocusMarked, Inv
  <2> QED BY <2>3, <2>4, <2>5 DEF Inv
<1>1. ASSUME NEW h \in Heights, WindowSize(h) PROVE Inv'
  <2>1. h \in Nat /\ height' \in Nat /\ offset' = Redraw(cursor, offset, count, height')
    BY <1>1, HeightsAssumption DEF WindowSize, SetSize, AtLeast0
  <2>2. /\ offset' \in Nat
        /\ cursor >= 0 /\ height' > 0 => cursor \in offset'..(offset' + height' - 1)
    <3>1. count \in Nat /\ cursor \in -1..(count - 1) /\ offset \in Nat
      BY <1>t
    <3> QED BY <2>1, <3>1, RedrawShowsCursor
  <2>3. TypeOK'
    BY <1>t, <1>1, <2>1, <2>2 DEF WindowSize, SetSize, TypeOK, Inv
  <2>4. FollowShowsNewest'
    BY <1>t, <1>1, <2>1, <2>2 DEF WindowSize, FollowShowsNewest, Inv
  <2>5. FocusMarked'
    BY <1>1 DEF WindowSize, FocusMarked, Inv
  <2> QED BY <2>3, <2>4, <2>5 DEF Inv
<1>2. CASE OpenLogs
  <2> DEFINE o == SetContent(offset, 0, height)
  <2>1. o \in Nat
    <3>1. MaxYOffset(0, height) \in Nat
      BY <1>t, SetYOffsetType
    <3> QED BY <1>t, <3>1 DEF SetContent
  <2>2. height' \in Nat /\ offset' = Redraw(-1, o, 0, height')
    BY <1>s, <1>2 DEF OpenLogs, SetSize, AtLeast0
  <2>3. offset' \in Nat
    BY <2>1, <2>2, RedrawShowsCursor
  <2>4. TypeOK'
    BY <1>t, <1>2, <2>2, <2>3 DEF OpenLogs, SetSize, TypeOK, Inv
  <2>5. FollowShowsNewest' /\ FocusMarked'
    BY <1>2 DEF OpenLogs, FollowShowsNewest, FocusMarked, Inv
  <2> QED BY <2>4, <2>5 DEF Inv
<1>3. ASSUME NEW k \in 1..MaxBatch, AppendLines(k) PROVE Inv'
  <2> DEFINE total   == count + k
             evicted == AtLeast0(total - MaxLines)
             left    == total - evicted
             kept    == IF evicted > 0 THEN CursorAfter(evicted) ELSE cursor
  <2>k. k \in Nat /\ k > 0
    BY FeedAssumption
  <2>1. evicted \in Nat /\ left \in 1..MaxLines
    BY <1>t, <2>k DEF AtLeast0
  <2>2. /\ base' = base + evicted /\ count' = left
        /\ cursor' = (IF follow \/ count = 0 THEN left - 1 ELSE kept)
        /\ offset' = (IF follow THEN MaxYOffset(left, height)
                      ELSE Redraw(cursor', offset, left, height))
        /\ UNCHANGED <<follow, height, titled, screen, focus>>
    BY <1>3 DEF AppendLines
  <2>3. cursor' \in 0..(left - 1)
    <3>1. CASE follow \/ count = 0
      BY <2>1, <2>2, <3>1
    <3>2. CASE ~(follow \/ count = 0)
      <4>1. cursor \in 0..(count - 1)
        BY <1>t, <3>2
      <4>2. cursor' = kept
        BY <2>2, <3>2
      <4> QED BY <1>t, <2>k, <4>1, <4>2 DEF CursorAfter, AtLeast0
    <3> QED BY <3>1, <3>2
  <2>4. /\ offset' \in Nat
        /\ height > 0 => cursor' \in offset'..(offset' + height - 1)
    <3>1. CASE follow
      BY <1>t, <2>1, <2>2, <3>1, BottomShowsNewest
    <3>2. CASE ~follow
      <4>1. cursor' \in -1..(left - 1) /\ left \in Nat
        BY <2>1, <2>3
      <4>2. offset' = Redraw(cursor', offset, left, height) /\ offset \in Nat /\ height \in Nat
        BY <1>t, <2>2, <3>2
      <4>3. cursor' >= 0
        BY <2>1, <2>3
      <4> HIDE DEF left
      <4> QED BY <4>1, <4>2, <4>3, RedrawShowsCursor
    <3> QED BY <3>1, <3>2
  <2>5. TypeOK'
    <3>1. base' \in Nat /\ count' \in 0..MaxLines
      BY <1>t, <2>1, <2>2
    <3>2. cursor' \in -1..(count' - 1) /\ (count' > 0 => cursor' >= 0)
      BY <2>1, <2>2, <2>3
    <3>3. /\ follow' \in BOOLEAN /\ titled' \in BOOLEAN /\ height' \in Nat
          /\ screen' \in Heights \union {0} /\ focus' \in Focuses
      BY <2>2 DEF TypeOK, Inv
    <3> QED BY <2>4, <3>1, <3>2, <3>3 DEF TypeOK
  <2>6. FollowShowsNewest'
    BY <2>2, <2>4 DEF FollowShowsNewest
  <2>7. FocusMarked'
    BY <2>2 DEF FocusMarked, Inv
  <2> QED BY <2>5, <2>6, <2>7 DEF Inv
<1>4. CASE ToggleFollow
  <2>1. CASE follow' /\ count > 0
    <3>1. cursor' = count - 1 /\ offset' = MaxYOffset(count, height)
      BY <1>4, <2>1 DEF ToggleFollow
    <3>2. /\ offset' \in Nat
          /\ height > 0 => count - 1 \in offset'..(offset' + height - 1)
      BY <1>t, <2>1, <3>1, BottomShowsNewest
    <3> QED BY <1>t, <1>4, <2>1, <3>1, <3>2
            DEF ToggleFollow, Inv, TypeOK, FollowShowsNewest, FocusMarked
  <2>2. CASE ~(follow' /\ count > 0)
    BY <1>t, <1>4, <2>2 DEF ToggleFollow, Inv, TypeOK, FollowShowsNewest, FocusMarked
  <2> QED BY <2>1, <2>2
<1>5. CASE Update
  <2>1. ASSUME NEW delta \in {-1, 1}, MoveCursor(delta) PROVE Inv'
    BY <1>m, <2>1 DEF MoveCursor
  <2>2. ASSUME NEW index \in {0, count - 1}, JumpCursor(index) PROVE Inv'
    <3>1. index \in 0..(count - 1)
      BY <1>t, <2>2 DEF JumpCursor
    <3> QED BY <1>m, <2>2, <3>1 DEF JumpCursor
  <2>3. ASSUME NEW rows \in Int, PageScroll(rows) PROVE Inv'
    <3>1. /\ offset' = SetYOffset(offset + rows, count, height)
          /\ follow' = FollowAfterScroll(offset')
          /\ UNCHANGED <<base, count, cursor, height, titled, screen, focus>>
      BY <2>3 DEF PageScroll
    <3>2. offset' \in Nat /\ offset' <= MaxYOffset(count, height)
      BY <1>t, <3>1, SetYOffsetType
    <3>3. ASSUME follow', count > 0
          PROVE  /\ follow /\ cursor = count - 1
                 /\ height > 0 => cursor \in offset'..(offset' + height - 1)
      <4>1. follow /\ (AtBottom(offset, count, height) => AtBottom(offset', count, height))
        BY <3>1, <3>3 DEF FollowAfterScroll
      <4>2. cursor = count - 1 /\ (height > 0 => cursor \in offset..(offset + height - 1))
        BY <3>3, <4>1 DEF Inv, FollowShowsNewest
      <4>3. ASSUME height > 0 PROVE offset' >= MaxYOffset(count, height)
        BY <1>t, <3>3, <4>1, <4>2, <4>3 DEF AtBottom, MaxYOffset, Rows, AtLeast0
      <4>4. MaxYOffset(count, height) = (IF count - height < 0 THEN 0 ELSE count - height)
        BY <3>3 DEF MaxYOffset, Rows, AtLeast0
      <4>5. ASSUME height > 0 PROVE cursor \in offset'..(offset' + height - 1)
        <5>1. offset' = MaxYOffset(count, height)
          BY <1>t, <3>2, <4>3, <4>4, <4>5
        <5> QED BY <1>t, <3>3, <4>2, <4>4, <4>5, <5>1
      <4> QED BY <4>1, <4>2, <4>5
    <3>4. TypeOK'
      BY <1>t, <3>1, <3>2 DEF TypeOK, Inv, FollowAfterScroll
    <3>5. FollowShowsNewest' /\ FocusMarked'
      BY <3>1, <3>3 DEF FollowShowsNewest, FocusMarked, Inv
    <3> QED BY <3>4, <3>5 DEF Inv
  <2>4. height \in Int /\ height \div 2 \in Int /\ -height \in Int /\ -(height \div 2) \in Int
    BY <1>t
  <2> QED BY <1>5, <2>1, <2>2, <2>3, <2>4 DEF Update
<1>6. CASE OpenDiagnoseForLog
  <2>1. /\ focus'.line = base + cursor /\ focus'.index = cursor
        /\ focus'.windowStart = AtLeast0(cursor - Window)
        /\ focus'.first = base + AtLeast0(cursor - Window)
        /\ focus'.last = base + (IF cursor + Window + 1 > count THEN count
                                 ELSE cursor + Window + 1) - 1
    BY <1>6 DEF OpenDiagnoseForLog, WindowStart
  <2>2. cursor \in Nat /\ cursor < count
    BY <1>t, <1>6 DEF OpenDiagnoseForLog
  <2>0. focus' \in Focuses
    BY <1>t, <1>6, WindowAssumption DEF OpenDiagnoseForLog, WindowStart, AtLeast0, Focuses
  <2>3. focus'.line \in focus'.first..focus'.last
    BY <1>t, <2>1, <2>2, WindowAssumption DEF AtLeast0
  <2>4. ASSUME NEW l \in focus'.first..focus'.last
        PROVE  (focus'.windowStart + (l - focus'.first) = focus'.index) <=> (l = focus'.line)
    BY <1>t, <2>1, <2>2, WindowAssumption DEF AtLeast0
  <2>5. FocusMarked'
    BY <2>3, <2>4 DEF FocusMarked
  <2>6. TypeOK' /\ FollowShowsNewest'
    BY <1>t, <1>6, <2>0 DEF OpenDiagnoseForLog, TypeOK, FollowShowsNewest, Inv
  <2> QED BY <2>5, <2>6 DEF Inv
<1>7. CASE UNCHANGED vars
  BY <1>7 DEF vars, Inv, TypeOK, FollowShowsNewest, FocusMarked
<1> QED BY <1>1, <1>2, <1>3, <1>4, <1>5, <1>6, <1>7 DEF Next

\* The buffer never exceeds its cap, and the cursor is always an index into it,
\* -1 exactly when it is empty (logs.go:66-94).
THEOREM LogsViewTypeOK == Spec => []TypeOK
<1>1. Spec => []Inv
  BY InitInv, StepInv, PTL DEF Spec
<1> QED BY <1>1, PTL DEF Inv

\* Live tail keeps the cursor and the newest line on screen (logs.go:20-24).
THEOREM LogsViewFollows == Spec => []FollowShowsNewest
<1>1. Spec => []Inv
  BY InitInv, StepInv, PTL DEF Spec
<1> QED BY <1>1, PTL DEF Inv

\* The prompt marks exactly the line under the cursor (log_context.go:77-95).
THEOREM LogsViewFocus == Spec => []FocusMarked
<1>1. Spec => []Inv
  BY InitInv, StepInv, PTL DEF Spec
<1> QED BY <1>1, PTL DEF Inv

\* An append keeps the cursor on its line, or on the oldest line left
\* (logs.go:63-66).
THEOREM LogsViewCursor == Spec => CursorKeepsLine
<1>1. Spec => []Inv
  BY InitInv, StepInv, PTL DEF Spec
<1>2. ASSUME TypeOK, NEW k \in 1..MaxBatch, AppendLines(k), ~follow, count > 0
      PROVE  base' + cursor' = IF base + cursor < base' THEN base' ELSE base + cursor
  BY <1>2, LinesAssumption, FeedAssumption DEF AppendLines, CursorAfter, AtLeast0, TypeOK
<1>3. TypeOK => [\A k \in 1..MaxBatch :
       AppendLines(k) /\ ~follow /\ count > 0 =>
         base' + cursor' = IF base + cursor < base' THEN base' ELSE base + cursor]_vars
  BY <1>2
<1> QED BY <1>1, <1>3, PTL DEF Inv, CursorKeepsLine
=============================================================================
