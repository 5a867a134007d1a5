--------------------------- MODULE TabManagerProofs ---------------------------
(***************************************************************************)
(* Proofs about the tabs, for every number of tabs and of stream threads:  *)
(* the inductive invariant TabInv of TabManager, and what it says of the   *)
(* auto-stop messages.                                                     *)
(***************************************************************************)
EXTENDS TabManager, DataLemmas, FiniteSetTheorems, SequenceTheorems, TLAPS

\* What the constants are, in the form the provers need.
LEMMA Constants ==
  /\ MaxTabs \in Nat \ {0} /\ MaxThreads \in Nat /\ MaxWindows \in Nat \ {0}
  /\ Reserved \in Nat \ {0}
  /\ Thread \subseteq Nat \ {0} /\ NoThread \notin Thread /\ Thread \subseteq 0 .. MaxThreads
  /\ NoThread \in 0 .. MaxThreads
  BY TabManagerAssumption DEF Thread, NoThread

\* g_streams without one element.
LEMMA RemoveAtProperties ==
  ASSUME NEW S, NEW s \in Seq(S), NEW i \in 1 .. Len(s)
  PROVE  /\ RemoveAt(s, i) \in Seq(S) /\ Len(RemoveAt(s, i)) = Len(s) - 1
         /\ \A k \in 1 .. Len(s) - 1 : RemoveAt(s, i)[k] = IF k < i THEN s[k] ELSE s[k + 1]
<1> DEFINE n == Len(s)
           a == SubSeq(s, 1, i - 1)
           b == SubSeq(s, i + 1, n)
<1>1. n \in Nat /\ i \in 1 .. n  BY LenProperties
<1>2. RemoveAt(s, i) = a \o b  BY DEF RemoveAt
<1>3. \A k \in 1 .. n : s[k] \in S  BY ElementOfSeq
<1> HIDE DEF n
<1>4. \A k \in 1 .. i - 1 : s[k] \in S  BY <1>1, <1>3
<1>5. \A k \in i + 1 .. n : s[k] \in S  BY <1>1, <1>3
<1>6. i - 1 \in Int /\ i + 1 \in Int /\ n \in Int /\ 1 \in Int  BY <1>1
<1>7. /\ a \in Seq(S) /\ Len(a) = IF 1 <= i - 1 THEN i - 1 - 1 + 1 ELSE 0
      /\ \A k \in 1 .. i - 1 - 1 + 1 : a[k] = s[1 + k - 1]
  BY <1>4, <1>6, SubSeqProperties
<1>8. /\ b \in Seq(S) /\ Len(b) = IF i + 1 <= n THEN n - (i + 1) + 1 ELSE 0
      /\ \A k \in 1 .. n - (i + 1) + 1 : b[k] = s[i + 1 + k - 1]
  BY <1>5, <1>6, SubSeqProperties
<1> HIDE DEF a, b
<1>9. Len(a) = i - 1 /\ Len(b) = n - i  BY <1>1, <1>7, <1>8
<1>10. /\ a \o b \in Seq(S) /\ Len(a \o b) = Len(a) + Len(b)
       /\ \A k \in 1 .. Len(a) + Len(b) : (a \o b)[k] = IF k <= Len(a) THEN a[k] ELSE b[k - Len(a)]
  BY <1>7, <1>8, ConcatProperties
<1>11. Len(a) + Len(b) = n - 1  BY <1>1, <1>9
<1>12. ASSUME NEW k \in 1 .. n - 1
       PROVE  (a \o b)[k] = IF k < i THEN s[k] ELSE s[k + 1]
  <2>1. (a \o b)[k] = IF k <= i - 1 THEN a[k] ELSE b[k - (i - 1)]  BY <1>9, <1>10, <1>11
  <2>2. CASE k < i
    <3>1. k <= i - 1 /\ k \in 1 .. i - 1 - 1 + 1 /\ 1 + k - 1 = k  BY <1>1, <2>2
    <3> QED  BY <1>7, <2>1, <2>2, <3>1
  <2>3. CASE ~(k < i)
    <3>1. /\ ~(k <= i - 1) /\ k - (i - 1) \in 1 .. n - (i + 1) + 1
          /\ i + 1 + (k - (i - 1)) - 1 = k + 1
      BY <1>1, <2>3
    <3> QED  BY <1>8, <2>1, <2>3, <3>1
  <2> QED  BY <2>2, <2>3
<1> QED  BY <1>2, <1>10, <1>11, <1>12 DEF n

\* Changing one tab.
LEMMA OneTab ==
  ASSUME NEW s \in Seq(Tab), NEW i \in DOMAIN s, NEW r \in Tab
  PROVE  /\ [s EXCEPT ![i] = r] \in Seq(Tab) /\ Len([s EXCEPT ![i] = r]) = Len(s)
         /\ DOMAIN [s EXCEPT ![i] = r] = DOMAIN s
         /\ \A j \in DOMAIN s : [s EXCEPT ![i] = r][j] = IF j = i THEN r ELSE s[j]
<1>1. DOMAIN s = 1 .. Len(s)  BY LenProperties
<1> QED  BY <1>1, ExceptSeq

\* The tabs of a well-typed state.
LEMMA TabsTyped ==
  ASSUME TypeOK
  PROVE  /\ tabs \in Seq(Tab) /\ Len(tabs) \in Nat /\ DOMAIN tabs = 1 .. Len(tabs)
         /\ \A i \in DOMAIN tabs : tabs[i] \in Tab
         /\ DOMAIN tabs \subseteq 1 .. MaxTabs
<1>1. tabs \in Seq(Tab) /\ Len(tabs) <= MaxTabs  BY DEF TypeOK
<1>2. Len(tabs) \in Nat /\ DOMAIN tabs = 1 .. Len(tabs)  BY <1>1, LenProperties
<1>3. \A i \in 1 .. Len(tabs) : tabs[i] \in Tab  BY <1>1, ElementOfSeq
<1>4. \A i \in 1 .. Len(tabs) : i \in 1 .. MaxTabs  BY <1>1, <1>2, Constants
<1> QED  BY <1>1, <1>2, <1>3, <1>4

-----------------------------------------------------------------------------
(* Steps that leave every thread in its tab.                               *)

\* No tab gets or loses a thread, and no stream starts.
SameOwners ==
  /\ Len(tabs') = Len(tabs) /\ DOMAIN tabs' = DOMAIN tabs
  /\ \A i \in DOMAIN tabs :
       tabs'[i].streaming = tabs[i].streaming /\ tabs'[i].thread = tabs[i].thread
  /\ \A t \in Thread :
       /\ threads'[t].index = threads[t].index
       /\ threads'[t].phase \in Live => threads[t].phase \in Live
       /\ threads'[t].phase # "none" => threads[t].phase # "none"
  /\ UNCHANGED <<terminated, strayed>>

\* Such a step keeps what the invariant says of threads and tabs.
LEMMA SameOwnersKeeps ==
  ASSUME TabInv, SameOwners, TypeOK', UiInTab', PostedByOwner'
  PROVE  TabInv'
<1>1. RunningIsShown'  BY DEF TabInv, Sound, SameOwners, RunningIsShown
<1>2. IdleTabHasNoThread'  BY DEF TabInv, Sound, SameOwners, IdleTabHasNoThread
<1>3. Owned'  BY DEF TabInv, SameOwners, Owned
<1> QED  BY <1>1, <1>2, <1>3 DEF TabInv, Sound

\* Nor do the messages that were there before say anything new.
LEMMA SameMessages ==
  ASSUME TabInv, SameOwners, ui.pc = "closeAll" => ui'.pc = "closeAll",
         NEW k \in DOMAIN msgs, ~strayed, ~terminated,
         msgs[k].type = "autoStop", msgs[k].to \in DOMAIN tabs'
  PROVE  LET tab == tabs'[msgs[k].to]
         IN  \/ ~tab.streaming
             \/ tab.thread = msgs[k].by
             \/ tab.thread = NoThread /\ ui'.pc = "closeAll"
  BY DEF TabInv, PostedByOwner, SameOwners

\* The flags of one tab are set, and the user-interface thread goes to work on it.
LEMMA FlagsKeep ==
  ASSUME TabInv, NEW i \in DOMAIN tabs, NEW r \in Tab,
         r.streaming = tabs[i].streaming, r.thread = tabs[i].thread,
         tabs' = [tabs EXCEPT ![i] = r],
         UNCHANGED <<threads, terminated, strayed>>
  PROVE  /\ SameOwners /\ tabs' \in Seq(Tab) /\ DOMAIN tabs' = DOMAIN tabs
         /\ Len(tabs') = Len(tabs)
<1>1. tabs \in Seq(Tab)  BY DEF TabInv, Sound, TypeOK
<1>2. /\ tabs' \in Seq(Tab) /\ Len(tabs') = Len(tabs) /\ DOMAIN tabs' = DOMAIN tabs
      /\ \A j \in DOMAIN tabs : tabs'[j] = IF j = i THEN r ELSE tabs[j]
  BY <1>1, OneTab
<1> QED  BY <1>2 DEF SameOwners

\* ClickStop and FlagUserStop.
LEMMA StopSteps ==
  ASSUME TabInv, logging' \subseteq Thread,
         (\E i \in DOMAIN tabs : ClickStop(i)) \/ FlagUserStop
  PROVE  TabInv'
<1>0. TypeOK /\ UiInTab  BY DEF TabInv, Sound
<1>1. PICK i \in DOMAIN tabs, r \in Tab :
         /\ r.streaming = tabs[i].streaming /\ r.thread = tabs[i].thread
         /\ tabs' = [tabs EXCEPT ![i] = r]
         /\ ui' \in [pc : {"flag", "join"}, slot : {i}] /\ ui.pc # "closeAll"
         /\ UNCHANGED <<threads, capacity, windows, msgs, terminated, strayed>>
  <2>1. CASE \E i \in DOMAIN tabs : ClickStop(i)
    <3>1. PICK i \in DOMAIN tabs : ClickStop(i)  BY <2>1
    <3> DEFINE r == [tabs[i] EXCEPT !.cancel = TRUE]
    <3>2. tabs[i] \in Tab  BY <1>0, TabsTyped
    <3>3. r \in Tab /\ r.streaming = tabs[i].streaming /\ r.thread = tabs[i].thread
      BY <3>2 DEF Tab
    <3>4. tabs' = [tabs EXCEPT ![i] = r]  BY <3>1 DEF ClickStop, StopByUser
    <3> HIDE DEF r
    <3> QED  BY <3>1, <3>3, <3>4 DEF ClickStop, StopByUser, Idle
  <2>2. CASE FlagUserStop
    <3> DEFINE i == ui.slot
               r == [tabs[i] EXCEPT !.user = TRUE]
    <3>1. i \in DOMAIN tabs  BY <1>0, <2>2 DEF FlagUserStop, UiInTab
    <3>2. tabs[i] \in Tab  BY <1>0, <3>1, TabsTyped
    <3>3. r \in Tab /\ r.streaming = tabs[i].streaming /\ r.thread = tabs[i].thread
      BY <3>2 DEF Tab
    <3>4. tabs' = [tabs EXCEPT ![i] = r]  BY <2>2 DEF FlagUserStop
    <3>5. ui' \in [pc : {"flag", "join"}, slot : {i}]  BY <1>0, <2>2 DEF FlagUserStop, TypeOK
    <3> HIDE DEF r, i
    <3> QED  BY <2>2, <3>1, <3>3, <3>4, <3>5 DEF FlagUserStop
  <2> QED  BY <2>1, <2>2
<1>2. SameOwners /\ tabs' \in Seq(Tab) /\ DOMAIN tabs' = DOMAIN tabs /\ Len(tabs') = Len(tabs)
  BY <1>1, FlagsKeep
<1>3. TypeOK'
  <2>1. i \in 0 .. MaxTabs  BY <1>0, TabsTyped, Constants
  <2>2. ui' \in [pc : {"loop", "flag", "join", "closeAll"}, slot : 0 .. MaxTabs]
    BY <1>1, <2>1
  <2> QED  BY <1>0, <1>1, <1>2, <2>2 DEF TypeOK
<1>4. UiInTab'  BY <1>1, <1>2 DEF UiInTab
<1>5. PostedByOwner'
  BY <1>1, <1>2, SameMessages DEF PostedByOwner
<1> QED  BY <1>2, <1>3, <1>4, <1>5, SameOwnersKeeps

\* A message is taken from the queue.
LEMMA MessageTaken ==
  ASSUME TypeOK, msgs # << >>, msgs' = Tail(msgs)
  PROVE  /\ msgs' \in Seq(Message) /\ Head(msgs) = msgs[1] /\ 1 \in DOMAIN msgs
         /\ Head(msgs) \in Message
         /\ \A k \in DOMAIN msgs' : k + 1 \in DOMAIN msgs /\ msgs'[k] = msgs[k + 1]
<1>1. msgs \in Seq(Message)  BY DEF TypeOK
<1>2. Len(msgs) \in Nat \ {0} /\ Head(msgs) = msgs[1]  BY <1>1, RangeOfTail
<1>3. /\ msgs' \in Seq(Message) /\ Len(msgs') = Len(msgs) - 1 /\ Head(msgs) \in Message
      /\ \A k \in 1 .. Len(msgs') : msgs'[k] = msgs[k + 1]
  BY <1>1, HeadTailProperties
<1>4. DOMAIN msgs = 1 .. Len(msgs) /\ DOMAIN msgs' = 1 .. Len(msgs')
  BY <1>1, <1>3, LenProperties
<1>5. \A k \in 1 .. Len(msgs') : k + 1 \in 1 .. Len(msgs)  BY <1>2, <1>3
<1>6. 1 \in 1 .. Len(msgs)  BY <1>2
<1> QED  BY <1>2, <1>3, <1>4, <1>5, <1>6

\* The two messages of the user-interface thread.
LEMMA MessageSteps ==
  ASSUME TabInv, logging' \subseteq Thread, AutoStop \/ StopCommand
  PROVE  TabInv'
<1>0. TypeOK /\ UiInTab  BY DEF TabInv, Sound
<1>1. /\ ui.pc = "loop" /\ msgs # << >> /\ msgs' = Tail(msgs)
      /\ UNCHANGED <<threads, capacity, windows, terminated, strayed>>
  BY DEF AutoStop, StopCommand
<1>2. CASE UNCHANGED <<tabs, ui>>
  <2>1. SameOwners  BY <1>1, <1>2 DEF SameOwners
  <2>2. TypeOK'  BY <1>0, <1>1, <1>2, MessageTaken DEF TypeOK
  <2>3. UiInTab'  BY <1>0, <1>2 DEF UiInTab
  <2>4. PostedByOwner'  BY <1>0, <1>1, <1>2, <2>1, MessageTaken, SameMessages DEF PostedByOwner
  <2> QED  BY <2>1, <2>2, <2>3, <2>4, SameOwnersKeeps
<1>3. CASE \E i \in DOMAIN tabs :
             /\ tabs' = [tabs EXCEPT ![i].cancel = TRUE]
             /\ ui' \in [pc : {"flag", "join"}, slot : {i}]
  <2>1. PICK i \in DOMAIN tabs : /\ tabs' = [tabs EXCEPT ![i].cancel = TRUE]
                                 /\ ui' \in [pc : {"flag", "join"}, slot : {i}]
    BY <1>3
  <2> DEFINE r == [tabs[i] EXCEPT !.cancel = TRUE]
  <2>2. tabs[i] \in Tab  BY <1>0, TabsTyped
  <2>3. r \in Tab /\ r.streaming = tabs[i].streaming /\ r.thread = tabs[i].thread
    BY <2>2 DEF Tab
  <2>4. tabs' = [tabs EXCEPT ![i] = r]  BY <2>1
  <2> HIDE DEF r
  <2>5. SameOwners /\ tabs' \in Seq(Tab) /\ DOMAIN tabs' = DOMAIN tabs /\ Len(tabs') = Len(tabs)
    BY <1>1, <2>3, <2>4, FlagsKeep
  <2>6. TypeOK'
    <3>1. i \in 0 .. MaxTabs  BY <1>0, TabsTyped, Constants
    <3>2. ui' \in [pc : {"loop", "flag", "join", "closeAll"}, slot : 0 .. MaxTabs]
      BY <2>1, <3>1
    <3>3. msgs' \in Seq(Message)  BY <1>0, <1>1, MessageTaken
    <3> QED  BY <1>0, <1>1, <2>5, <3>2, <3>3 DEF TypeOK
  <2>7. UiInTab'  BY <2>1, <2>5 DEF UiInTab
  <2>8. PostedByOwner'
    BY <1>0, <1>1, <2>1, <2>5, MessageTaken, SameMessages DEF PostedByOwner
  <2> QED  BY <2>5, <2>6, <2>7, <2>8, SameOwnersKeeps
<1>4. UNCHANGED <<tabs, ui>> \/
      \E i \in DOMAIN tabs : /\ tabs' = [tabs EXCEPT ![i].cancel = TRUE]
                             /\ ui' \in [pc : {"flag", "join"}, slot : {i}]
  <2>1. CASE AutoStop  BY <2>1 DEF AutoStop
  <2>2. CASE StopCommand  BY <2>2 DEF StopCommand, StopByUser
  <2> QED  BY <2>1, <2>2
<1> QED  BY <1>2, <1>3, <1>4

LEMMA CloseAllTabsStep ==
  ASSUME TabInv, logging' \subseteq Thread, CloseAllTabs
  PROVE  TabInv'
<1>0. TypeOK  BY DEF TabInv, Sound
<1> DEFINE flagged(i) == [tabs[i] EXCEPT !.cancel = @ \/ tabs[i].streaming,
                                         !.user = @ \/ tabs[i].streaming]
<1>1. /\ ui.pc = "loop" /\ msgs = << >> /\ tabs # << >>
      /\ tabs' = [i \in DOMAIN tabs |-> flagged(i)]
      /\ ui' = [pc |-> "closeAll", slot |-> 1]
      /\ UNCHANGED <<threads, capacity, windows, msgs, terminated, strayed>>
  BY DEF CloseAllTabs, Idle
<1>2. \A i \in DOMAIN tabs : /\ flagged(i) \in Tab
                             /\ flagged(i).streaming = tabs[i].streaming
                             /\ flagged(i).thread = tabs[i].thread
  <2> SUFFICES ASSUME NEW i \in DOMAIN tabs
               PROVE  /\ flagged(i) \in Tab
                      /\ flagged(i).streaming = tabs[i].streaming
                      /\ flagged(i).thread = tabs[i].thread
    OBVIOUS
  <2>1. tabs[i] \in Tab  BY <1>0, TabsTyped
  <2> QED  BY <2>1 DEF Tab
<1> HIDE DEF flagged
<1>3. Len(tabs) \in Nat /\ DOMAIN tabs = 1 .. Len(tabs)  BY <1>0, TabsTyped
<1>4. tabs' \in Seq(Tab) /\ Len(tabs') = Len(tabs) /\ DOMAIN tabs' = DOMAIN tabs
  <2>1. tabs' \in [1 .. Len(tabs) -> Tab]  BY <1>1, <1>2, <1>3
  <2>2. tabs' \in Seq(Tab)  BY <1>3, <2>1, SeqDef
  <2>3. DOMAIN tabs' = 1 .. Len(tabs)  BY <2>1
  <2> QED  BY <1>3, <2>2, <2>3, LenProperties
<1>5. SameOwners  BY <1>1, <1>2, <1>4 DEF SameOwners
<1>6. TypeOK'
  <2>1. 1 \in 0 .. MaxTabs  BY Constants
  <2> QED  BY <1>0, <1>1, <1>4, <2>1 DEF TypeOK
<1>7. UiInTab'
  <2>1. 1 \in DOMAIN tabs  BY <1>0, <1>1, <1>3, EmptySeq DEF TypeOK
  <2>2. 1 .. 1 - 1 = {}  OBVIOUS
  <2> QED  BY <1>1, <1>4, <2>1, <2>2 DEF UiInTab
<1>8. PostedByOwner'  BY <1>1 DEF PostedByOwner
<1> QED  BY <1>5, <1>6, <1>7, <1>8, SameOwnersKeeps

LEMMA TimerStep ==
  ASSUME TabInv, logging' \subseteq Thread, Timer
  PROVE  TabInv'
<1>0. TypeOK /\ UiInTab  BY DEF TabInv, Sound
<1> DEFINE n == Cardinality(GoneTabs)
<1>1. PICK gone \in [1 .. n -> GoneTabs] :
        msgs' = [k \in 1 .. n |-> [type |-> "stop", by |-> NoThread, to |-> tabs[gone[k]].child]]
  BY DEF Timer
<1>2. UNCHANGED <<tabs, threads, capacity, windows, ui, terminated, strayed>>
  BY DEF Timer
<1>3. n \in Nat
  <2>1. Len(tabs) \in Int /\ 1 \in Int /\ GoneTabs \subseteq 1 .. Len(tabs)
    BY <1>0, TabsTyped DEF GoneTabs
  <2>2. IsFiniteSet(1 .. Len(tabs))  BY <2>1, FS_Interval
  <2> QED  BY <2>1, <2>2, FS_Subset, FS_CardinalityType
<1> HIDE DEF n
<1>4. \A k \in 1 .. n : msgs'[k] \in Message /\ msgs'[k].type = "stop"
  <2> SUFFICES ASSUME NEW k \in 1 .. n
               PROVE  msgs'[k] \in Message /\ msgs'[k].type = "stop"
    OBVIOUS
  <2>1. gone[k] \in DOMAIN tabs  BY <1>1 DEF GoneTabs
  <2>2. tabs[gone[k]] \in Tab  BY <1>0, <2>1, TabsTyped
  <2>3. tabs[gone[k]].child \in 1 .. MaxWindows  BY <2>2 DEF Tab
  <2>4. msgs'[k] = [type |-> "stop", by |-> NoThread, to |-> tabs[gone[k]].child]  BY <1>1
  <2> QED  BY <2>3, <2>4 DEF Message
<1>5. msgs' \in Seq(Message) /\ DOMAIN msgs' = 1 .. n
  <2>1. msgs' \in [1 .. n -> Message]  BY <1>1, <1>4
  <2> QED  BY <1>3, <2>1, SeqDef
<1>6. SameOwners  BY <1>2 DEF SameOwners
<1>7. TypeOK'  BY <1>0, <1>2, <1>5 DEF TypeOK
<1>8. UiInTab'  BY <1>0, <1>2 DEF UiInTab
<1>9. PostedByOwner'  BY <1>4, <1>5 DEF PostedByOwner
<1> QED  BY <1>6, <1>7, <1>8, <1>9, SameOwnersKeeps

-----------------------------------------------------------------------------
(* The stream threads and their players.                                   *)

\* One thread moves on; no stream starts and no index changes.
LEMMA ThreadMoves ==
  ASSUME TabInv, NEW t \in Thread, NEW r \in ThreadState,
         r.index = threads[t].index, threads[t].phase # "none",
         r.phase \in Live => threads[t].phase \in Live,
         threads' = [threads EXCEPT ![t] = r],
         UNCHANGED <<terminated, strayed>>,
         DOMAIN tabs' = DOMAIN tabs, Len(tabs') = Len(tabs),
         \A i \in DOMAIN tabs :
           tabs'[i].streaming = tabs[i].streaming /\ tabs'[i].thread = tabs[i].thread
  PROVE  SameOwners /\ threads' \in [Thread -> ThreadState]
<1>1. threads \in [Thread -> ThreadState]  BY DEF TabInv, Sound, TypeOK
<1> QED  BY <1>1 DEF SameOwners

LEMMA StreamThreadStep ==
  ASSUME TabInv, NEW t \in Thread, StreamThread(t)
  PROVE  TabInv'
<1>0. TypeOK /\ UiInTab /\ Owned  BY DEF TabInv, Sound
<1>1. threads \in [Thread -> ThreadState] /\ threads[t] \in ThreadState
  BY <1>0 DEF TypeOK
<1>2. ~terminated /\ UNCHANGED <<capacity, windows, ui, terminated, strayed, logging>>
  BY DEF StreamThread
<1>3. /\ tabs' \in Seq(Tab) /\ Len(tabs') = Len(tabs) /\ DOMAIN tabs' = DOMAIN tabs
      /\ \A i \in DOMAIN tabs :
           tabs'[i].streaming = tabs[i].streaming /\ tabs'[i].thread = tabs[i].thread
  <2>1. tabs' = tabs \/ \E i \in DOMAIN tabs : tabs' = [tabs EXCEPT ![i].handle = t]
    BY DEF StreamThread, ThreadStarts, ThreadFailsToStart, ThreadLeavesLoop, ThreadCleansUp,
           ThreadEnds, ThreadPosts
  <2>2. CASE tabs' = tabs  BY <1>0, <2>2 DEF TypeOK
  <2>3. CASE \E i \in DOMAIN tabs : tabs' = [tabs EXCEPT ![i].handle = t]
    <3>1. PICK i \in DOMAIN tabs : tabs' = [tabs EXCEPT ![i].handle = t]  BY <2>3
    <3> DEFINE r == [tabs[i] EXCEPT !.handle = t]
    <3>2. tabs[i] \in Tab /\ tabs \in Seq(Tab)  BY <1>0, TabsTyped
    <3>3. t \in 0 .. MaxThreads  BY Constants
    <3>4. r \in Tab /\ r.streaming = tabs[i].streaming /\ r.thread = tabs[i].thread
      BY <3>2, <3>3 DEF Tab
    <3>5. tabs' = [tabs EXCEPT ![i] = r]  BY <3>1
    <3> HIDE DEF r
    <3> QED  BY <3>2, <3>4, <3>5, OneTab
  <2> QED  BY <2>1, <2>2, <2>3
<1>4. PICK r \in ThreadState :
        /\ r.index = threads[t].index /\ (r.phase \in Live => threads[t].phase \in Live)
        /\ threads' = [threads EXCEPT ![t] = r]
  <2>1. CASE ThreadStarts(t)
    <3> DEFINE r == [threads[t] EXCEPT !.phase = "running", !.player = "alive"]
    <3>1. r \in ThreadState /\ r.index = threads[t].index /\ threads[t].phase \in Live
      BY <1>1, <2>1 DEF ThreadState, ThreadStarts, Live
    <3>2. threads' = [threads EXCEPT ![t] = r]  BY <2>1 DEF ThreadStarts
    <3> QED  BY <3>1, <3>2
  <2>2. CASE ThreadCleansUp(t)
    <3> DEFINE r == [threads[t] EXCEPT !.phase = "notify", !.player = "exited"]
    <3>1. r \in ThreadState /\ r.index = threads[t].index /\ threads[t].phase \in Live
      BY <1>1, <2>2 DEF ThreadState, ThreadCleansUp, Live
    <3>2. threads' = [threads EXCEPT ![t] = r]  BY <2>2 DEF ThreadCleansUp
    <3> QED  BY <3>1, <3>2
  <2>3. CASE ThreadFailsToStart(t) \/ ThreadEnds(t) \/ ThreadPosts(t)
    <3>1. PICK phase \in {"done", "post"} : threads' = [threads EXCEPT ![t].phase = phase]
      BY <2>3 DEF ThreadFailsToStart, ThreadEnds, ThreadPosts, Become
    <3> DEFINE r == [threads[t] EXCEPT !.phase = phase]
    <3>2. threads[t].phase \in Live
      BY <2>3 DEF ThreadFailsToStart, ThreadEnds, ThreadPosts, Live
    <3>3. r \in ThreadState /\ r.index = threads[t].index
      BY <1>1 DEF ThreadState, Live
    <3>4. threads' = [threads EXCEPT ![t] = r]  BY <3>1
    <3> QED  BY <3>2, <3>3, <3>4
  <2>4. CASE ThreadLeavesLoop(t)
    <3> DEFINE r == [threads[t] EXCEPT !.phase = "stopping"]
    <3>1. r \in ThreadState /\ r.index = threads[t].index /\ threads[t].phase \in Live
      BY <1>1, <2>4 DEF ThreadState, ThreadLeavesLoop, Live
    <3>2. threads' = [threads EXCEPT ![t] = r]  BY <2>4 DEF ThreadLeavesLoop, Become
    <3> QED  BY <3>1, <3>2
  <2> QED  BY <2>1, <2>2, <2>3, <2>4 DEF StreamThread
<1>5. threads[t].phase \in {"starting", "running", "stopping", "notify", "post"}
  BY DEF StreamThread, ThreadStarts, ThreadFailsToStart, ThreadLeavesLoop, ThreadCleansUp,
         ThreadEnds, ThreadPosts
<1>6. SameOwners /\ threads' \in [Thread -> ThreadState]
  BY <1>2, <1>3, <1>4, <1>5, ThreadMoves
<1> DEFINE m == [type |-> "autoStop", to |-> threads[t].index, by |-> t]
<1>7. msgs' = msgs \/ (threads[t].phase = "post" /\ msgs' = Append(msgs, m))
  BY DEF StreamThread, ThreadStarts, ThreadFailsToStart, ThreadLeavesLoop, ThreadCleansUp,
         ThreadEnds, ThreadPosts
<1>8. m \in Message /\ m.type = "autoStop" /\ m.to = threads[t].index /\ m.by = t
  <2>1. threads[t].index \in 0 .. MaxTabs /\ threads[t].index # 0
    BY <1>0, <1>1, <1>5 DEF ThreadState, Owned
  <2>2. threads[t].index \in 1 .. MaxTabs  BY <2>1, Constants
  <2> QED  BY <2>2 DEF Message
<1> HIDE DEF m
<1>9. msgs \in Seq(Message) /\ Len(msgs) \in Nat /\ DOMAIN msgs = 1 .. Len(msgs)
  BY <1>0, LenProperties DEF TypeOK
<1>10. /\ msgs' \in Seq(Message)
       /\ \A k \in DOMAIN msgs' :
            \/ k \in DOMAIN msgs /\ msgs'[k] = msgs[k]
            \/ threads[t].phase = "post" /\ msgs'[k] = m
  <2>1. CASE msgs' = msgs  BY <1>9, <2>1
  <2>2. CASE threads[t].phase = "post" /\ msgs' = Append(msgs, m)
    <3>1. /\ msgs' \in Seq(Message) /\ Len(msgs') = Len(msgs) + 1
          /\ \A k \in 1 .. Len(msgs) : msgs'[k] = msgs[k]
          /\ msgs'[Len(msgs) + 1] = m
      BY <1>8, <1>9, <2>2, AppendProperties
    <3>2. DOMAIN msgs' = 1 .. Len(msgs) + 1  BY <3>1, LenProperties
    <3>3. \A k \in 1 .. Len(msgs) + 1 : k \in 1 .. Len(msgs) \/ k = Len(msgs) + 1  BY <1>9
    <3> QED  BY <1>9, <2>2, <3>1, <3>2, <3>3
  <2> QED  BY <1>7, <2>1, <2>2
<1>11. TypeOK'  BY <1>0, <1>2, <1>3, <1>6, <1>10 DEF TypeOK
<1>12. UiInTab'  BY <1>0, <1>2, <1>3 DEF UiInTab
<1>13. PostedByOwner'
  <2> SUFFICES ASSUME ~strayed, NEW k \in DOMAIN msgs',
                      msgs'[k].type = "autoStop", msgs'[k].to \in DOMAIN tabs'
               PROVE  LET tab == tabs'[msgs'[k].to]
                      IN  \/ ~tab.streaming
                          \/ tab.thread = msgs'[k].by
                          \/ tab.thread = NoThread /\ ui'.pc = "closeAll"
    BY <1>2 DEF PostedByOwner
  <2>1. CASE k \in DOMAIN msgs /\ msgs'[k] = msgs[k]
    BY <1>2, <1>6, <2>1, SameMessages
  <2>2. CASE threads[t].phase = "post" /\ msgs'[k] = m
    <3>1. tabs[threads[t].index].thread = t /\ threads[t].index \in DOMAIN tabs
      BY <1>0, <1>2, <2>2 DEF Owned, Live
    <3> QED  BY <1>3, <1>8, <2>2, <3>1
  <2> QED  BY <1>10, <2>1, <2>2
<1> QED  BY <1>6, <1>11, <1>12, <1>13, SameOwnersKeeps

LEMMA PlayerStep ==
  ASSUME TabInv, NEW t \in Thread, Player(t)
  PROVE  TabInv'
<1>0. TypeOK /\ UiInTab  BY DEF TabInv, Sound
<1>1. threads \in [Thread -> ThreadState] /\ threads[t] \in ThreadState
  BY <1>0 DEF TypeOK
<1>2. PICK to \in {"alive", "stuck", "exited"} :
        /\ threads' = [threads EXCEPT ![t].player = to] /\ threads[t].phase \in Live
        /\ UNCHANGED <<tabs, capacity, windows, msgs, ui, terminated, strayed, logging>>
  BY DEF Player, Unstick, PlayerChanges
<1> DEFINE r == [threads[t] EXCEPT !.player = to]
<1>3. r \in ThreadState /\ r.index = threads[t].index /\ r.phase = threads[t].phase
  BY <1>1 DEF ThreadState
<1>4. threads' = [threads EXCEPT ![t] = r]  BY <1>2
<1> HIDE DEF r
<1>5. threads[t].phase # "none"  BY <1>2 DEF Live
<1>6. SameOwners /\ threads' \in [Thread -> ThreadState]
  BY <1>2, <1>3, <1>4, <1>5, ThreadMoves
<1>7. TypeOK'  BY <1>0, <1>2, <1>6 DEF TypeOK
<1>8. UiInTab'  BY <1>0, <1>2 DEF UiInTab
<1>9. PostedByOwner'  BY <1>2 DEF TabInv, PostedByOwner
<1> QED  BY <1>6, <1>7, <1>8, <1>9, SameOwnersKeeps

-----------------------------------------------------------------------------
(* Tabs come and go; streams start and are joined.                         *)

LEMMA AddStreamTabStep ==
  ASSUME TabInv, logging' \subseteq Thread, AddStreamTab
  PROVE  TabInv'
<1>0. TypeOK  BY DEF TabInv, Sound
<1> DEFINE w == windows + 1
           n == Len(tabs)
<1>1. /\ ui.pc = "loop" /\ msgs = << >> /\ ~terminated /\ n < MaxTabs /\ windows < MaxWindows
      /\ windows' = w /\ tabs' = Append(tabs, NewTab(w))
      /\ UNCHANGED <<msgs, ui, terminated>>
  BY DEF AddStreamTab, Idle
<1>2. tabs \in Seq(Tab) /\ n \in Nat /\ DOMAIN tabs = 1 .. n  BY <1>0, TabsTyped
<1>3. w \in 0 .. MaxWindows /\ NewTab(w) \in Tab
  <2>1. w \in 1 .. MaxWindows  BY <1>0, <1>1, Constants DEF TypeOK
  <2>2. NoThread \in 0 .. MaxThreads  BY Constants
  <2> HIDE DEF w
  <2> QED  BY <2>1, <2>2, Constants DEF NewTab, Tab
<1>4. NewTab(w).thread = NoThread  BY DEF NewTab
<1> HIDE DEF w
<1>5. /\ tabs' \in Seq(Tab) /\ Len(tabs') = n + 1 /\ DOMAIN tabs' = 1 .. n + 1
      /\ \A i \in 1 .. n : tabs'[i] = tabs[i]
      /\ tabs'[n + 1] = NewTab(w)
  <2>1. /\ tabs' \in Seq(Tab) /\ Len(tabs') = n + 1
        /\ \A i \in 1 .. n : tabs'[i] = tabs[i]
        /\ tabs'[n + 1] = NewTab(w)
    BY <1>1, <1>2, <1>3, AppendProperties
  <2> QED  BY <2>1, LenProperties
<1> HIDE DEF n
<1>6. \A i \in 1 .. n + 1 : i \in 1 .. n \/ i = n + 1  BY <1>2
<1>7. \A i \in 1 .. n : i \in 1 .. n + 1  BY <1>2
<1>8. capacity' \in Nat /\ n + 1 <= capacity'
  <2>1. capacity \in Nat /\ n <= capacity  BY <1>0 DEF TypeOK, n
  <2>2. CASE n < capacity
    <3>1. capacity' = capacity  BY <2>2 DEF AddStreamTab, n
    <3> QED  BY <1>2, <2>1, <2>2, <3>1
  <2>3. CASE ~(n < capacity)
    <3> DEFINE a == capacity + 1
               b == capacity + capacity \div 2
    <3>1. capacity' = Max({a, b})  BY <2>3 DEF AddStreamTab, n
    <3>2. a \in Nat /\ b \in Nat /\ n + 1 <= a  BY <1>2, <2>1
    <3> HIDE DEF a, b
    <3>3. \E x \in {a, b} : \A y \in {a, b} : x >= y  BY <3>2
    <3>4. Max({a, b}) \in {a, b} /\ \A y \in {a, b} : Max({a, b}) >= y
      BY <3>3 DEF Max
    <3>5. capacity' \in Nat /\ capacity' >= a  BY <3>1, <3>2, <3>4
    <3> QED  BY <1>2, <3>2, <3>5
  <2> QED  BY <2>2, <2>3
<1>9. /\ threads' \in [Thread -> ThreadState]
      /\ \A t \in Thread : /\ threads'[t].phase = threads[t].phase
                           /\ threads'[t].index = threads[t].index
  <2>1. threads \in [Thread -> ThreadState]  BY <1>0 DEF TypeOK
  <2>2. CASE UNCHANGED threads  BY <2>1, <2>2
  <2>3. CASE threads' = [t \in Thread |-> [threads[t] EXCEPT !.slot = Dangling]]
    <3>1. Dangling \in 0 .. MaxTabs  BY Constants DEF Dangling
    <3>2. \A t \in Thread : /\ [threads[t] EXCEPT !.slot = Dangling] \in ThreadState
                            /\ [threads[t] EXCEPT !.slot = Dangling].phase = threads[t].phase
                            /\ [threads[t] EXCEPT !.slot = Dangling].index = threads[t].index
      BY <2>1, <3>1 DEF ThreadState
    <3> QED  BY <2>3, <3>2
  <2> QED  BY <2>2, <2>3 DEF AddStreamTab
<1>10. strayed' \in BOOLEAN /\ (strayed => strayed')
  BY <1>0 DEF AddStreamTab, TypeOK, InUse
<1>11. TypeOK'
  <2>1. n + 1 <= MaxTabs  BY <1>1, <1>2, Constants
  <2> QED  BY <1>0, <1>1, <1>3, <1>5, <1>8, <1>9, <1>10, <2>1 DEF TypeOK
<1>12. RunningIsShown'
  BY <1>1, <1>2, <1>5, <1>7, <1>9 DEF TabInv, Sound, RunningIsShown
<1>13. IdleTabHasNoThread'
  BY <1>1, <1>2, <1>4, <1>5, <1>6 DEF TabInv, Sound, IdleTabHasNoThread
<1>14. UiInTab'  BY <1>1 DEF UiInTab
<1>15. Owned'
  BY <1>1, <1>2, <1>5, <1>7, <1>9, <1>10 DEF TabInv, Owned
<1>16. PostedByOwner'  BY <1>1 DEF PostedByOwner
<1> QED  BY <1>11, <1>12, <1>13, <1>14, <1>15, <1>16 DEF TabInv, Sound

LEMMA WatchStreamStep ==
  ASSUME TabInv, logging' \subseteq Thread, NEW i \in DOMAIN tabs, WatchStream(i)
  PROVE  TabInv'
<1>0. TypeOK  BY DEF TabInv, Sound
<1>1. PICK t \in Thread :
        /\ threads[t].phase = "none"
        /\ threads' = [threads EXCEPT ![t] = [phase |-> "starting",
                         player |-> "none", slot |-> i, index |-> i]]
        /\ tabs' = [tabs EXCEPT ![i].streaming = TRUE, ![i].cancel = FALSE,
                                ![i].user = FALSE, ![i].thread = t]
  BY DEF WatchStream, WatchStreamFrom
<1>2. /\ ui.pc = "loop" /\ msgs = << >> /\ ~tabs[i].streaming /\ ~terminated
      /\ terminated' = (tabs[i].thread # NoThread)
      /\ UNCHANGED <<capacity, windows, msgs, ui, strayed>>
  BY DEF WatchStream, WatchStreamFrom, Idle
<1>3. tabs \in Seq(Tab) /\ tabs[i] \in Tab /\ DOMAIN tabs \subseteq 1 .. MaxTabs
  BY <1>0, TabsTyped
<1> DEFINE r == [tabs[i] EXCEPT !.streaming = TRUE, !.cancel = FALSE, !.user = FALSE,
                             !.thread = t]
<1>4. r \in Tab /\ r.streaming = TRUE /\ r.thread = t
  <2>1. t \in 0 .. MaxThreads  BY Constants
  <2> QED  BY <1>3, <2>1 DEF Tab
<1>5. tabs' = [tabs EXCEPT ![i] = r]  BY <1>1, <1>3
<1> HIDE DEF r
<1>6. /\ tabs' \in Seq(Tab) /\ Len(tabs') = Len(tabs) /\ DOMAIN tabs' = DOMAIN tabs
      /\ \A j \in DOMAIN tabs : tabs'[j] = IF j = i THEN r ELSE tabs[j]
  BY <1>3, <1>4, <1>5, OneTab
<1>7. /\ threads' \in [Thread -> ThreadState]
      /\ \A u \in Thread \ {t} : threads'[u] = threads[u]
      /\ threads'[t].phase = "starting" /\ threads'[t].index = i
  <2>1. threads \in [Thread -> ThreadState]  BY <1>0 DEF TypeOK
  <2>2. i \in 0 .. MaxTabs  BY <1>3, Constants
  <2> QED  BY <1>1, <2>1, <2>2 DEF ThreadState, Live
<1>8. i # 0 /\ tabs[i].thread = NoThread
  <2>1. tabs[i].thread = NoThread  BY <1>2 DEF TabInv, Sound, IdleTabHasNoThread
  <2>2. i # 0  BY <1>3, Constants
  <2> QED  BY <2>1, <2>2
<1>9. TypeOK'  BY <1>0, <1>2, <1>6, <1>7 DEF TypeOK
<1>10. RunningIsShown'
  <2> SUFFICES ASSUME NEW u \in Thread, threads'[u].phase \in Live
               PROVE  \E j \in DOMAIN tabs : tabs'[j].streaming /\ tabs'[j].thread = u
    BY <1>6 DEF RunningIsShown
  <2>1. CASE u = t  BY <1>4, <1>6, <2>1
  <2>2. CASE u # t
    <3>1. PICK j \in DOMAIN tabs : tabs[j].streaming /\ tabs[j].thread = u
      BY <1>2, <1>7, <2>2 DEF TabInv, Sound, RunningIsShown
    <3>2. j # i  BY <1>2, <3>1
    <3> QED  BY <1>6, <3>1, <3>2
  <2> QED  BY <2>1, <2>2
<1>11. IdleTabHasNoThread'
  BY <1>2, <1>4, <1>6 DEF TabInv, Sound, IdleTabHasNoThread
<1>12. UiInTab'  BY <1>2 DEF UiInTab
<1>13. Owned'
  <2>1. ASSUME NEW u \in Thread PROVE threads'[u].phase # "none" => threads'[u].index # 0
    BY <1>7, <1>8 DEF TabInv, Owned
  <2>2. ASSUME ~strayed, NEW u \in Thread, threads'[u].phase \in Live
        PROVE  threads'[u].index \in DOMAIN tabs /\ tabs'[threads'[u].index].thread = u
    <3>1. CASE u = t  BY <1>4, <1>6, <1>7, <3>1
    <3>2. CASE u # t
      <4>1. threads[u].index \in DOMAIN tabs /\ tabs[threads[u].index].thread = u
        BY <1>2, <1>7, <2>2, <3>2 DEF TabInv, Owned
      <4>2. threads[u].index # i  BY <1>8, <4>1, Constants
      <4> QED  BY <1>6, <1>7, <3>2, <4>1, <4>2
    <3> QED  BY <3>1, <3>2
  <2> QED  BY <1>2, <1>6, <2>1, <2>2 DEF Owned
<1>14. PostedByOwner'  BY <1>2 DEF PostedByOwner
<1> QED  BY <1>9, <1>10, <1>11, <1>12, <1>13, <1>14 DEF TabInv, Sound

LEMMA JoinStreamThreadStep ==
  ASSUME TabInv, logging' \subseteq Thread, JoinStreamThread
  PROVE  TabInv'
<1>0. TypeOK /\ UiInTab  BY DEF TabInv, Sound
<1> DEFINE i == ui.slot
           r == [tabs[i] EXCEPT !.streaming = FALSE, !.thread = NoThread]
<1>1. /\ ui.pc = "join" /\ ~terminated /\ Joined(tabs[i].thread) /\ ui' = Loop
      /\ tabs' = [tabs EXCEPT ![i] = r]
      /\ UNCHANGED <<threads, capacity, windows, msgs, terminated, strayed>>
  BY DEF JoinStreamThread
<1>2. i \in DOMAIN tabs  BY <1>0, <1>1 DEF UiInTab
<1>3. tabs \in Seq(Tab) /\ tabs[i] \in Tab  BY <1>0, <1>2, TabsTyped
<1>4. r \in Tab /\ r.streaming = FALSE /\ r.thread = NoThread  BY <1>3, Constants DEF Tab
<1> HIDE DEF r, i
<1>5. /\ tabs' \in Seq(Tab) /\ Len(tabs') = Len(tabs) /\ DOMAIN tabs' = DOMAIN tabs
      /\ \A j \in DOMAIN tabs : tabs'[j] = IF j = i THEN r ELSE tabs[j]
  BY <1>1, <1>2, <1>3, <1>4, OneTab
<1>6. \A t \in Thread : threads[t].phase \in Live => tabs[i].thread # t
  <2> SUFFICES ASSUME NEW t \in Thread, threads[t].phase \in Live, tabs[i].thread = t
               PROVE  FALSE
    OBVIOUS
  <2>1. threads[t].phase = "done"  BY <1>1, Constants DEF Joined
  <2> QED  BY <2>1 DEF Live
<1>7. TypeOK'
  <2>1. 0 \in 0 .. MaxTabs  BY Constants
  <2> QED  BY <1>0, <1>1, <1>5, <2>1 DEF TypeOK, Loop
<1>8. RunningIsShown'
  <2> SUFFICES ASSUME NEW t \in Thread, threads[t].phase \in Live
               PROVE  \E j \in DOMAIN tabs : tabs'[j].streaming /\ tabs'[j].thread = t
    BY <1>1, <1>5 DEF RunningIsShown
  <2>1. PICK j \in DOMAIN tabs : tabs[j].streaming /\ tabs[j].thread = t
    BY <1>1 DEF TabInv, Sound, RunningIsShown
  <2>2. j # i  BY <1>6, <2>1
  <2> QED  BY <1>5, <2>1, <2>2
<1>9. IdleTabHasNoThread'
  BY <1>1, <1>4, <1>5 DEF TabInv, Sound, IdleTabHasNoThread
<1>10. UiInTab'  BY <1>1 DEF UiInTab, Loop
<1>11. Owned'
  BY <1>1, <1>5, <1>6 DEF TabInv, Owned
<1>12. PostedByOwner'
  <2> SUFFICES ASSUME ~strayed, NEW k \in DOMAIN msgs, msgs[k].type = "autoStop",
                      msgs[k].to \in DOMAIN tabs
               PROVE  LET tab == tabs'[msgs[k].to]
                      IN  ~tab.streaming \/ tab.thread = msgs[k].by
    BY <1>1, <1>5 DEF PostedByOwner
  <2>1. LET tab == tabs[msgs[k].to] IN ~tab.streaming \/ tab.thread = msgs[k].by
    BY <1>1 DEF TabInv, PostedByOwner
  <2> QED  BY <1>4, <1>5, <2>1
<1> QED  BY <1>7, <1>8, <1>9, <1>10, <1>11, <1>12 DEF TabInv, Sound

LEMMA CloseActiveTabStep ==
  ASSUME TabInv, logging' \subseteq Thread, NEW i \in DOMAIN tabs, CloseActiveTab(i)
  PROVE  TabInv'
<1>0. TypeOK  BY DEF TabInv, Sound
<1> DEFINE n == Len(tabs)
<1>1. /\ ui.pc = "loop" /\ msgs = << >> /\ ~terminated /\ tabs' = RemoveAt(tabs, i)
      /\ terminated' = (tabs[i].thread # NoThread)
      /\ strayed' = (strayed \/ InUse(i + 1))
      /\ UNCHANGED <<threads, capacity, windows, msgs, ui>>
  BY DEF CloseActiveTab, Idle, Erase
<1>2. tabs \in Seq(Tab) /\ n \in Nat /\ DOMAIN tabs = 1 .. n /\ i \in 1 .. n
  BY <1>0, TabsTyped
<1>3. /\ tabs' \in Seq(Tab) /\ Len(tabs') = n - 1 /\ DOMAIN tabs' = 1 .. n - 1
      /\ \A k \in 1 .. n - 1 : tabs'[k] = IF k < i THEN tabs[k] ELSE tabs[k + 1]
  <2>1. /\ tabs' \in Seq(Tab) /\ Len(tabs') = n - 1
        /\ \A k \in 1 .. n - 1 : tabs'[k] = IF k < i THEN tabs[k] ELSE tabs[k + 1]
    BY <1>1, <1>2, RemoveAtProperties
  <2> QED  BY <2>1, LenProperties
<1> HIDE DEF n
<1>4. TypeOK'
  <2>1. n <= MaxTabs /\ capacity \in Nat /\ n <= capacity  BY <1>0 DEF TypeOK, n
  <2>2. n - 1 <= MaxTabs /\ n - 1 <= capacity  BY <1>2, <2>1, Constants
  <2> QED  BY <1>0, <1>1, <1>3, <2>2 DEF TypeOK, InUse
<1>5. RunningIsShown'
  <2> SUFFICES ASSUME ~terminated', NEW t \in Thread, threads[t].phase \in Live
               PROVE  \E j \in 1 .. n - 1 : tabs'[j].streaming /\ tabs'[j].thread = t
    BY <1>1, <1>3 DEF RunningIsShown
  <2>1. PICK j \in 1 .. n : tabs[j].streaming /\ tabs[j].thread = t
    BY <1>1, <1>2 DEF TabInv, Sound, RunningIsShown
  <2>2. j # i  BY <1>1, <2>1, Constants
  <2>3. CASE j < i
    <3>1. j \in 1 .. n - 1  BY <1>2, <2>3
    <3> QED  BY <1>3, <2>1, <2>3, <3>1
  <2>4. CASE ~(j < i)
    <3>1. j - 1 \in 1 .. n - 1 /\ ~(j - 1 < i) /\ (j - 1) + 1 = j  BY <1>2, <2>2, <2>4
    <3> QED  BY <1>3, <2>1, <3>1
  <2> QED  BY <2>3, <2>4
<1>6. IdleTabHasNoThread'
  <2> SUFFICES ASSUME ~terminated', NEW k \in 1 .. n - 1, ~tabs'[k].streaming
               PROVE  tabs'[k].thread = NoThread
    BY <1>3 DEF IdleTabHasNoThread
  <2>1. k \in 1 .. n /\ k + 1 \in 1 .. n  BY <1>2
  <2> QED  BY <1>1, <1>2, <1>3, <2>1 DEF TabInv, Sound, IdleTabHasNoThread
<1>7. UiInTab'  BY <1>1 DEF UiInTab
<1>8. Owned'
  <2>1. \A t \in Thread : threads'[t].phase # "none" => threads'[t].index # 0
    BY <1>1 DEF TabInv, Owned
  <2>2. ASSUME ~strayed', ~terminated', NEW t \in Thread, threads[t].phase \in Live
        PROVE  threads[t].index \in 1 .. n - 1 /\ tabs'[threads[t].index].thread = t
    <3> DEFINE j == threads[t].index
    <3>1. j \in 1 .. n /\ tabs[j].thread = t
      BY <1>1, <1>2, <2>2 DEF TabInv, Owned
    <3>2. j # i  BY <1>1, <2>2, <3>1, Constants
    <3>3. \A k \in i + 1 .. n : tabs[k].thread = NoThread  BY <1>1, <2>2 DEF InUse, n
    <3>4. j \notin i + 1 .. n  BY <3>1, <3>3, Constants
    <3> HIDE DEF j
    <3>5. j < i /\ j \in 1 .. n - 1  BY <1>2, <3>1, <3>2, <3>4
    <3>6. tabs'[j] = tabs[j]  BY <1>3, <3>5
    <3> QED  BY <3>1, <3>5, <3>6 DEF j
  <2> QED  BY <1>1, <1>3, <2>1, <2>2 DEF Owned
<1>9. PostedByOwner'  BY <1>1 DEF PostedByOwner
<1> QED  BY <1>4, <1>5, <1>6, <1>7, <1>8, <1>9 DEF TabInv, Sound

LEMMA CloseNextTabStep ==
  ASSUME TabInv, logging' \subseteq Thread, CloseNextTab
  PROVE  TabInv'
<1>0. TypeOK /\ UiInTab  BY DEF TabInv, Sound
<1> DEFINE i == ui.slot
           n == Len(tabs)
<1>1. /\ ui.pc = "closeAll" /\ ~terminated /\ Joined(tabs[i].thread)
      /\ UNCHANGED <<capacity, windows, msgs, terminated, strayed>>
  BY DEF CloseNextTab
<1>2. tabs \in Seq(Tab) /\ n \in Nat /\ DOMAIN tabs = 1 .. n /\ i \in 1 .. n
  BY <1>0, <1>1, TabsTyped DEF UiInTab
<1>3. tabs[i] \in Tab  BY <1>0, <1>2, TabsTyped
<1>4. \A t \in Thread : threads[t].phase \in Live => tabs[i].thread # t
  <2> SUFFICES ASSUME NEW t \in Thread, threads[t].phase \in Live, tabs[i].thread = t
               PROVE  FALSE
    OBVIOUS
  <2>1. threads[t].phase = "done"  BY <1>1, Constants DEF Joined
  <2> QED  BY <2>1 DEF Live
<1>5. \A j \in 1 .. i - 1 : tabs[j].thread = NoThread  BY <1>0, <1>1 DEF UiInTab
<1>6. /\ threads' \in [Thread -> ThreadState]
      /\ \A t \in Thread : /\ threads'[t].phase = threads[t].phase
                           /\ threads'[t].index = threads[t].index
  <2>1. threads \in [Thread -> ThreadState]  BY <1>0 DEF TypeOK
  <2>2. threads' = [t \in Thread |->
          IF t = tabs[i].handle /\ threads[t].phase \in Live \ {"notify", "post"}
          THEN [threads[t] EXCEPT !.player = "exited"] ELSE threads[t]]
    BY DEF CloseNextTab
  <2>3. \A t \in Thread :
          /\ [threads[t] EXCEPT !.player = "exited"] \in ThreadState
          /\ [threads[t] EXCEPT !.player = "exited"].phase = threads[t].phase
          /\ [threads[t] EXCEPT !.player = "exited"].index = threads[t].index
    BY <2>1 DEF ThreadState
  <2> QED  BY <2>1, <2>2, <2>3
<1>7. CASE i < n
  <2> DEFINE r == [tabs[i] EXCEPT !.thread = NoThread, !.handle = NoThread]
  <2>1. ui' = [ui EXCEPT !.slot = i + 1] /\ tabs' = [tabs EXCEPT ![i] = r]
    BY <1>7 DEF CloseNextTab
  <2>2. r \in Tab /\ r.streaming = tabs[i].streaming /\ r.thread = NoThread
    BY <1>3, Constants DEF Tab
  <2> HIDE DEF r
  <2>3. /\ tabs' \in Seq(Tab) /\ Len(tabs') = n /\ DOMAIN tabs' = 1 .. n
        /\ \A j \in 1 .. n : tabs'[j] = IF j = i THEN r ELSE tabs[j]
    BY <1>2, <2>1, <2>2, OneTab
  <2>4. n <= MaxTabs  BY <1>0 DEF TypeOK
  <2>5. ui'.pc = "closeAll" /\ ui'.slot = i + 1 /\ ui' \in [pc : {"closeAll"}, slot : {i + 1}]
    BY <1>0, <1>1, <2>1 DEF TypeOK
  <2> HIDE DEF i, n
  <2>6. i + 1 \in 1 .. n /\ i + 1 \in 0 .. MaxTabs  BY <1>2, <1>7, <2>4, Constants
  <2>7. TypeOK'
    <3>1. n <= MaxTabs /\ n <= capacity  BY <1>0 DEF TypeOK, n
    <3>2. ui' \in [pc : {"loop", "flag", "join", "closeAll"}, slot : 0 .. MaxTabs]
      BY <2>5, <2>6
    <3> QED  BY <1>0, <1>1, <1>6, <2>3, <3>1, <3>2 DEF TypeOK
  <2>8. RunningIsShown'
    <3> SUFFICES ASSUME NEW t \in Thread, threads[t].phase \in Live
                 PROVE  \E j \in 1 .. n : tabs'[j].streaming /\ tabs'[j].thread = t
      BY <1>6, <2>3 DEF RunningIsShown
    <3>1. PICK j \in 1 .. n : tabs[j].streaming /\ tabs[j].thread = t
      BY <1>1, <1>2 DEF TabInv, Sound, RunningIsShown
    <3>2. j # i  BY <1>4, <3>1
    <3> QED  BY <2>3, <3>1, <3>2
  <2>9. IdleTabHasNoThread'
    BY <1>1, <1>2, <2>2, <2>3 DEF TabInv, Sound, IdleTabHasNoThread
  <2>10. UiInTab'
    <3>1. ASSUME NEW j \in 1 .. i PROVE tabs'[j].thread = NoThread
      <4>1. j \in 1 .. n /\ (j \in 1 .. i - 1 \/ j = i)  BY <1>2
      <4> QED  BY <1>5, <2>2, <2>3, <4>1
    <3>2. ui'.slot - 1 = i  BY <1>2, <2>5
    <3>3. ui'.slot \in DOMAIN tabs'  BY <2>3, <2>5, <2>6
    <3>4. \A j \in 1 .. ui'.slot - 1 : tabs'[j].thread = NoThread  BY <3>1, <3>2
    <3> QED  BY <3>3, <3>4 DEF UiInTab
  <2>11. Owned'
    BY <1>1, <1>2, <1>4, <1>6, <2>3 DEF TabInv, Owned
  <2>12. PostedByOwner'
    <3> SUFFICES ASSUME ~strayed, NEW k \in DOMAIN msgs, msgs[k].type = "autoStop",
                        msgs[k].to \in 1 .. n
                 PROVE  LET tab == tabs'[msgs[k].to]
                        IN  \/ ~tab.streaming
                            \/ tab.thread = msgs[k].by
                            \/ tab.thread = NoThread
      BY <1>1, <2>3, <2>5 DEF PostedByOwner
    <3>1. LET tab == tabs[msgs[k].to]
          IN  ~tab.streaming \/ tab.thread = msgs[k].by \/ tab.thread = NoThread
      BY <1>1, <1>2 DEF TabInv, PostedByOwner
    <3> QED  BY <2>2, <2>3, <3>1
  <2> QED  BY <2>7, <2>8, <2>9, <2>10, <2>11, <2>12 DEF TabInv, Sound
<1>8. CASE ~(i < n)
  <2>1. ui' = Loop /\ tabs' = << >>  BY <1>8 DEF CloseNextTab
  <2>2. tabs' \in Seq(Tab) /\ Len(tabs') = 0 /\ DOMAIN tabs' = {}
    <3>1. << >> \in Seq(Tab) /\ Len(<< >>) = 0 /\ DOMAIN << >> = {}  OBVIOUS
    <3> QED  BY <2>1, <3>1
  <2> HIDE DEF i, n
  <2>3. i = n  BY <1>2, <1>8
  <2>4. \A t \in Thread : threads'[t].phase \notin Live
    <3> SUFFICES ASSUME NEW t \in Thread, threads[t].phase \in Live PROVE FALSE
      BY <1>6
    <3>1. PICK j \in 1 .. n : tabs[j].streaming /\ tabs[j].thread = t
      BY <1>1, <1>2 DEF TabInv, Sound, RunningIsShown
    <3>2. j # i  BY <1>4, <3>1
    <3>3. j \in 1 .. i - 1  BY <1>2, <2>3, <3>1, <3>2
    <3> QED  BY <1>5, <3>1, <3>3, Constants
  <2>5. TypeOK'
    <3>1. 0 \in 0 .. MaxTabs /\ 0 <= MaxTabs  BY Constants
    <3>2. capacity \in Nat /\ 0 <= capacity  BY <1>0 DEF TypeOK
    <3> QED  BY <1>0, <1>1, <1>6, <2>1, <2>2, <3>1, <3>2 DEF TypeOK, Loop
  <2>6. RunningIsShown' /\ IdleTabHasNoThread' /\ UiInTab' /\ PostedByOwner'
    BY <2>1, <2>2, <2>4 DEF RunningIsShown, IdleTabHasNoThread, UiInTab, PostedByOwner, Loop
  <2>7. Owned'  BY <1>6, <2>4 DEF TabInv, Owned
  <2> QED  BY <2>5, <2>6, <2>7 DEF TabInv, Sound
<1> QED  BY <1>7, <1>8

-----------------------------------------------------------------------------
(* The invariant.                                                          *)

LEMMA InitTabs == Init => TabInv
<1> SUFFICES ASSUME Init PROVE TabInv
  OBVIOUS
<1> USE DEF Init
<1>1. NewTab(1) \in Tab /\ NewTab(1).thread = NoThread
  <2>1. 1 \in 1 .. MaxWindows /\ NoThread \in 0 .. MaxThreads  BY Constants
  <2> QED  BY <2>1 DEF NewTab, Tab
<1>2. tabs \in Seq(Tab) /\ Len(tabs) = 1 /\ DOMAIN tabs = {1} /\ tabs[1] = NewTab(1)
  <2>1. \A r \in Tab : /\ <<r>> \in Seq(Tab) /\ Len(<<r>>) = 1 /\ DOMAIN <<r>> = 1 .. 1
                       /\ <<r>>[1] = r
    OBVIOUS
  <2>2. 1 .. 1 = {1}  OBVIOUS
  <2> QED  BY <1>1, <2>1, <2>2
<1>3. threads \in [Thread -> ThreadState]
  <2>1. 0 \in 0 .. MaxTabs  BY Constants
  <2> QED  BY <2>1 DEF ThreadState, Dangling
<1>4. \A t \in Thread : threads[t].phase = "none"  OBVIOUS
<1>5. msgs \in Seq(Message) /\ DOMAIN msgs = {}
  <2>1. << >> \in Seq(Message) /\ DOMAIN << >> = {}  OBVIOUS
  <2> QED  BY <2>1
<1>6. TypeOK
  <2>1. 1 <= MaxTabs /\ Reserved \in Nat /\ 1 <= Reserved /\ 1 \in 0 .. MaxWindows
        /\ 0 \in 0 .. MaxTabs
    BY Constants
  <2> QED  BY <1>2, <1>3, <1>5, <2>1 DEF TypeOK, Loop
<1>7. RunningIsShown /\ IdleTabHasNoThread
  BY <1>1, <1>2, <1>4 DEF RunningIsShown, IdleTabHasNoThread, Live
<1>8. UiInTab /\ Owned /\ PostedByOwner
  BY <1>4, <1>5 DEF UiInTab, Owned, PostedByOwner, Loop, Live
<1> QED  BY <1>6, <1>7, <1>8 DEF TabInv, Sound

\* Steps that touch nothing but the log keep it.
LEMMA TabsUnchanged ==
  ASSUME TabInv, UNCHANGED tabVars, logging' \subseteq Thread
  PROVE  TabInv'
  BY DEF tabVars, TabInv, Sound, TypeOK, RunningIsShown, IdleTabHasNoThread, UiInTab, Owned,
         PostedByOwner

LEMMA NextTabs == TabInv /\ [Next]_vars => TabInv'
<1> SUFFICES ASSUME TabInv, [Next]_vars PROVE TabInv'
  OBVIOUS
<1>0. logging \subseteq Thread  BY DEF TabInv, Sound, TypeOK
<1>1. CASE UNCHANGED vars
  <2>1. UNCHANGED tabVars /\ logging' \subseteq Thread
    BY <1>0, <1>1 DEF vars
  <2> QED  BY <2>1, TabsUnchanged
<1>2. CASE User
  <2>1. logging' \subseteq Thread  BY <1>0, <1>2 DEF User
  <2> QED
    BY <1>2, <2>1, AddStreamTabStep, CloseAllTabsStep, WatchStreamStep, StopSteps,
       CloseActiveTabStep
       DEF User
<1>3. CASE UiSteps
  <2>1. logging' \subseteq Thread  BY <1>0, <1>3 DEF UiSteps
  <2> QED
    BY <1>3, <2>1, StopSteps, JoinStreamThreadStep, CloseNextTabStep, MessageSteps, TimerStep
       DEF UiSteps
<1>4. CASE \E t \in Thread : StreamThread(t) \/ Player(t)
  BY <1>4, StreamThreadStep, PlayerStep
<1>5. CASE \E t \in Thread : AddDebugLog(t)
  <2>1. UNCHANGED tabVars /\ logging' \subseteq Thread
    BY <1>0, <1>5 DEF AddDebugLog
  <2> QED  BY <2>1, TabsUnchanged
<1> QED  BY <1>1, <1>2, <1>3, <1>4, <1>5 DEF Next

\* The invariant holds in every state of the tabs of src/Tardsplaya.cpp.
THEOREM TabInvariant == Spec => []TabInv
  BY InitTabs, NextTabs, PTL DEF Spec

\* The tabs and their threads belong together, however many there are: a
\* running stream is shown as streaming in some tab, so that it can be stopped,
\* and a tab that is not streaming holds no joinable thread that Watch would
\* trip over.
THEOREM TabsSound == Spec => []Sound
<1>1. TabInv => Sound  BY DEF TabInv
<1> QED  BY <1>1, TabInvariant, PTL

\* An auto-stop message stops the stream that posted it and no other, as long as
\* no running tab has strayed: the handler of WM_USER + 2 has only the index.
THEOREM AutoStopNeverHitsAnother == Spec => AutoStopHitsOwner
<1> DEFINE Hits ==
      (msgs # << >> /\ Head(msgs).type = "autoStop" /\ AutoStop /\ ui'.pc = "join")
        => strayed \/ tabs[ui'.slot].thread = Head(msgs).by
<1>1. TabInv => Hits
  <2> SUFFICES ASSUME TabInv, msgs # << >>, Head(msgs).type = "autoStop", AutoStop,
                      ui'.pc = "join", ~strayed
               PROVE  tabs[ui'.slot].thread = Head(msgs).by
    OBVIOUS
  <2> DEFINE i == Head(msgs).to
  <2>1. ui.pc = "loop" /\ ~terminated /\ msgs' = Tail(msgs)  BY DEF AutoStop
  <2>2. i \in DOMAIN tabs /\ tabs[i].streaming /\ ui'.slot = i
    BY <2>1 DEF AutoStop
  <2>3. Head(msgs) = msgs[1] /\ 1 \in DOMAIN msgs
    BY <2>1, MessageTaken DEF TabInv, Sound
  <2> QED  BY <2>1, <2>2, <2>3 DEF TabInv, PostedByOwner
<1> HIDE DEF Hits
<1>2. Spec => [][Hits]_vars
  <2>1. TabInv /\ [Next]_vars => [Hits]_vars  BY <1>1
  <2> QED  BY <2>1, TabInvariant, PTL DEF Spec
<1> QED  BY <1>2 DEF Hits, AutoStopHitsOwner
=============================================================================
