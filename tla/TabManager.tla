------------------------------ MODULE TabManager ------------------------------
(***************************************************************************)
(* The tabs of src/Tardsplaya.cpp: the vector g_streams, the message loop  *)
(* of the user-interface thread, and the stream threads, which hold        *)
(* references into that vector.                                            *)
(*                                                                         *)
(* A StreamTab lives in a slot of the vector's storage.  A stream thread   *)
(* keeps references to the cancelToken, userRequestedStop and              *)
(* playerProcess of the slot it was started in, and the tab index of that  *)
(* moment.  Closing a tab moves the later tabs, each with its thread, down *)
(* by one slot; the references and the index stay what they were.          *)
(*                                                                         *)
(* Windows delivers posted messages before input and input before timers,  *)
(* so a user action waits for an empty message queue, a timer as well.     *)
(* Assigning to or destroying a joinable std::thread calls std::terminate. *)
(*                                                                         *)
(* What a stream thread does between its start and its end is module       *)
(* TxQueueStream; here it is a life cycle, and a player that is stuck is   *)
(* one that is paused with a full pipe while the consumer is writing.      *)
(*                                                                         *)
(* AddDebugLog, with the setting "Verbose debug" on, sends a message to    *)
(* the user-interface thread, which answers it when it next takes          *)
(* messages: at once in its message loop, not at all while it waits for a  *)
(* thread.  The stream threads whose call, or whose workers' call, is then *)
(* unanswered are in `logging'.                                            *)
(***************************************************************************)
EXTENDS Integers, Sequences, FiniteSets, SequencesExt

CONSTANTS
  MaxTabs,          \* bound of the model: tabs open at a time
  Reserved,         \* g_streams.reserve(20)
  MaxThreads,       \* bound of the model: streams started
  MaxWindows,       \* bound of the model: tabs ever opened
  Verbose           \* g_verboseDebug may be set

ASSUME TabManagerAssumption ==
  /\ MaxTabs \in Nat \ {0} /\ Reserved \in Nat \ {0} /\ MaxThreads \in Nat
  /\ MaxWindows \in Nat \ {0} /\ Verbose \in BOOLEAN

VARIABLES
  tabs,             \* g_streams
  capacity,         \* g_streams.capacity()
  threads,          \* the stream threads, by the order of their start
  windows,          \* child windows created so far
  msgs,             \* messages posted to the user-interface thread
  ui,               \* where the user-interface thread is
  terminated,       \* std::terminate has been called
  strayed,          \* a tab has moved away from its stream thread's references
  logging           \* stream threads waiting in AddDebugLog

tabVars == <<tabs, capacity, threads, windows, msgs, ui, terminated, strayed>>
vars == <<tabVars, logging>>

Thread == 1 .. MaxThreads
NoThread == 0                 \* a std::thread that is not joinable, a null HANDLE
Dangling == 0                 \* a reference into storage that has been freed

Tab == [child : 1 .. MaxWindows, streaming : BOOLEAN, cancel : BOOLEAN,
        user : BOOLEAN, thread : 0 .. MaxThreads, handle : 0 .. MaxThreads]

Live == {"starting", "running", "stopping", "notify", "post"}

ThreadState == [phase : {"none", "done"} \union Live,
                player : {"none", "alive", "stuck", "exited"},
                slot : 0 .. MaxTabs, index : 0 .. MaxTabs]
Message == [type : {"autoStop"}, to : 1 .. MaxTabs, by : Thread]
           \union [type : {"stop"}, to : 1 .. MaxWindows, by : {NoThread}]

TypeOK ==
  /\ tabs \in Seq(Tab) /\ Len(tabs) <= MaxTabs
  /\ capacity \in Nat /\ Len(tabs) <= capacity
  /\ threads \in [Thread -> ThreadState]
  /\ windows \in 0 .. MaxWindows
  /\ msgs \in Seq(Message)
  /\ ui \in [pc : {"loop", "flag", "join", "closeAll"}, slot : 0 .. MaxTabs]
  /\ terminated \in BOOLEAN /\ strayed \in BOOLEAN
  /\ logging \subseteq Thread

NewTab(w) == [child |-> w, streaming |-> FALSE, cancel |-> FALSE,
              user |-> FALSE, thread |-> NoThread, handle |-> NoThread]

Loop == [pc |-> "loop", slot |-> 0]

\* WM_CREATE opens the first tab.
Init ==
  /\ tabs = <<NewTab(1)>> /\ capacity = Reserved /\ windows = 1
  /\ threads = [t \in Thread |-> [phase |-> "none", player |-> "none",
                                  slot |-> Dangling, index |-> 0]]
  /\ msgs = << >> /\ ui = Loop /\ terminated = FALSE /\ strayed = FALSE
  /\ logging = {}

Idle == ui.pc = "loop" /\ msgs = << >> /\ ~terminated

-----------------------------------------------------------------------------
(* The user-interface thread: input.                                       *)

InUse(first) == \E i \in first .. Len(tabs) : tabs[i].thread # NoThread

\* emplace_back in a vector that is full moves every tab to new storage, half
\* as large again.
AddStreamTab ==
  /\ Idle /\ Len(tabs) < MaxTabs /\ windows < MaxWindows
  /\ windows' = windows + 1
  /\ tabs' = Append(tabs, NewTab(windows'))
  /\ IF Len(tabs) < capacity
     THEN UNCHANGED <<capacity, threads, strayed>>
     ELSE /\ capacity' = Max({capacity + 1, capacity + capacity \div 2})
          /\ threads' = [t \in Thread |-> [threads[t] EXCEPT !.slot = Dangling]]
          /\ strayed' = (strayed \/ InUse(1))
  /\ UNCHANGED <<msgs, ui, terminated>>

WatchStreamFrom(i, index) ==
  /\ Idle /\ ~tabs[i].streaming
  /\ \E t \in Thread :
       /\ threads[t].phase = "none" /\ \A s \in 1 .. t - 1 : threads[s].phase # "none"
       /\ threads' = [threads EXCEPT ![t] = [phase |-> "starting",
                        player |-> "none", slot |-> i, index |-> index]]
       /\ tabs' = [tabs EXCEPT ![i].streaming = TRUE, ![i].cancel = FALSE,
                               ![i].user = FALSE, ![i].thread = t]
  /\ terminated' = (tabs[i].thread # NoThread)
  /\ UNCHANGED <<capacity, windows, msgs, ui, strayed>>
WatchStreamLast(i) == WatchStreamFrom(i, Len(tabs))    \* mutant: index of the new tab
\* The flags are reset and the thread is running before the streamThread member
\* is assigned, which must not be joinable.
WatchStream(i) == WatchStreamFrom(i, i)

\* StopStream(tab, true), from the Stop button or the posted IDC_STOP.
StopByUser(i) ==
  /\ tabs[i].streaming
  /\ tabs' = [tabs EXCEPT ![i].cancel = TRUE]
  /\ ui' = [pc |-> "flag", slot |-> i]

ClickStop(i) ==
  /\ Idle /\ StopByUser(i)
  /\ UNCHANGED <<threads, capacity, windows, msgs, terminated, strayed>>

FlagUserStop ==
  /\ ui.pc = "flag" /\ ~terminated
  /\ tabs' = [tabs EXCEPT ![ui.slot].user = TRUE]
  /\ ui' = [ui EXCEPT !.pc = "join"]
  /\ UNCHANGED <<threads, capacity, windows, msgs, terminated, strayed>>

Joined(t) == t # NoThread => threads[t].phase = "done"

\* The end of StopStream.
JoinStreamThreadKeeps ==       \* mutant: isStreaming is not reset
  /\ ui.pc = "join" /\ ~terminated
  /\ Joined(tabs[ui.slot].thread)
  /\ ui' = Loop
  /\ UNCHANGED <<tabs, threads, capacity, windows, msgs, terminated, strayed>>
JoinStreamThread ==
  /\ ui.pc = "join" /\ ~terminated
  /\ Joined(tabs[ui.slot].thread)
  /\ tabs' = [tabs EXCEPT ![ui.slot].streaming = FALSE,
                          ![ui.slot].thread = NoThread]
  /\ ui' = Loop
  /\ UNCHANGED <<threads, capacity, windows, msgs, terminated, strayed>>

\* g_streams.erase: each later tab is move-assigned to the slot before it and
\* the last slot is destroyed.
EraseKeepsThread(i) ==         \* mutant: the move forgets streamThread
  [k \in 1 .. Len(tabs) - 1 |->
     IF k < i THEN tabs[k] ELSE [tabs[k + 1] EXCEPT !.thread = tabs[k].thread]]
Erase(i) == RemoveAt(tabs, i)

\* The first of these assignments (or the destruction) meets the closed tab's
\* own thread.
CloseActiveTab(i) ==
  /\ Idle
  /\ tabs' = Erase(i)
  /\ terminated' = (tabs[i].thread # NoThread)
  /\ strayed' = (strayed \/ InUse(i + 1))
  /\ UNCHANGED <<threads, capacity, windows, msgs, ui>>

\* CloseAllTabs, first loop.
CloseAllTabsOnlyFlag ==        \* mutant: the cancel tokens are not set
  /\ Idle /\ tabs # << >>
  /\ tabs' = [i \in DOMAIN tabs |->
                [tabs[i] EXCEPT !.user = @ \/ tabs[i].streaming]]
  /\ ui' = [pc |-> "closeAll", slot |-> 1]
  /\ UNCHANGED <<threads, capacity, windows, msgs, terminated, strayed>>
CloseAllTabs ==
  /\ Idle /\ tabs # << >>
  /\ tabs' = [i \in DOMAIN tabs |->
                [tabs[i] EXCEPT !.cancel = @ \/ tabs[i].streaming,
                                !.user = @ \/ tabs[i].streaming]]
  /\ ui' = [pc |-> "closeAll", slot |-> 1]
  /\ UNCHANGED <<threads, capacity, windows, msgs, terminated, strayed>>

\* Second loop.  wait_for may time out and detach the thread, but the future
\* of std::async is destroyed next, and its destructor waits for the join.
CloseNextTab ==
  /\ ui.pc = "closeAll" /\ ~terminated
  /\ Joined(tabs[ui.slot].thread)
  /\ IF ui.slot < Len(tabs)
     THEN /\ ui' = [ui EXCEPT !.slot = @ + 1]
          /\ tabs' = [tabs EXCEPT ![ui.slot].thread = NoThread,
                                  ![ui.slot].handle = NoThread]
     ELSE ui' = Loop /\ tabs' = << >>
  /\ threads' = [t \in Thread |->          \* the player, if its handle is open
       IF t = tabs[ui.slot].handle /\ threads[t].phase \in Live \ {"notify", "post"}
       THEN [threads[t] EXCEPT !.player = "exited"] ELSE threads[t]]
  /\ UNCHANGED <<capacity, windows, msgs, terminated, strayed>>

-----------------------------------------------------------------------------
(* The user-interface thread: messages and the timer.                      *)

\* WM_USER + 2: stops whatever streams in the tab of that index.
AutoStop ==
  /\ ui.pc = "loop" /\ ~terminated /\ msgs # << >>
  /\ Head(msgs).type = "autoStop"
  /\ LET i == Head(msgs).to
     IN  IF i \in DOMAIN tabs /\ tabs[i].streaming
         THEN /\ tabs' = [tabs EXCEPT ![i].cancel = TRUE]
              /\ ui' = [pc |-> "join", slot |-> i]
         ELSE UNCHANGED <<tabs, ui>>
  /\ msgs' = Tail(msgs)
  /\ UNCHANGED <<threads, capacity, windows, terminated, strayed>>

\* IDC_STOP, posted by the timer to the child window of a tab.
StopCommand ==
  /\ ui.pc = "loop" /\ ~terminated /\ msgs # << >>
  /\ Head(msgs).type = "stop"
  /\ LET mine == {i \in DOMAIN tabs : /\ tabs[i].child = Head(msgs).to
                                      /\ tabs[i].streaming}
     IN  IF mine = {} THEN UNCHANGED <<tabs, ui>>
                      ELSE \E i \in mine : StopByUser(i)
  /\ msgs' = Tail(msgs)
  /\ UNCHANGED <<threads, capacity, windows, terminated, strayed>>

\* The player process is signalled, or its handle was closed by Cleanup.
PlayerGone(h) ==
  threads[h].player = "exited" \/ threads[h].phase \in {"notify", "post", "done"}

GoneTabs ==
  {i \in DOMAIN tabs : /\ tabs[i].streaming /\ tabs[i].handle # NoThread
                       /\ PlayerGone(tabs[i].handle)}

\* TIMER_CHUNK_UPDATE: one message for each of these tabs, in their order.
Timer ==
  /\ Idle /\ GoneTabs # {}
  /\ \E gone \in [1 .. Cardinality(GoneTabs) -> GoneTabs] :
       /\ \A j, k \in DOMAIN gone : j < k => gone[j] < gone[k]
       /\ msgs' = [k \in DOMAIN gone |->
                     [type |-> "stop", by |-> NoThread, to |-> tabs[gone[k]].child]]
  /\ UNCHANGED <<tabs, threads, capacity, windows, ui, terminated, strayed>>

-----------------------------------------------------------------------------
(* A stream thread.                                                        *)

\* What it reads through its references; anything, once they dangle.
SeenIn(t, flag) ==
  IF threads[t].slot \in DOMAIN tabs THEN {tabs[threads[t].slot][flag]} ELSE BOOLEAN

Become(t, phase) == threads' = [threads EXCEPT ![t].phase = phase]

ThreadStarts(t) ==
  /\ threads[t].phase = "starting"
  /\ threads' = [threads EXCEPT ![t].phase = "running", ![t].player = "alive"]
  /\ tabs' = IF threads[t].slot \in DOMAIN tabs
             THEN [tabs EXCEPT ![threads[t].slot].handle = t] ELSE tabs
  /\ UNCHANGED msgs

ThreadFailsToStart(t) ==
  /\ threads[t].phase = "starting" /\ Become(t, "done")
  /\ UNCHANGED <<tabs, msgs>>

ThreadLeavesLoop(t) ==
  /\ threads[t].phase = "running"
  /\ \/ threads[t].player = "exited"
     \/ TRUE \in SeenIn(t, "cancel")
  /\ Become(t, "stopping")
  /\ UNCHANGED <<tabs, msgs>>

\* The workers are joined and the player is ended, unless the consumer is
\* blocked in a write.
ThreadCleansUp(t) ==
  /\ threads[t].phase = "stopping" /\ threads[t].player # "stuck"
  /\ threads' = [threads EXCEPT ![t].phase = "notify", ![t].player = "exited"]
  /\ UNCHANGED <<tabs, msgs>>

\* It looks whether the user has stopped it; if not, the message is posted later.
ThreadEnds(t) ==
  /\ threads[t].phase = "notify"
  /\ \E user \in SeenIn(t, "user") : Become(t, IF user THEN "done" ELSE "post")
  /\ UNCHANGED <<tabs, msgs>>

ThreadPosts(t) ==
  /\ threads[t].phase = "post" /\ Become(t, "done")
  /\ msgs' = Append(msgs, [type |-> "autoStop", to |-> threads[t].index, by |-> t])
  /\ UNCHANGED tabs

StreamThread(t) ==
  /\ ~terminated /\ t \notin logging
  /\ \/ ThreadStarts(t) \/ ThreadFailsToStart(t) \/ ThreadLeavesLoop(t)
     \/ ThreadCleansUp(t) \/ ThreadEnds(t) \/ ThreadPosts(t)
  /\ UNCHANGED <<capacity, windows, ui, terminated, strayed, logging>>

\* A line that the user-interface thread does not take.  Each phase of a stream
\* thread begins or ends with one; while it stops, it waits for its workers' lines.
AddDebugLog(t) ==
  /\ Verbose /\ ~terminated /\ ui.pc \in {"join", "closeAll"}
  /\ threads[t].phase \in Live
  /\ logging' = logging \union {t}
  /\ UNCHANGED tabVars

PlayerChanges(t, from, to) ==
  /\ ~terminated
  /\ threads[t].player \in from /\ threads[t].phase \in Live
  /\ threads' = [threads EXCEPT ![t].player = to]
  /\ UNCHANGED <<tabs, capacity, windows, msgs, ui, terminated, strayed, logging>>

Unstick(t) == PlayerChanges(t, {"stuck"}, "alive")

Player(t) ==
  \/ PlayerChanges(t, {"alive"}, "stuck") \/ Unstick(t)
  \/ PlayerChanges(t, {"alive", "stuck"}, "exited")

-----------------------------------------------------------------------------
\* Back in the message loop it takes the lines that wait.
UiSteps ==
  /\ FlagUserStop \/ JoinStreamThread \/ CloseNextTab \/ AutoStop
     \/ StopCommand \/ Timer
  /\ logging' = IF ui'.pc = "loop" THEN {} ELSE logging

User ==
  /\ \/ AddStreamTab \/ CloseAllTabs
     \/ \E i \in DOMAIN tabs : WatchStream(i) \/ ClickStop(i) \/ CloseActiveTab(i)
  /\ UNCHANGED logging

Next ==
  \/ User \/ UiSteps
  \/ \E t \in Thread : StreamThread(t) \/ AddDebugLog(t) \/ Player(t)

Spec == Init /\ [][Next]_vars

\* The threads of the program run; the user and the players need not act.
FairSpec ==
  /\ Spec /\ WF_vars(UiSteps)
  /\ \A t \in Thread : WF_vars(StreamThread(t))

\* And no player stays stuck for ever: a consumer that is blocked again and
\* again is let through in the end.
LivePlayerSpec ==
  /\ Spec /\ WF_vars(UiSteps)
  /\ \A t \in Thread : SF_vars(StreamThread(t)) /\ WF_vars(Unstick(t))

-----------------------------------------------------------------------------
(* Properties.  The first two hold whatever the user does with the tabs.   *)

\* A stream that still runs belongs to a tab that shows it as streaming, so
\* that the user can stop it.
RunningIsShown ==
  ~terminated => \A t \in Thread :
    threads[t].phase \in Live =>
      \E i \in DOMAIN tabs : tabs[i].streaming /\ tabs[i].thread = t

\* An idle tab holds no joinable thread, so that Watch, which assigns to its
\* streamThread, cannot end the program.
IdleTabHasNoThread ==
  ~terminated => \A i \in DOMAIN tabs :
    ~tabs[i].streaming => tabs[i].thread = NoThread

\* The tabs and their threads belong together.
Sound == TypeOK /\ RunningIsShown /\ IdleTabHasNoThread

\* An auto-stop message, which names a tab by its index only, never stops a
\* stream other than the one that posted it, unless a running tab has strayed:
\* the posted index is not updated when tabs move.
AutoStopHitsOwner ==
  [][(msgs # << >> /\ Head(msgs).type = "autoStop" /\ AutoStop /\ ui'.pc = "join")
       => strayed \/ tabs[ui'.slot].thread = Head(msgs).by]_vars

\* The user-interface thread waits for a stream thread that waits for it.
Hung ==
  ui.pc \in {"join", "closeAll"} /\ tabs[ui.slot].thread \in logging

\* StopStream and CloseAllTabs return to the message loop: the flags they set must
\* be those that the stream threads read.  Only verbose debug output, or references
\* that have strayed, can prevent it.
UiReturns ==
  ui.pc \in {"flag", "closeAll"} /\ ~strayed ~> (ui.pc = "loop" \/ Hung)

\* The tab of a stream whose player has exited becomes idle again, whatever tabs
\* are opened and closed in the meantime, unless the user interface hangs.
PlayerExitFreesTab ==
  \A t \in Thread :
    (threads[t].player = "exited")
      ~> (\/ \A i \in DOMAIN tabs : tabs[i].thread # t
          \/ strayed \/ terminated \/ Hung)

-----------------------------------------------------------------------------
(* An inductive invariant.                                                 *)

\* The user-interface thread is busy with a tab that exists, and leaves no
\* thread behind in the tabs that CloseAllTabs is done with.
UiInTab ==
  /\ ui.pc # "loop" => ui.slot \in DOMAIN tabs
  /\ ui.pc = "closeAll" => \A i \in 1 .. ui.slot - 1 : tabs[i].thread = NoThread

\* As long as no running tab has moved, a running stream is in the tab of the
\* index it will post.
Owned ==
  /\ \A t \in Thread : threads[t].phase # "none" => threads[t].index # 0
  /\ ~strayed /\ ~terminated => \A t \in Thread :
       threads[t].phase \in Live =>
         /\ threads[t].index \in DOMAIN tabs
         /\ tabs[threads[t].index].thread = t

\* So is the stream that posted a message, unless its tab has been stopped since
\* or is being closed.
PostedByOwner ==
  ~strayed /\ ~terminated => \A k \in DOMAIN msgs :
    (msgs[k].type = "autoStop" /\ msgs[k].to \in DOMAIN tabs) =>
      LET tab == tabs[msgs[k].to]
      IN  \/ ~tab.streaming
          \/ tab.thread = msgs[k].by
          \/ tab.thread = NoThread /\ ui.pc = "closeAll"

TabInv == Sound /\ UiInTab /\ Owned /\ PostedByOwner

-----------------------------------------------------------------------------
(* More statements of the documentation that the code does not meet.       *)

\* Writing to the log never makes a thread wait for the user interface.
NeverHung == ~Hung

\* Tabs can be closed without ending the program.
NotTerminated == ~terminated

\* The references of a running stream thread stay valid.
ReferencesValid == \A t \in Thread : threads[t].phase \in Live => threads[t].slot # Dangling

\* The timer stops a stream only because its own player has died.
TimerSeesOwnPlayer ==
  \A i \in GoneTabs : tabs[i].handle = tabs[i].thread
=============================================================================
