----------------------- MODULE DownloaderRoutineProofs -----------------------
(* The inductive invariant of one session of the downloader, for any peers,  *)
(* any chains and any limits, and the steps of the peerDownload routines and *)
(* of the messages to them, which preserve it.                               *)
EXTENDS Downloader, FiniteSetTheorems, TLAPS

Tasks == [status : {"Idle", "Downloading", "WaitProcessing", "Processed"},
          peer : Peer \cup {"nobody"}]

(* The task manager: curNo is within the list of the master's headers. *)
ManagerInv ==
    /\ DOMAIN tm = {"fromNo", "toNo", "curNo", "list", "headers", "closed"}
    /\ tm.fromNo \in Int /\ tm.toNo \in Int /\ tm.curNo \in Int
    /\ tm.list \in Seq(Tasks)
    /\ tm.fromNo <= tm.curNo /\ tm.curNo <= tm.fromNo + Len(tm.list)

(* run() has blocks to process below curNo.  Until a write fails, curNo is   *)
(* just past the blocks written and those in its hands, all downloaded.      *)
RunInv ==
    /\ DOMAIN run = {"at", "next"}
    /\ run.next \in Int /\ written \in Nat /\ failed \in BOOLEAN
    /\ run.at = "process" => run.next >= tm.fromNo /\ run.next < tm.curNo
    /\ ~failed /\ run.at = "process" =>
         /\ run.next = tm.fromNo + written
         /\ \A h \in run.next .. tm.curNo - 1 : Task(h).status = "WaitProcessing"
    /\ ~failed /\ run.at # "process" => tm.curNo = tm.fromNo + written

(* Before there is a task manager nothing runs and nothing is written; no    *)
(* routine runs before StartFetching; the only answers are those to the last *)
(* request of the caller.                                                    *)
Preparing == {"idle", "height", "heightSent", "heightWait",
              "ancestor", "ancestorSent", "ancestorWait"}
Settled == {"idle", "height", "ancestor", "start"}

IsHeaders(m) == m = <<[code |-> "Headers", nums |-> m[1].nums]>>
IsBlocks(m) == m = <<[code |-> "Blocks", nums |-> m[1].nums]>>
IsBoth(m) == m = <<[code |-> "Pre", nums |-> m[1].nums],
                   [code |-> "Blocks", nums |-> m[1].nums]>>
IsInterval(s) == \E lo, hi \in Int : s = lo .. hi

PrepareInv ==
    /\ local \in LocalChains /\ cmpCount \in Nat
    /\ sess \in Preparing => written = 0 /\ failed = FALSE /\ run.at = "ended"
    /\ sess \in Preparing \cup {"start"} =>
         /\ syncStatus # "Fetching"
         /\ \A c \in Conn : routine[c] = "none"
         /\ \A c \in Conn :
              \/ net[c] = <<>>
              \/ /\ c = via /\ sess \notin Settled
                 /\ IsHeaders(net[c]) /\ IsInterval(net[c][1].nums)

(* doSynchronise has returned without an error: run() has ended. *)
ResultInv ==
    result = "ok" => isDone /\ run.at = "ended" /\ sess \in {"return", "lastWait", "done"}

(* Answers are on their way on open connections only, and what the master    *)
(* sends is a finite number of headers.                                      *)
GoodAnswers(p, s) ==
    \E X : /\ s \in Seq(X)
           /\ \A m \in X : p = Master /\ m.code = "Headers" => IsFiniteSet(m.nums)

NetInv ==
    /\ DOMAIN net = Conn
    /\ \A c \in Conn : /\ GoodAnswers(peerID[c], net[c])
                       /\ c \notin open => net[c] = <<>>

(* A connection in d.peers is open, and a peer that was never connected      *)
(* twice at a time has one open connection at most.                          *)
Places == {"none", "loop", "getHeaders", "headersSent", "headersWait", "getBlocks",
           "blocksSent", "preWait", "preDone", "blocksWait", "idle", "quit", "cancel"}

ConnInv ==
    /\ routine \in [Conn -> Places] /\ DOMAIN conn = Conn
    /\ \A c \in Conn : /\ conn[c] = "absent" => c \notin open /\ routine[c] = "none"
                       /\ conn[c] = "up" => c \in open
    /\ \A c, d \in Conn :
         c \in open /\ d \in open /\ peerID[c] = peerID[d] /\ peerID[c] \notin doubled => c = d

(* The answers on their way on the only connection of a peer are those to    *)
(* the last request of its routine: once it has handled the announcement of  *)
(* the blocks that come, the peer holds no other tasks, unless a routine of  *)
(* a former connection holds them.                                           *)
Single(c) == c \in open /\ peerID[c] \notin doubled
OtherBusy(c) == \E d \in Conn : d # c /\ peerID[d] = peerID[c] /\ routine[d] \in Busy
Covered(c) == Assigned(peerID[c]) \subseteq net[c][1].nums \/ OtherBusy(c)

AnswersInv(c) ==
    Single(c) =>
      /\ net[c] = <<>> \/ IsHeaders(net[c]) \/ IsBlocks(net[c]) \/ IsBoth(net[c])
      /\ routine[c] \in {"loop", "getHeaders", "getBlocks", "idle"} => net[c] = <<>>
      /\ routine[c] \in {"headersSent", "headersWait"} =>
           net[c] = <<>> \/ IsHeaders(net[c])
      /\ routine[c] \in {"blocksSent", "preWait"} =>
           net[c] = <<>> \/ IsBlocks(net[c]) \/ IsBoth(net[c])
      /\ routine[c] \in {"preDone", "blocksWait"} =>
           net[c] = <<>> \/ (IsBlocks(net[c]) /\ Covered(c))

RoutinesInv == \A c \in Conn : AnswersInv(c)

(* TasksAreHeld, with the type of the peer. *)
IsBusy(p, r) == \E c \in Conn : peerID[c] = p /\ r[c] \in Busy

HeldInv ==
    \A h \in Pending :
        Task(h).status = "Downloading" =>
            /\ Task(h).peer \in Peer
            /\ Task(h).peer \in doubled \/ IsBusy(Task(h).peer, routine)

SessionInv ==
    /\ ManagerInv /\ RunInv /\ PrepareInv /\ ResultInv
    /\ NetInv /\ ConnInv /\ RoutinesInv /\ HeldInv
-----------------------------------------------------------------------------
(* A task that p is downloading is the one that Assigned looks for. *)
LEMMA DownloadingTask ==
  ASSUME NEW t \in Tasks, NEW p, t.status = "Downloading", t.peer = p
  PROVE  t = [status |-> "Downloading", peer |-> p]
  BY Zenon DEF Tasks

(* The tasks that the operations of the task manager store. *)
LEMMA NewTasks ==
  /\ Idle \in Tasks /\ Idle.status = "Idle"
  /\ \A p \in Peer : /\ [status |-> "Downloading", peer |-> p] \in Tasks
                      /\ [status |-> "WaitProcessing", peer |-> p] \in Tasks
  BY Zenon DEF Idle, Tasks

(* Heights and their places in the list. *)
LEMMA PlaceInList ==
  ASSUME NEW f \in Int, NEW n \in Nat, NEW h \in f .. f + n - 1
  PROVE  h \in Int /\ h - f + 1 \in 1 .. n /\ (h - f + 1) + f - 1 = h
  OBVIOUS

(* The list holds a task for every height that is listed. *)
LEMMA ListedTasks ==
  ASSUME ManagerInv
  PROVE  /\ Len(tm.list) \in Nat /\ DOMAIN tm.list = 1 .. Len(tm.list)
         /\ \A h \in Listed : h \in Int /\ At(h) \in DOMAIN tm.list /\ Task(h) \in Tasks
                             /\ At(h) + tm.fromNo - 1 = h
         /\ Pending \subseteq Listed
         /\ \A h \in Int : h >= tm.fromNo /\ h < tm.curNo => h \in Listed /\ h \notin Pending
<1>1. /\ Len(tm.list) \in Nat /\ DOMAIN tm.list = 1 .. Len(tm.list)
      /\ \A i \in DOMAIN tm.list : tm.list[i] \in Tasks
  BY DEF ManagerInv
<1>2. tm.fromNo \in Int /\ tm.curNo \in Int /\ tm.curNo <= tm.fromNo + Len(tm.list)
  BY Zenon DEF ManagerInv
<1>3. ASSUME NEW h \in Listed
      PROVE  h \in Int /\ At(h) \in DOMAIN tm.list /\ At(h) + tm.fromNo - 1 = h
  <2>1. h \in tm.fromNo .. tm.fromNo + Len(tm.list) - 1
    BY Zenon DEF Listed
  <2> QED
    BY Zenon, <1>1, <1>2, <2>1, PlaceInList DEF At
<1>4. \A h \in Int : h >= tm.fromNo /\ h < tm.curNo => h \in Listed /\ h \notin Pending
  BY <1>1, <1>2 DEF Listed, Pending
<1> QED
  BY Zenon, <1>1, <1>3, <1>4 DEF Task, Pending

(* The list that SetTasks makes. *)
LEMMA SetTasksList ==
  ASSUME ManagerInv, NEW hs, NEW t \in Tasks
  PROVE  /\ SetTasks(hs, t) \in Seq(Tasks) /\ Len(SetTasks(hs, t)) = Len(tm.list)
         /\ \A h \in Listed : SetTasks(hs, t)[At(h)] = IF h \in hs THEN t ELSE Task(h)
<1> DEFINE l == SetTasks(hs, t)
<1>1. /\ Len(tm.list) \in Nat /\ DOMAIN tm.list = 1 .. Len(tm.list)
      /\ \A i \in DOMAIN tm.list : tm.list[i] \in Tasks
  BY DEF ManagerInv
<1>2. l = [i \in 1 .. Len(tm.list) |-> IF i + tm.fromNo - 1 \in hs THEN t ELSE tm.list[i]]
  BY Zenon, <1>1 DEF SetTasks
<1>3. l \in [1 .. Len(tm.list) -> Tasks]
  BY Zenon, <1>1, <1>2
<1>4. l \in Seq(Tasks) /\ Len(l) = Len(tm.list)
  BY <1>1, <1>3
<1>5. ASSUME NEW h \in Listed PROVE l[At(h)] = IF h \in hs THEN t ELSE Task(h)
  <2>1. At(h) \in 1 .. Len(tm.list) /\ At(h) + tm.fromNo - 1 = h
    BY Zenon, <1>1, ListedTasks
  <2> QED
    BY Zenon, <1>2, <2>1 DEF Task
<1> QED
  BY Zenon, <1>4, <1>5

(* A new list of the same length. *)
LEMMA NewList ==
  ASSUME ManagerInv, NEW l \in Seq(Tasks), Len(l) = Len(tm.list),
         tm' = [tm EXCEPT !.list = l]
  PROVE  /\ ManagerInv'
         /\ tm'.fromNo = tm.fromNo /\ tm'.toNo = tm.toNo /\ tm'.curNo = tm.curNo
         /\ Listed' = Listed /\ Pending' = Pending
         /\ \A h \in Listed : Task(h)' = l[At(h)]
<1>1. /\ DOMAIN tm' = DOMAIN tm /\ tm'.fromNo = tm.fromNo /\ tm'.toNo = tm.toNo
      /\ tm'.curNo = tm.curNo /\ tm'.list = l
  BY Zenon DEF ManagerInv
<1>2. ManagerInv'
  BY Zenon, <1>1 DEF ManagerInv
<1>3. Listed' = Listed /\ Pending' = Pending
  BY Zenon, <1>1 DEF Listed, Pending
<1> QED
  BY Zenon, <1>1, <1>2, <1>3 DEF Task, At

(* SetTasks on the list of the task manager. *)
LEMMA NewTaskList ==
  ASSUME ManagerInv, NEW hs, NEW t \in Tasks, tm' = [tm EXCEPT !.list = SetTasks(hs, t)]
  PROVE  /\ ManagerInv'
         /\ tm'.fromNo = tm.fromNo /\ tm'.toNo = tm.toNo /\ tm'.curNo = tm.curNo
         /\ Listed' = Listed /\ Pending' = Pending
         /\ \A h \in Listed : Task(h)' = IF h \in hs THEN t ELSE Task(h)
<1> DEFINE l == SetTasks(hs, t)
<1>1. /\ l \in Seq(Tasks) /\ Len(l) = Len(tm.list)
      /\ \A h \in Listed : l[At(h)] = IF h \in hs THEN t ELSE Task(h)
  BY SetTasksList
<1>2. tm' = [tm EXCEPT !.list = l]
  BY Zenon
<1> HIDE DEF l
<1> QED
  BY Zenon, <1>1, <1>2, NewList
-----------------------------------------------------------------------------
(* What depends on the task manager and run() only. *)
LEMMA ManagerFrame ==
  ASSUME ManagerInv, RunInv, UNCHANGED <<tm, run, written, failed>>
  PROVE  ManagerInv' /\ RunInv'
  BY Zenon DEF ManagerInv, RunInv, Task, At

(* Tasks may change above curNo, or become ready. *)
LEMMA RunFrame ==
  ASSUME ManagerInv, RunInv, UNCHANGED <<run, written, failed>>,
         NEW hs, NEW t \in Tasks, tm' = [tm EXCEPT !.list = SetTasks(hs, t)],
         t.status = "WaitProcessing" \/ hs \subseteq Pending
  PROVE  RunInv'
<1>1. /\ tm'.fromNo = tm.fromNo /\ tm'.curNo = tm.curNo
      /\ \A h \in Listed : Task(h)' = IF h \in hs THEN t ELSE Task(h)
  BY Zenon, NewTaskList
<1>2. ASSUME failed = FALSE, run.at = "process",
             NEW h \in run.next .. tm.curNo - 1
      PROVE  Task(h)'.status = "WaitProcessing"
  <2>1. Task(h).status = "WaitProcessing"
    BY Zenon, <1>2 DEF RunInv
  <2>2. h \in Int /\ h >= tm.fromNo /\ h < tm.curNo
    BY <1>2 DEF RunInv, ManagerInv
  <2>3. h \in Listed /\ h \notin Pending
    BY Zenon, <2>2, ListedTasks
  <2> QED
    BY Zenon, <1>1, <2>1, <2>3
<1> QED
  BY Zenon, <1>1, <1>2 DEF RunInv

(* A connection belongs to a peer. *)
LEMMA PeerOfConn == ASSUME NEW c \in Conn PROVE peerID[c] \in Peer
  BY DownloaderAssumption

(* A routine that runs has been started by StartFetching or later. *)
LEMMA Started ==
  ASSUME PrepareInv, NEW c \in Conn, routine[c] # "none"
  PROVE  sess \notin Preparing \cup {"start"}
  BY Zenon DEF PrepareInv

(* The answers on d when another connection's routine takes a step. *)
LEMMA AnswersFrame ==
  ASSUME NEW d \in Conn, AnswersInv(d), Single(d)' => Single(d), net'[d] = net[d],
         routine'[d] = routine[d], Covered(d) => Covered(d)'
  PROVE  AnswersInv(d)'
  BY Zenon DEF AnswersInv, IsHeaders, IsBlocks, IsBoth

(* Nothing changes for the connections. *)
LEMMA ConnFrame ==
  ASSUME ConnInv, UNCHANGED peers, routine' \in [Conn -> Places],
         \A d \in Conn : routine[d] = "none" => routine'[d] = "none"
  PROVE  ConnInv' /\ \A d \in Conn : Single(d)' <=> Single(d)
  BY Zenon DEF ConnInv, Single, peers

(* A step of the routine of c, or of a message to it: what remains to be     *)
(* shown.                                                                    *)
LEMMA RoutineStep ==
  ASSUME SessionInv, NEW c \in Conn, routine[c] # "none", NEW x \in Places,
         routine' = [routine EXCEPT ![c] = x],
         UNCHANGED <<session, peers, run, written, failed>>,
         NetInv', \A d \in Conn : d # c /\ Single(d) => net'[d] = net[d],
         ManagerInv', RunInv', tm'.curNo = tm.curNo, tm'.toNo = tm.toNo,
         \A q \in Peer : q # peerID[c] => Assigned(q)' \subseteq Assigned(q),
         \/ x \in Busy
         \/ Assigned(peerID[c])' = {}
         \/ /\ Assigned(peerID[c])' \subseteq Assigned(peerID[c])
            /\ routine[c] \notin Busy \/ c \in open,
         AnswersInv(c)', HeldInv'
  PROVE  SessionInv'
<1>1. sess \notin Preparing \cup {"start"}
  BY Zenon, Started DEF SessionInv
<1>2. PrepareInv'
  BY Zenon, <1>1 DEF SessionInv, PrepareInv, session, prep
<1>3. ResultInv'
  BY Zenon DEF SessionInv, ResultInv, isDone, session
<1>4. /\ routine \in [Conn -> Places] /\ routine' \in [Conn -> Places]
      /\ routine'[c] = x /\ \A d \in Conn : d # c => routine'[d] = routine[d]
  BY Zenon DEF SessionInv, ConnInv
<1>5. ConnInv' /\ \A d \in Conn : Single(d)' <=> Single(d)
  BY Zenon, <1>4, ConnFrame DEF SessionInv
<1>6. ASSUME NEW d \in Conn, d # c PROVE AnswersInv(d)'
  <2>1. CASE ~Single(d)
    BY Zenon, <1>5, <2>1 DEF AnswersInv
  <2>2. CASE Single(d)
    <3>1. net'[d] = net[d] /\ routine'[d] = routine[d] /\ AnswersInv(d)
      BY Zenon, <1>4, <1>6, <2>2 DEF SessionInv, RoutinesInv
    <3>2. peerID[d] \in Peer
      BY Zenon, PeerOfConn
    <3>3. CASE peerID[d] # peerID[c]
      <4>1. OtherBusy(d) => OtherBusy(d)'
        BY Zenon, <1>4, <3>3 DEF OtherBusy
      <4>2. Assigned(peerID[d])' \subseteq Assigned(peerID[d])
        BY Zenon, <3>2, <3>3
      <4> QED
        BY Zenon, <1>5, <3>1, <4>1, <4>2, AnswersFrame DEF Covered
    <3>4. CASE peerID[d] = peerID[c]
      <4>1. c \notin open
        BY Zenon, <1>6, <2>2, <3>4 DEF SessionInv, ConnInv, Single
      <4>2. x \in Busy => OtherBusy(d)'
        BY Zenon, <1>4, <1>6, <3>4 DEF OtherBusy
      <4>3. routine[c] \notin Busy /\ OtherBusy(d) => OtherBusy(d)'
        BY Zenon, <1>4 DEF OtherBusy
      <4>4. Covered(d) => Covered(d)'
        <5>1. CASE x \in Busy
          BY Zenon, <4>2, <5>1 DEF Covered
        <5>2. CASE Assigned(peerID[c])' = {}
          BY Zenon, <3>4, <5>2 DEF Covered
        <5>3. CASE Assigned(peerID[c])' \subseteq Assigned(peerID[c]) /\ routine[c] \notin Busy
          BY Zenon, <3>1, <3>4, <4>3, <5>3 DEF Covered
        <5> QED
          BY Zenon, <4>1, <5>1, <5>2, <5>3
      <4> QED
        BY Zenon, <1>5, <3>1, <4>4, AnswersFrame
    <3> QED
      BY Zenon, <3>3, <3>4
  <2> QED
    BY Zenon, <2>1, <2>2
<1>7. RoutinesInv'
  BY Zenon, <1>6 DEF RoutinesInv
<1> QED
  BY Zenon, <1>2, <1>3, <1>5, <1>7 DEF SessionInv

(* The peers that have a busy routine when that of c moves to x. *)
LEMMA BusyAfter ==
  ASSUME ConnInv, NEW c \in Conn, NEW x, routine' = [routine EXCEPT ![c] = x]
  PROVE  /\ \A p : IsBusy(p, routine) /\ (p # peerID[c] \/ routine[c] \notin Busy) => IsBusy(p, routine')
         /\ x \in Busy => IsBusy(peerID[c], routine')
         /\ OtherBusy(c) => IsBusy(peerID[c], routine')
<1>1. routine'[c] = x /\ \A d \in Conn : d # c => routine'[d] = routine[d]
  BY Zenon DEF ConnInv
<1> QED
  BY Zenon, <1>1 DEF IsBusy, OtherBusy

(* The same tasks are held when c holds none or goes on holding them. *)
LEMMA HeldSameTasks ==
  ASSUME HeldInv, ConnInv, NEW c \in Conn, NEW x, doubled' = doubled,
         Pending' = Pending, \A h \in Pending : Task(h)' = Task(h),
         routine' = [routine EXCEPT ![c] = x],
         x \in Busy \/ routine[c] \notin Busy
  PROVE  HeldInv'
<1>1. \A p : IsBusy(p, routine) => IsBusy(p, routine')
  BY Zenon, BusyAfter
<1> QED
  BY Zenon, <1>1 DEF HeldInv

(* A step of c's routine that touches neither tasks nor messages. *)
LEMMA QuietStep ==
  ASSUME SessionInv, NEW c \in Conn, routine[c] # "none", NEW x \in Places,
         routine' = [routine EXCEPT ![c] = x],
         UNCHANGED <<session, peers, tm, net, store>>,
         x \in Busy \/ routine[c] \notin Busy,
         AnswersInv(c)'
  PROVE  SessionInv'
<1>1. ManagerInv' /\ RunInv'
  BY Zenon, ManagerFrame DEF SessionInv, store
<1>2. Pending' = Pending /\ (\A h : Task(h)' = Task(h)) /\ \A q \in Peer : Assigned(q)' = Assigned(q)
  BY Zenon DEF Assigned, Pending, Listed, Task, At
<1>3. HeldInv'
  BY Zenon, <1>2, HeldSameTasks DEF SessionInv, peers
<1>4. NetInv'
  BY Zenon DEF SessionInv, NetInv, peers
<1>5. peerID[c] \in Peer
  BY Zenon, PeerOfConn
<1> QED
  BY Zenon, <1>1, <1>2, <1>3, <1>4, <1>5, RoutineStep DEF store
-----------------------------------------------------------------------------
(* No answers are on their way to c. *)
LEMMA AnswersEmpty ==
  ASSUME NEW c \in Conn, net'[c] = <<>>
  PROVE  AnswersInv(c)'
  BY Zenon DEF AnswersInv

(* Nobody waits for them. *)
LEMMA AnswersIgnored ==
  ASSUME NEW c \in Conn, AnswersInv(c), UNCHANGED peers, net' = net,
         routine'[c] \in {"quit", "cancel", "none"}
  PROVE  AnswersInv(c)'
<1>1. \A s \in {"quit", "cancel", "none"} :
        s \notin {"loop", "getHeaders", "getBlocks", "idle", "headersSent", "headersWait",
                  "blocksSent", "preWait", "preDone", "blocksWait"}
  BY Zenon
<1>2. Single(c)' => net[c] = <<>> \/ IsHeaders(net[c]) \/ IsBlocks(net[c]) \/ IsBoth(net[c])
  BY Zenon DEF AnswersInv, Single, peers
<1> QED
  BY Zenon, <1>1, <1>2 DEF AnswersInv, IsHeaders, IsBlocks, IsBoth

(* No answers were on their way. *)
LEMMA AnswersStayEmpty ==
  ASSUME NEW c \in Conn, Single(c)' => net'[c] = <<>>
  PROVE  AnswersInv(c)'
  BY Zenon DEF AnswersInv

(* The loop, waitMsg, the idle select and the last step of the master. *)
LEMMA QuietSteps ==
  ASSUME SessionInv, NEW c \in Conn,
         \/ LoopHead(c) \/ waitMsg(c) \/ WaitInterrupted(c) \/ IdleOver(c) \/ MasterCancels(c)
  PROVE  SessionInv'
<1>1. routine \in [Conn -> Places] /\ AnswersInv(c)
  BY Zenon DEF SessionInv, ConnInv, RoutinesInv
<1>2. CASE LoopHead(c)
  <2> DEFINE x == IF isDone THEN "quit" ELSE "getHeaders"
  <2>1. /\ routine[c] = "loop" /\ routine' = [routine EXCEPT ![c] = x]
        /\ UNCHANGED <<session, peers, tm, net, store>>
    BY Zenon, <1>2 DEF LoopHead, links
  <2>2. x \in Places
    BY Zenon DEF Places
  <2>3. AnswersInv(c)'
    BY Zenon, <1>1, <2>1, AnswersStayEmpty DEF AnswersInv, Single, peers
  <2> HIDE DEF x
  <2> QED
    BY Zenon, <2>1, <2>2, <2>3, QuietStep DEF Busy
<1>3. CASE waitMsg(c)
  <2>1. PICK x \in {"headersWait", "preWait", "blocksWait"} :
          /\ routine' = [routine EXCEPT ![c] = x]
          /\ routine[c] = CASE x = "headersWait" -> "headersSent"
                            [] x = "preWait" -> "blocksSent"
                            [] x = "blocksWait" -> "preDone"
          /\ UNCHANGED <<session, peers, tm, net, store>>
    BY Zenon, <1>3 DEF waitMsg, links
  <2>2. routine'[c] = x /\ net' = net /\ \A d \in Conn : d # c => routine'[d] = routine[d]
    BY Zenon, <1>1, <2>1
  <2>3. Covered(c) => Covered(c)'
    <3>1. Assigned(peerID[c])' = Assigned(peerID[c])
      BY Zenon, <2>1 DEF Assigned, Pending, Listed, Task, At
    <3> QED
      BY Zenon, <2>2, <3>1 DEF Covered, OtherBusy
  <2>4. AnswersInv(c)'
    <3>1. Single(c)' => Single(c)
      BY Zenon, <2>1 DEF Single, peers
    <3> QED
      BY Zenon, <1>1, <2>1, <2>2, <2>3, <3>1 DEF AnswersInv, IsHeaders, IsBlocks, IsBoth
  <2>5. x \in Places /\ routine[c] # "none" /\ (x \in Busy \/ routine[c] \notin Busy)
    BY Zenon, <2>1 DEF Places, Busy
  <2> QED
    BY Zenon, <2>1, <2>4, <2>5, QuietStep
<1>4. CASE WaitInterrupted(c)
  <2>1. /\ routine[c] # "none" /\ routine' = [routine EXCEPT ![c] = "quit"]
        /\ UNCHANGED <<session, peers, tm, net, store>>
    BY Zenon, <1>4 DEF WaitInterrupted, links
  <2>2. AnswersInv(c)'
    BY Zenon, <1>1, <2>1, AnswersIgnored
  <2> QED
    BY Zenon, <2>1, <2>2, QuietStep DEF Busy, Places
<1>5. CASE IdleOver(c)
  <2>1. /\ routine[c] = "idle" /\ routine' = [routine EXCEPT ![c] = "loop"]
        /\ UNCHANGED <<session, peers, tm, net, store>>
    BY Zenon, <1>5 DEF IdleOver, links
  <2>2. AnswersInv(c)'
    BY Zenon, <1>1, <2>1, AnswersStayEmpty DEF AnswersInv, Single, peers
  <2> QED
    BY Zenon, <2>1, <2>2, QuietStep DEF Busy, Places
<1>6. CASE MasterCancels(c)
  <2>1. /\ routine[c] = "cancel" /\ routine' = [routine EXCEPT ![c] = "none"]
        /\ UNCHANGED <<session, peers, tm, net, store>>
    BY Zenon, <1>6 DEF MasterCancels
  <2>2. AnswersInv(c)'
    BY Zenon, <1>1, <2>1, AnswersIgnored
  <2> QED
    BY Zenon, <2>1, <2>2, QuietStep DEF Busy, Places
<1> QED
  BY Zenon, <1>2, <1>3, <1>4, <1>5, <1>6
-----------------------------------------------------------------------------
(* Who holds which tasks, after some have become idle or ready. *)
LEMMA TasksGivenUp ==
  ASSUME ManagerInv, NEW hs, NEW t \in Tasks, t.status # "Downloading",
         tm' = [tm EXCEPT !.list = SetTasks(hs, t)]
  PROVE  \A q \in Peer : Assigned(q)' = Assigned(q) \ hs
<1>1. Pending' = Pending /\ \A h \in Listed : Task(h)' = IF h \in hs THEN t ELSE Task(h)
  BY Zenon, NewTaskList
<1>2. Pending \subseteq Listed
  BY Zenon, ListedTasks
<1>3. \A q : t # [status |-> "Downloading", peer |-> q]
  OBVIOUS
<1> QED
  BY Zenon, <1>1, <1>2, <1>3 DEF Assigned

(* Tasks are still held when some have become idle or ready, those of the    *)
(* peer among them if no routine of it goes on.                              *)
LEMMA HeldAfter ==
  ASSUME ManagerInv, HeldInv, ConnInv, NEW c \in Conn, NEW x, doubled' = doubled,
         routine' = [routine EXCEPT ![c] = x],
         NEW hs, NEW t \in Tasks, t.status # "Downloading",
         tm' = [tm EXCEPT !.list = SetTasks(hs, t)],
         \/ x \in Busy \/ Assigned(peerID[c]) \subseteq hs
         \/ peerID[c] \in doubled \/ OtherBusy(c)
  PROVE  HeldInv'
<1>1. Pending' = Pending /\ \A h \in Listed : Task(h)' = IF h \in hs THEN t ELSE Task(h)
  BY Zenon, NewTaskList
<1>2. Pending \subseteq Listed /\ \A h \in Listed : Task(h) \in Tasks
  BY Zenon, ListedTasks
<1>3. ASSUME NEW h \in Pending, Task(h)'.status = "Downloading"
      PROVE  /\ Task(h)'.peer \in Peer
             /\ Task(h)'.peer \in doubled \/ IsBusy(Task(h)'.peer, routine')
  <2>1. h \notin hs /\ Task(h)' = Task(h) /\ Task(h) \in Tasks
    BY Zenon, <1>1, <1>2, <1>3
  <2>2. Task(h).status = "Downloading" /\ Task(h).peer \in Peer
        /\ (Task(h).peer \in doubled \/ IsBusy(Task(h).peer, routine))
    BY Zenon, <1>3, <2>1 DEF HeldInv
  <2>3. Task(h).peer = peerID[c] => h \in Assigned(peerID[c])
    BY Zenon, <2>1, <2>2, DownloadingTask DEF Assigned
  <2>4. CASE Task(h).peer # peerID[c]
    BY Zenon, <2>1, <2>2, <2>4, BusyAfter
  <2>5. CASE Task(h).peer = peerID[c]
    BY Zenon, <2>1, <2>2, <2>3, <2>5, BusyAfter
  <2> QED
    BY Zenon, <2>4, <2>5
<1>4. \A h \in Pending' : Task(h)'.status = "Downloading" =>
        Task(h)'.peer \in Peer /\ (Task(h)'.peer \in doubled' \/ IsBusy(Task(h)'.peer, routine'))
  BY Zenon, <1>1, <1>3
<1> QED
  BY Zenon, <1>4 DEF HeldInv

(* onPeerQuit gives back what the peer holds. *)
LEMMA QuitSteps ==
  ASSUME SessionInv, NEW c \in Conn, OnPeerQuit(c)
  PROVE  SessionInv'
<1> DEFINE x == IF peerID[c] = Master THEN "cancel" ELSE "none"
           hs == Assigned(peerID[c])
<1>1. /\ routine[c] = "quit" /\ routine' = [routine EXCEPT ![c] = x]
      /\ tm' = [tm EXCEPT !.list = SetTasks(hs, Idle)]
      /\ UNCHANGED <<session, peers, net, run, written, failed>>
  BY Zenon DEF OnPeerQuit, onPeerQuit, links, store
<1>2. x \in Places /\ x \in {"quit", "cancel", "none"}
  BY Zenon DEF Places
<1>3. /\ Idle \in Tasks /\ Idle.status # "Downloading" /\ hs \subseteq Pending
      /\ peerID[c] \in Peer
  BY Zenon, NewTasks, PeerOfConn DEF Assigned
<1> HIDE DEF x
<1>4. \A q \in Peer : Assigned(q)' = Assigned(q) \ hs
  BY Zenon, <1>1, <1>3, TasksGivenUp DEF SessionInv
<1>5. (\A q \in Peer : Assigned(q)' \subseteq Assigned(q)) /\ Assigned(peerID[c])' = {}
  BY Zenon, <1>3, <1>4
<1>6. HeldInv'
  BY Zenon, <1>1, <1>3, HeldAfter DEF SessionInv, peers
<1> HIDE DEF hs
<1>7. ManagerInv' /\ tm'.curNo = tm.curNo /\ tm'.toNo = tm.toNo
  BY Zenon, <1>1, <1>3, NewTaskList DEF SessionInv
<1>8. RunInv'
  BY Zenon, <1>1, <1>3, RunFrame DEF SessionInv
<1>9. AnswersInv(c)'
  <2>1. AnswersInv(c) /\ routine'[c] = x
    BY Zenon, <1>1 DEF SessionInv, RoutinesInv, ConnInv
  <2> QED
    BY Zenon, <1>1, <1>2, <2>1, AnswersIgnored
<1>10. NetInv'
  BY Zenon, <1>1 DEF SessionInv, NetInv, peers
<1> QED
  BY Zenon, <1>1, <1>2, <1>5, <1>6, <1>7, <1>8, <1>9, <1>10, RoutineStep
-----------------------------------------------------------------------------
(* Requests are made when no answer is on its way. *)
LEMMA FirstAnswer ==
  ASSUME NEW r, NEW s
  PROVE  /\ <<>> \o <<>> = <<>>
         /\ <<>> \o <<r>> = <<r>>
         /\ <<>> \o <<r, s>> = <<r, s>>
  OBVIOUS

(* getReqBlocks asks for tasks ahead of curNo. *)
LEMMA AskedArePending ==
  ASSUME NEW p \in Peer, NEW h \in getReqBlocks(p)
  PROVE  h \in Pending
<1> DEFINE start == Min(Wanted(p))
<1>1. h \in start .. start + MaxBlockFetch - 1 /\ start .. h \subseteq Wanted(p)
  BY Zenon DEF getReqBlocks
<1> HIDE DEF start
<1>2. h \in start .. h
  BY <1>1
<1> QED
  BY Zenon, <1>1, <1>2 DEF Wanted

(* Answers that are well formed. *)
LEMMA GoodOf ==
  ASSUME NEW p, NEW s, NEW X, s \in Seq(X),
         \A m \in X : p = Master /\ m.code = "Headers" => IsFiniteSet(m.nums)
  PROVE  GoodAnswers(p, s)
  BY Zenon DEF GoodAnswers

(* Answers that are sent join the ones on their way. *)
LEMMA GoodAppend ==
  ASSUME NEW p, NEW s, NEW a, GoodAnswers(p, s), GoodAnswers(p, a)
  PROVE  GoodAnswers(p, s \o a)
<1>1. PICK X : s \in Seq(X) /\ \A m \in X : p = Master /\ m.code = "Headers" => IsFiniteSet(m.nums)
  BY Zenon DEF GoodAnswers
<1>2. PICK Y : a \in Seq(Y) /\ \A m \in Y : p = Master /\ m.code = "Headers" => IsFiniteSet(m.nums)
  BY Zenon DEF GoodAnswers
<1>3. s \o a \in Seq(X \cup Y)
  BY <1>1, <1>2
<1>4. \A m \in X \cup Y : p = Master /\ m.code = "Headers" => IsFiniteSet(m.nums)
  BY Zenon, <1>1, <1>2
<1> HIDE DEF GoodAnswers
<1> QED
  BY Zenon, <1>3, <1>4, GoodOf

(* One answer is taken, the others stay. *)
LEMMA GoodRest ==
  ASSUME NEW p, NEW s, GoodAnswers(p, s), s # <<>>
  PROVE  /\ GoodAnswers(p, Tail(s))
         /\ p = Master /\ Head(s).code = "Headers" => IsFiniteSet(Head(s).nums)
<1>1. PICK X : s \in Seq(X) /\ \A m \in X : p = Master /\ m.code = "Headers" => IsFiniteSet(m.nums)
  BY Zenon DEF GoodAnswers
<1>2. Head(s) \in X /\ Tail(s) \in Seq(X)
  BY <1>1
<1> QED
  BY Zenon, <1>1, <1>2 DEF GoodAnswers

(* The answers of handleMsg are well formed. *)
LEMMA GoodNew ==
  ASSUME NEW p, NEW n
  PROVE  /\ GoodAnswers(p, <<>>)
         /\ (p = Master => IsFiniteSet(n)) => GoodAnswers(p, <<[code |-> "Headers", nums |-> n]>>)
         /\ GoodAnswers(p, <<[code |-> "Pre", nums |-> n], [code |-> "Blocks", nums |-> n]>>)
<1> DEFINE r == [code |-> "Headers", nums |-> n]
           a == [code |-> "Pre", nums |-> n]
           b == [code |-> "Blocks", nums |-> n]
<1>1. r.nums = n /\ a.code # "Headers" /\ b.code # "Headers"
  OBVIOUS
<1> HIDE DEF r, a, b
<1>2. <<>> \in Seq({}) /\ <<r>> \in Seq({r}) /\ <<a, b>> \in Seq({a, b})
  OBVIOUS
<1>3. GoodAnswers(p, <<>>)
  <2> DEFINE X == {}
  <2>1. \A m \in X : p = Master /\ m.code = "Headers" => IsFiniteSet(m.nums)
    BY Zenon
  <2>2. <<>> \in Seq(X)
    BY Zenon, <1>2
  <2> HIDE DEF X
  <2> QED
    BY Zenon, <2>1, <2>2, GoodOf
<1>4. ASSUME p = Master => IsFiniteSet(n) PROVE GoodAnswers(p, <<r>>)
  <2> DEFINE X == {r}
  <2>1. \A m \in X : p = Master /\ m.code = "Headers" => IsFiniteSet(m.nums)
    BY Zenon, <1>1, <1>4
  <2>2. <<r>> \in Seq(X)
    BY Zenon, <1>2
  <2> HIDE DEF X
  <2> QED
    BY Zenon, <2>1, <2>2, GoodOf
<1>5. GoodAnswers(p, <<a, b>>)
  <2> DEFINE X == {a, b}
  <2>1. \A m \in X : p = Master /\ m.code = "Headers" => IsFiniteSet(m.nums)
    BY Zenon, <1>1
  <2>2. <<a, b>> \in Seq(X)
    BY Zenon, <1>2
  <2> HIDE DEF X
  <2> QED
    BY Zenon, <2>1, <2>2, GoodOf
<1> QED
  BY Zenon, <1>3, <1>4, <1>5 DEF r, a, b

(* An answer is sent on c. *)
LEMMA AnswerSent ==
  ASSUME NetInv, NEW c \in Conn, NEW a, GoodAnswers(peerID[c], a), net' = Sent(c, a),
         open' = open
  PROVE  /\ NetInv' /\ \A d \in Conn : d # c => net'[d] = net[d]
         /\ c \in open => net'[c] = net[c] \o a
<1>1. DOMAIN net' = Conn /\ \A d \in Conn : d # c => net'[d] = net[d]
  BY Zenon DEF Sent, NetInv
<1>2. net'[c] = IF c \in open THEN net[c] \o a ELSE net[c]
  BY Zenon DEF Sent, NetInv
<1>3. GoodAnswers(peerID[c], net[c] \o a)
  BY Zenon, GoodAppend DEF NetInv
<1> QED
  BY Zenon, <1>1, <1>2, <1>3 DEF NetInv

(* Blocks are asked for and their tasks assigned, or there is nothing to ask *)
(* for.                                                                      *)
LEMMA RequestBlocksSteps ==
  ASSUME SessionInv, NEW c \in Conn, RequestBlocks(c)
  PROVE  SessionInv'
<1> DEFINE p == peerID[c]
           ask == getReqBlocks(p)
           t == [status |-> "Downloading", peer |-> p]
<1>1. /\ routine[c] = "getBlocks" /\ UNCHANGED <<session, peers, run, written, failed>>
      /\ routine \in [Conn -> Places] /\ AnswersInv(c) /\ NetInv /\ p \in Peer
  BY Zenon, PeerOfConn DEF RequestBlocks, links, store, SessionInv, ConnInv, RoutinesInv
<1>2. /\ Single(c) => net[c] = <<>>
      /\ Single(c)' => Single(c)
  BY Zenon, <1>1 DEF AnswersInv, Single, peers
<1>3. CASE ask = {}
  <2> DEFINE x == IF hasReqData[c] THEN "loop" ELSE "idle"
  <2>1. routine' = [routine EXCEPT ![c] = x] /\ UNCHANGED <<tm, net, store>>
    BY Zenon, <1>3 DEF RequestBlocks
  <2>2. x \in Places
    BY Zenon DEF Places
  <2>3. AnswersInv(c)'
    BY Zenon, <1>2, <2>1, AnswersStayEmpty
  <2> HIDE DEF x
  <2> QED
    BY Zenon, <1>1, <2>1, <2>2, <2>3, QuietStep DEF Busy
<1>4. CASE ask # {}
  <2>1. tm' = [tm EXCEPT !.list = SetTasks(ask, t)]
    BY Zenon, <1>4 DEF RequestBlocks
  <2>2. PICK x \in {"blocksSent", "quit"} :
          /\ routine' = [routine EXCEPT ![c] = x]
          /\ x = "quit" => net' = net
          /\ x = "blocksSent" => \E a \in BlocksAnswer(p, Min(ask), Cardinality(ask)) :
                                   net' = Sent(c, a)
    BY Zenon, <1>4 DEF RequestBlocks
  <2>3. x \in Places /\ x \in Busy /\ t \in Tasks /\ ask \subseteq Pending
    BY Zenon, <1>1, NewTasks, AskedArePending DEF Places, Busy
  <2>4. ManagerInv /\ RunInv /\ HeldInv /\ ConnInv
    BY Zenon DEF SessionInv
  <2>5. routine'[c] = x /\ doubled' = doubled /\ open' = open
    BY Zenon, <1>1, <2>2 DEF peers
  <2>6. /\ NetInv' /\ \A d \in Conn : d # c => net'[d] = net[d]
        /\ AnswersInv(c)'
    <3>1. CASE x = "quit"
      BY Zenon, <1>1, <1>2, <2>2, <2>5, <3>1, AnswersStayEmpty DEF NetInv
    <3>2. CASE x = "blocksSent"
      <4>1. PICK a \in BlocksAnswer(p, Min(ask), Cardinality(ask)) : net' = Sent(c, a)
        BY Zenon, <2>2, <3>2
      <4>2. a = <<>> \/ \E hi : a = <<[code |-> "Pre", nums |-> Min(ask) .. hi],
                                      [code |-> "Blocks", nums |-> Min(ask) .. hi]>>
        BY Zenon DEF BlocksAnswer
      <4>3. GoodAnswers(p, a)
        BY Zenon, <4>2, GoodNew
      <4>4. /\ NetInv' /\ \A d \in Conn : d # c => net'[d] = net[d]
            /\ c \in open => net'[c] = net[c] \o a
        BY Zenon, <1>1, <2>5, <4>1, <4>3, AnswerSent
      <4>5. ASSUME Single(c)' PROVE net'[c] = <<>> \/ IsBoth(net'[c])
        <5>1. net'[c] = <<>> \o a
          BY Zenon, <1>2, <4>4, <4>5 DEF Single
        <5>2. CASE a = <<>>
          BY Zenon, <5>1, <5>2, FirstAnswer
        <5>3. CASE a # <<>>
          <6>1. PICK hi : a = <<[code |-> "Pre", nums |-> Min(ask) .. hi],
                                [code |-> "Blocks", nums |-> Min(ask) .. hi]>>
            BY Zenon, <4>2, <5>3
          <6>2. net'[c] = a
            BY Zenon, <5>1, <6>1, FirstAnswer
          <6>3. a[1].nums = Min(ask) .. hi
            BY Zenon, <6>1
          <6> QED
            BY Zenon, <6>1, <6>2, <6>3 DEF IsBoth
        <5> QED
          BY Zenon, <5>2, <5>3
      <4>6. AnswersInv(c)'
        BY Zenon, <2>5, <3>2, <4>5 DEF AnswersInv
      <4> QED
        BY Zenon, <4>4, <4>6
    <3> QED
      BY Zenon, <3>1, <3>2
  <2> HIDE DEF ask, t
  <2>7. /\ ManagerInv' /\ tm'.curNo = tm.curNo /\ tm'.toNo = tm.toNo
        /\ Pending' = Pending /\ \A h \in Listed : Task(h)' = IF h \in ask THEN t ELSE Task(h)
    BY Zenon, <2>1, <2>3, <2>4, NewTaskList
  <2>8. RunInv'
    BY Zenon, <1>1, <2>1, <2>3, <2>4, RunFrame
  <2>9. Pending \subseteq Listed /\ \A h \in Listed : Task(h) \in Tasks
    BY Zenon, <2>4, ListedTasks
  <2>10. \A q \in Peer : q # p => Assigned(q)' \subseteq Assigned(q)
    BY <2>7, <2>9 DEF Assigned, t
  <2>11. HeldInv'
    <3>1. (\A q : IsBusy(q, routine) => IsBusy(q, routine')) /\ IsBusy(p, routine')
      BY Zenon, <1>1, <2>2, <2>3, <2>4, BusyAfter DEF Busy
    <3>2. ASSUME NEW h \in Pending, Task(h)'.status = "Downloading"
          PROVE  /\ Task(h)'.peer \in Peer
                 /\ Task(h)'.peer \in doubled \/ IsBusy(Task(h)'.peer, routine')
      <4>1. CASE h \in ask
        <5>1. Task(h)'.peer = p
          BY <2>7, <2>9, <4>1 DEF t
        <5> QED
          BY Zenon, <1>1, <3>1, <5>1
      <4>2. CASE h \notin ask
        BY Zenon, <2>4, <2>7, <2>9, <3>1, <3>2, <4>2 DEF HeldInv
      <4> QED
        BY Zenon, <4>1, <4>2
    <3>3. \A h \in Pending' : Task(h)'.status = "Downloading" =>
            Task(h)'.peer \in Peer /\ (Task(h)'.peer \in doubled' \/ IsBusy(Task(h)'.peer, routine'))
      BY Zenon, <2>5, <2>7, <3>2
    <3> QED
      BY Zenon, <3>3 DEF HeldInv
  <2> QED
    BY Zenon, <1>1, <2>2, <2>3, <2>6, <2>7, <2>8, <2>10, <2>11, RoutineStep
<1> QED
  BY Zenon, <1>3, <1>4
-----------------------------------------------------------------------------
(* Headers of a peer change: the tasks do not. *)
LEMMA SameTasks ==
  ASSUME ManagerInv, RunInv, DOMAIN tm' = DOMAIN tm, tm'.fromNo = tm.fromNo,
         tm'.toNo = tm.toNo, tm'.curNo = tm.curNo, tm'.list = tm.list,
         UNCHANGED <<run, written, failed>>
  PROVE  /\ ManagerInv' /\ RunInv'
         /\ Pending' = Pending /\ \A h : Task(h)' = Task(h)
         /\ \A q \in Peer : Assigned(q)' = Assigned(q)
<1>1. ManagerInv'
  BY Zenon DEF ManagerInv
<1>2. Pending' = Pending /\ \A h : Task(h)' = Task(h)
  BY Zenon DEF Pending, Listed, Task, At
<1>3. RunInv'
  BY Zenon, <1>2 DEF RunInv
<1> QED
  BY Zenon, <1>1, <1>2, <1>3 DEF Assigned

(* The smaller of two integers is one. *)
LEMMA MinOfTwo ==
  ASSUME NEW a \in Int, NEW b \in Int
  PROVE  Min({a, b}) \in Int
<1>1. \E x \in {a, b} : \A y \in {a, b} : x <= y
  OBVIOUS
<1> QED
  BY Zenon, <1>1 DEF Min

(* The master's headers are asked for by number. *)
LEMMA MasterAsksInterval ==
  ASSUME ManagerInv
  PROVE  ReqHeaderStart(Master) \in Int /\ ReqHeaderAmount(Master) \in Int
<1>1. ReqHeaderStart(Master) \in Int
  BY ListedTasks DEF ReqHeaderStart, ManagerInv
<1>2. MaxHeaderFetch \in Int /\ tm.toNo + 1 - ReqHeaderStart(Master) \in Int
  BY <1>1, DownloaderAssumption DEF ManagerInv
<1>3. Min({MaxHeaderFetch, tm.toNo + 1 - ReqHeaderStart(Master)}) \in Int
  BY Zenon, <1>2, MinOfTwo
<1> QED
  BY <1>1, <1>3 DEF ReqHeaderAmount

(* Headers are asked for, or not needed. *)
LEMMA RequestHeadersSteps ==
  ASSUME SessionInv, NEW c \in Conn, RequestHeaders(c)
  PROVE  SessionInv'
<1> DEFINE p == peerID[c]
           start == ReqHeaderStart(p)
           amount == ReqHeaderAmount(p)
<1>1. /\ routine[c] = "getHeaders" /\ UNCHANGED <<session, peers, run, written, failed>>
      /\ tm' = [tm EXCEPT !.headers[p] = KeptHeaders(p)]
      /\ routine \in [Conn -> Places] /\ AnswersInv(c) /\ NetInv /\ p \in Peer
  BY Zenon, PeerOfConn DEF RequestHeaders, links, store, SessionInv, ConnInv, RoutinesInv
<1>2. /\ Single(c) => net[c] = <<>>
      /\ Single(c)' => Single(c)
      /\ doubled' = doubled /\ open' = open
  BY Zenon, <1>1 DEF AnswersInv, Single, peers
<1>3. /\ DOMAIN tm' = DOMAIN tm /\ tm'.fromNo = tm.fromNo /\ tm'.toNo = tm.toNo
      /\ tm'.curNo = tm.curNo /\ tm'.list = tm.list
  BY Zenon, <1>1 DEF SessionInv, ManagerInv
<1>4. /\ ManagerInv' /\ RunInv' /\ Pending' = Pending /\ \A h : Task(h)' = Task(h)
      /\ \A q \in Peer : Assigned(q)' = Assigned(q)
  BY Zenon, <1>1, <1>3, SameTasks DEF SessionInv
<1>5. PICK x \in {"getBlocks", "headersSent", "quit"} :
        /\ routine' = [routine EXCEPT ![c] = x]
        /\ x # "headersSent" => net' = net
        /\ x = "headersSent" => \E a \in HeadersAnswer(p, start, start + amount - 1) :
                                  net' = Sent(c, a)
  BY Zenon DEF RequestHeaders
<1>6. x \in Places /\ routine'[c] = x
  BY Zenon, <1>1, <1>5 DEF Places
<1>7. HeldInv'
  BY Zenon, <1>1, <1>2, <1>4, <1>5, HeldSameTasks DEF SessionInv, Busy
<1>8. /\ NetInv' /\ \A d \in Conn : d # c => net'[d] = net[d]
      /\ AnswersInv(c)'
  <2>1. CASE x # "headersSent"
    BY Zenon, <1>1, <1>2, <1>5, <2>1, AnswersStayEmpty DEF NetInv
  <2>2. CASE x = "headersSent"
    <3>1. PICK a \in HeadersAnswer(p, start, start + amount - 1) : net' = Sent(c, a)
      BY Zenon, <1>5, <2>2
    <3>2. a = <<>> \/ a = <<[code |-> "Headers", nums |-> start .. start + amount - 1]>>
      BY Zenon DEF HeadersAnswer
    <3>3. p = Master => IsFiniteSet(start .. start + amount - 1)
      <4>1. p = Master => start \in Int /\ start + amount - 1 \in Int
        BY MasterAsksInterval DEF SessionInv
      <4> QED
        BY Zenon, <4>1, FS_Interval
    <3>4. GoodAnswers(p, a)
      BY Zenon, <3>2, <3>3, GoodNew
    <3>5. /\ NetInv' /\ \A d \in Conn : d # c => net'[d] = net[d]
          /\ c \in open => net'[c] = net[c] \o a
      BY Zenon, <1>1, <1>2, <3>1, <3>4, AnswerSent
    <3>6. ASSUME Single(c)' PROVE net'[c] = <<>> \/ IsHeaders(net'[c])
      <4>1. net'[c] = <<>> \o a
        BY Zenon, <1>2, <3>5, <3>6 DEF Single
      <4>2. CASE a = <<>>
        BY Zenon, <4>1, <4>2, FirstAnswer
      <4>3. CASE a # <<>>
        <5>1. a = <<[code |-> "Headers", nums |-> start .. start + amount - 1]>>
          BY Zenon, <3>2, <4>3
        <5>2. net'[c] = a
          BY Zenon, <4>1, <5>1, FirstAnswer
        <5>3. a[1].nums = start .. start + amount - 1
          BY Zenon, <5>1
        <5> QED
          BY Zenon, <5>1, <5>2, <5>3 DEF IsHeaders
      <4> QED
        BY Zenon, <4>2, <4>3
    <3>7. AnswersInv(c)'
      BY Zenon, <1>6, <2>2, <3>6 DEF AnswersInv
    <3> QED
      BY Zenon, <3>5, <3>7
  <2> QED
    BY Zenon, <2>1, <2>2
<1>9. routine[c] \notin Busy /\ Assigned(p)' \subseteq Assigned(p)
  BY Zenon, <1>1, <1>4 DEF Busy
<1> QED
  BY Zenon, <1>1, <1>3, <1>4, <1>5, <1>6, <1>7, <1>8, <1>9, RoutineStep
-----------------------------------------------------------------------------
(* A single message. *)
LEMMA OneMessage ==
  ASSUME NEW c, NEW n, NEW m, m = <<[code |-> c, nums |-> n]>>
  PROVE  Head(m).code = c /\ Head(m).nums = n /\ Tail(m) = <<>>
  OBVIOUS

(* Two messages, of which one is taken. *)
LEMMA TwoMessages ==
  ASSUME NEW r, NEW s, NEW m, m = <<r, s>>
  PROVE  Head(m) = r /\ Tail(m) = <<s>>
  OBVIOUS

(* The second message of an answer to a request for blocks. *)
LEMMA BlocksMessage ==
  ASSUME NEW n, NEW m, m = <<[code |-> "Blocks", nums |-> n]>>
  PROVE  IsBlocks(m) /\ m[1].nums = n
<1>1. m[1].nums = n
  BY Zenon
<1> QED
  BY Zenon, <1>1 DEF IsBlocks

(* The first of the answers on their way, and those that remain. *)
LEMMA NextAnswer ==
  ASSUME NEW m
  PROVE  /\ IsHeaders(m) => Head(m).code = "Headers" /\ Head(m).nums = m[1].nums /\ Tail(m) = <<>>
         /\ IsBlocks(m) => Head(m).code = "Blocks" /\ Head(m).nums = m[1].nums /\ Tail(m) = <<>>
         /\ IsBoth(m) => /\ Head(m).code = "Pre" /\ Head(m).nums = m[1].nums
                         /\ IsBlocks(Tail(m)) /\ Tail(m)[1].nums = m[1].nums
<1> DEFINE nums == m[1].nums
<1>1. IsHeaders(m) => m = <<[code |-> "Headers", nums |-> nums]>>
  BY Zenon DEF IsHeaders
<1>2. IsBlocks(m) => m = <<[code |-> "Blocks", nums |-> nums]>>
  BY Zenon DEF IsBlocks
<1>3. IsBoth(m) => m = <<[code |-> "Pre", nums |-> nums], [code |-> "Blocks", nums |-> nums]>>
  BY Zenon DEF IsBoth
<1> HIDE DEF nums
<1>4. ASSUME IsBoth(m)
      PROVE  /\ Head(m).code = "Pre" /\ Head(m).nums = nums
             /\ IsBlocks(Tail(m)) /\ Tail(m)[1].nums = nums
  <2>1. Head(m) = [code |-> "Pre", nums |-> nums] /\ Tail(m) = <<[code |-> "Blocks", nums |-> nums]>>
    BY Zenon, <1>3, <1>4, TwoMessages
  <2>2. IsBlocks(Tail(m)) /\ Tail(m)[1].nums = nums
    BY Zenon, <2>1, BlocksMessage
  <2> QED
    BY <2>1, <2>2
<1>5. IsHeaders(m) => Head(m).code = "Headers" /\ Head(m).nums = nums /\ Tail(m) = <<>>
  BY Zenon, <1>1, OneMessage
<1>6. IsBlocks(m) => Head(m).code = "Blocks" /\ Head(m).nums = nums /\ Tail(m) = <<>>
  BY Zenon, <1>2, OneMessage
<1> QED
  BY Zenon, <1>4, <1>5, <1>6 DEF nums

(* A message is taken from the connection c. *)
LEMMA MessageTaken ==
  ASSUME NetInv, NEW c \in Conn, net[c] # <<>>, net' = [net EXCEPT ![c] = Tail(@)], open' = open
  PROVE  /\ NetInv' /\ net'[c] = Tail(net[c]) /\ \A d \in Conn : d # c => net'[d] = net[d]
         /\ peerID[c] = Master /\ Head(net[c]).code = "Headers" => IsFiniteSet(Head(net[c]).nums)
<1>1. DOMAIN net' = Conn /\ net'[c] = Tail(net[c]) /\ \A d \in Conn : d # c => net'[d] = net[d]
  BY Zenon DEF NetInv
<1>2. /\ GoodAnswers(peerID[c], Tail(net[c]))
      /\ peerID[c] = Master /\ Head(net[c]).code = "Headers" => IsFiniteSet(Head(net[c]).nums)
  BY Zenon, GoodRest DEF NetInv
<1>3. c \in open
  BY Zenon DEF NetInv
<1> QED
  BY Zenon, <1>1, <1>2, <1>3 DEF NetInv

(* A message that nobody waits for. *)
LEMMA DroppedSteps ==
  ASSUME SessionInv, NEW c \in Conn, net[c] # <<>>, net' = [net EXCEPT ![c] = Tail(@)],
         UNCHANGED <<session, peers, tm, routine, run, written, failed>>
  PROVE  SessionInv'
<1>1. ManagerInv' /\ RunInv'
  BY Zenon, ManagerFrame DEF SessionInv
<1>2. NetInv' /\ net'[c] = Tail(net[c]) /\ \A d \in Conn : d # c => net'[d] = net[d]
  BY Zenon, MessageTaken DEF SessionInv, peers
<1>3. Pending' = Pending /\ (\A h : Task(h)' = Task(h)) /\ \A q \in Peer : Assigned(q)' = Assigned(q)
  BY Zenon DEF Assigned, Pending, Listed, Task, At
<1>4. HeldInv'
  BY Zenon, <1>3 DEF SessionInv, HeldInv, peers
<1>5. ResultInv'
  BY Zenon DEF SessionInv, ResultInv, isDone, session
<1>6. PrepareInv'
  <2>1. /\ local \in LocalChains /\ cmpCount \in Nat
        /\ sess \in Preparing => written = 0 /\ failed = FALSE /\ run.at = "ended"
    BY Zenon DEF SessionInv, PrepareInv
  <2>2. ASSUME sess \in Preparing \cup {"start"}
        PROVE  /\ syncStatus # "Fetching" /\ \A d \in Conn : routine[d] = "none"
               /\ \A d \in Conn : net'[d] = <<>>
    <3>1. /\ syncStatus # "Fetching" /\ \A d \in Conn : routine[d] = "none"
          /\ \A d \in Conn : net[d] = <<>> \/ (d = via /\ IsHeaders(net[d]))
      BY Zenon, <2>2 DEF SessionInv, PrepareInv
    <3>2. c = via /\ net'[c] = <<>>
      BY Zenon, <1>2, <3>1, NextAnswer
    <3> QED
      BY Zenon, <1>2, <3>1, <3>2
  <2>3. UNCHANGED <<sess, local, cmpCount, syncStatus>>
    BY Zenon DEF session, prep
  <2> QED
    BY Zenon, <2>1, <2>2, <2>3 DEF PrepareInv
<1>7. ConnInv' /\ \A d \in Conn : Single(d)' <=> Single(d)
  BY Zenon, ConnFrame DEF SessionInv, ConnInv
<1>8. AnswersInv(c)'
  <2>1. CASE ~Single(c)'
    BY Zenon, <2>1 DEF AnswersInv
  <2>2. CASE Single(c)'
    <3>1. AnswersInv(c) /\ Single(c)
      BY Zenon, <1>7, <2>2 DEF SessionInv, RoutinesInv
    <3>2. /\ IsHeaders(net[c]) \/ IsBlocks(net[c]) \/ IsBoth(net[c])
          /\ routine[c] \notin {"loop", "getHeaders", "getBlocks", "idle"}
      BY Zenon, <3>1 DEF AnswersInv
    <3>3. /\ IsHeaders(net[c]) \/ IsBlocks(net[c]) => net'[c] = <<>>
          /\ IsBoth(net[c]) => IsBlocks(net'[c])
      BY Zenon, <1>2, NextAnswer
    <3>4. IsHeaders(net[c]) => ~IsBoth(net[c])
      BY Zenon, NextAnswer
    <3>5. IsBlocks(net[c]) => ~IsBoth(net[c])
      BY Zenon, NextAnswer
    <3>6. CASE IsHeaders(net[c]) \/ IsBlocks(net[c])
      BY Zenon, <3>3, <3>6, AnswersEmpty
    <3>7. CASE IsBoth(net[c])
      <4>1. routine[c] \notin {"headersSent", "headersWait", "preDone", "blocksWait"}
        BY Zenon, <3>1, <3>4, <3>5, <3>7 DEF AnswersInv
      <4> QED
        BY Zenon, <3>2, <3>3, <3>7, <4>1 DEF AnswersInv
    <3> QED
      BY Zenon, <3>2, <3>6, <3>7
  <2> QED
    BY Zenon, <2>1, <2>2
<1>9. ASSUME NEW d \in Conn, d # c PROVE AnswersInv(d)'
  <2>1. Covered(d) => Covered(d)'
    BY Zenon, <1>2, <1>3, <1>9, PeerOfConn DEF Covered, OtherBusy
  <2> QED
    BY Zenon, <1>2, <1>7, <1>9, <2>1, AnswersFrame DEF SessionInv, RoutinesInv
<1> QED
  BY Zenon, <1>1, <1>2, <1>4, <1>5, <1>6, <1>7, <1>8, <1>9 DEF SessionInv, RoutinesInv
-----------------------------------------------------------------------------
(* Tasks appended to a list. *)
LEMMA Appended ==
  ASSUME NEW S, NEW l \in Seq(S), NEW n \in Nat, NEW t \in S
  PROVE  LET m == l \o [i \in 1 .. n |-> t]
         IN /\ m \in Seq(S) /\ Len(m) = Len(l) + n
            /\ \A i \in 1 .. Len(l) : m[i] = l[i]
            /\ \A i \in 1 .. Len(m) : i > Len(l) => m[i] = t
<1> DEFINE e == [i \in 1 .. n |-> t]
<1>1. e \in Seq(S) /\ Len(e) = n /\ \A i \in 1 .. n : e[i] = t
  OBVIOUS
<1> HIDE DEF e
<1>2. l \o e \in Seq(S) /\ Len(l \o e) = Len(l) + n /\ \A i \in 1 .. Len(l) : (l \o e)[i] = l[i]
  BY <1>1
<1>3. ASSUME NEW i \in 1 .. Len(l) + n, i > Len(l) PROVE (l \o e)[i] = t
  <2>1. Len(l) \in Nat
    OBVIOUS
  <2>2. i - Len(l) \in 1 .. n
    BY <1>3, <2>1
  <2>3. (l \o e)[i] = e[i - Len(l)]
    BY <1>1, <1>3
  <2> QED
    BY Zenon, <1>1, <2>2, <2>3
<1> QED
  BY Zenon, <1>1, <1>2, <1>3 DEF e

(* Heights of a list that grows. *)
LEMMA LongerList ==
  ASSUME NEW f \in Int, NEW k \in Nat
  PROVE  /\ \A n \in Nat : f .. f + k - 1 \subseteq f .. f + (k + n) - 1
         /\ \A h \in Int : h >= f => IF h \in f .. f + k - 1 THEN h - f + 1 \in 1 .. k
                                                         ELSE h - f + 1 > k
  OBVIOUS

(* More headers of the master: new tasks are idle, the old ones stay. *)
LEMMA MasterHeaders ==
  ASSUME ManagerInv, RunInv, NEW nums, IsFiniteSet(nums),
         tm' = deliverHeaderMsg(Master, nums), UNCHANGED <<run, written, failed>>
  PROVE  /\ ManagerInv' /\ RunInv' /\ tm'.curNo = tm.curNo /\ tm'.toNo = tm.toNo
         /\ \A q \in Peer : Assigned(q)' = Assigned(q)
         /\ \A h \in Pending' : Task(h)'.status = "Downloading" => h \in Pending /\ Task(h)' = Task(h)
<1> DEFINE n == Cardinality(nums)
           old == tm.list
           l == old \o [i \in 1 .. n |-> Idle]
<1>1. n \in Nat
  BY Zenon, FS_CardinalityType
<1>2. tm.list \in Seq(Tasks) /\ Idle \in Tasks
  BY Zenon, NewTasks DEF ManagerInv
<1>3. /\ l \in Seq(Tasks) /\ Len(l) = Len(tm.list) + n
      /\ \A i \in 1 .. Len(tm.list) : l[i] = tm.list[i]
      /\ \A i \in 1 .. Len(l) : i > Len(tm.list) => l[i] = Idle
  <2>1. old \in Seq(Tasks)
    BY Zenon, <1>2
  <2> HIDE DEF n, old
  <2>2. /\ l \in Seq(Tasks) /\ Len(l) = Len(old) + n
        /\ \A i \in 1 .. Len(old) : l[i] = old[i]
        /\ \A i \in 1 .. Len(l) : i > Len(old) => l[i] = Idle
    BY <1>1, <1>2, <2>1, Appended
  <2> QED
    BY Zenon, <2>2 DEF old
<1>4. /\ DOMAIN tm' = DOMAIN tm /\ tm'.fromNo = tm.fromNo /\ tm'.toNo = tm.toNo
      /\ tm'.curNo = tm.curNo /\ tm'.list = l
  BY Zenon DEF ManagerInv, deliverHeaderMsg
<1> HIDE DEF n, l
<1>5. Len(tm.list) \in Nat /\ tm.fromNo \in Int /\ tm.curNo \in Int
      /\ tm.fromNo <= tm.curNo /\ tm.curNo <= tm.fromNo + Len(tm.list)
  BY DEF ManagerInv
<1>6. ManagerInv'
  BY <1>1, <1>3, <1>4, <1>5 DEF ManagerInv
<1>7. Listed \subseteq Listed' /\ Pending \subseteq Pending'
  <2>1. Listed \subseteq tm.fromNo .. tm.fromNo + (Len(tm.list) + n) - 1
    BY Zenon, <1>1, <1>5, LongerList DEF Listed
  <2>2. Listed' = tm.fromNo .. tm.fromNo + (Len(tm.list) + n) - 1
    BY Zenon, <1>3, <1>4 DEF Listed
  <2> QED
    BY Zenon, <1>4, <2>1, <2>2 DEF Pending
<1>8. ASSUME NEW h \in Listed' PROVE Task(h)' = IF h \in Listed THEN Task(h) ELSE Idle
  <2>1. h \in Int /\ h >= tm.fromNo /\ h <= tm.fromNo + Len(l) - 1
    BY <1>1, <1>3, <1>4, <1>5 DEF Listed
  <2>2. h - tm.fromNo + 1 \in 1 .. Len(l)
    BY <1>1, <1>3, <1>5, <2>1
  <2>3. IF h \in Listed THEN h - tm.fromNo + 1 \in 1 .. Len(tm.list)
                        ELSE h - tm.fromNo + 1 > Len(tm.list)
    BY Zenon, <1>5, <2>1, LongerList DEF Listed
  <2> QED
    BY Zenon, <1>3, <1>4, <2>2, <2>3 DEF Task, At
<1>9. \A h \in Pending' : h \in Listed => h \in Pending
  BY Zenon, <1>4 DEF Pending
<1>10. Pending' \subseteq Listed' /\ Pending \subseteq Listed
  BY Zenon DEF Pending
<1>11. Idle.status = "Idle"
  BY Zenon, NewTasks
<1>12. \A h \in Pending' : Task(h)'.status = "Downloading" => h \in Pending /\ Task(h)' = Task(h)
  BY Zenon, <1>8, <1>9, <1>10, <1>11
<1>13. ASSUME NEW q \in Peer PROVE Assigned(q)' = Assigned(q)
  <2> DEFINE d == [status |-> "Downloading", peer |-> q]
  <2>1. d.status = "Downloading"
    BY Zenon
  <2> HIDE DEF d
  <2>2. Assigned(q) = {h \in Pending : Task(h) = d} /\ Assigned(q)' = {h \in Pending' : Task(h)' = d}
    BY Zenon DEF Assigned, d
  <2> QED
    BY Zenon, <1>7, <1>8, <1>10, <1>12, <2>1, <2>2
<1>14. RunInv'
  <2>1. \A h \in run.next .. tm.curNo - 1 : run.at = "process" => Task(h)' = Task(h)
    <3>1. ASSUME NEW h \in run.next .. tm.curNo - 1, run.at = "process"
          PROVE  h \in Int /\ h >= tm.fromNo /\ h < tm.curNo
      BY <1>5, <3>1 DEF RunInv
    <3> QED
      BY Zenon, <1>7, <1>8, <3>1, ListedTasks
  <2> QED
    BY Zenon, <1>4, <2>1 DEF RunInv
<1> QED
  BY Zenon, <1>4, <1>6, <1>12, <1>13, <1>14
-----------------------------------------------------------------------------
(* The routine of c receives the message it waits for, which has come on the *)
(* connection e of the same peer.                                            *)
LEMMA ReceiveSteps ==
  ASSUME SessionInv, NEW c \in Conn, NEW e \in Conn, e \in open, net[e] # <<>>,
         net' = [net EXCEPT ![e] = Tail(@)],
         conn[c] = "up", peerID[c] = peerID[e], WaitingFor(c) = Head(net[e]).code,
         sess \notin {"heightWait", "ancestorWait"},
         RoutineReceives(c, Head(net[e]).nums),
         UNCHANGED <<session, peers, run, written, failed>>
  PROVE  SessionInv'
<1> DEFINE nums == Head(net[e]).nums
           p == peerID[c]
<1>1. ManagerInv /\ RunInv /\ HeldInv /\ ConnInv /\ AnswersInv(c)
      /\ routine \in [Conn -> Places] /\ p \in Peer
  BY Zenon, PeerOfConn DEF SessionInv, ConnInv, RoutinesInv
<1>2. doubled' = doubled /\ open' = open /\ (Single(c)' <=> Single(c)) /\ c \in open
  BY Zenon, <1>1 DEF peers, Single, ConnInv
<1>3. /\ NetInv' /\ net'[e] = Tail(net[e]) /\ \A d \in Conn : d # e => net'[d] = net[d]
      /\ p = Master /\ Head(net[e]).code = "Headers" => IsFiniteSet(nums)
  BY Zenon, <1>2, MessageTaken DEF SessionInv
<1>4. Single(c) => c = e
  BY Zenon, <1>1, <1>2 DEF ConnInv, Single
<1>5. \A d \in Conn : d # c /\ Single(d) => net'[d] = net[d]
  BY Zenon, <1>1, <1>2, <1>3 DEF ConnInv, Single
<1>6. CASE routine[c] = "headersWait"
  <2>1. Head(net[e]).code = "Headers"
    BY Zenon, <1>6 DEF WaitingFor
  <2>2. AnswersInv(c)'
    <3>1. Single(c) => net'[c] = <<>>
      BY Zenon, <1>1, <1>3, <1>4, <1>6, NextAnswer DEF AnswersInv
    <3> QED
      BY Zenon, <1>2, <3>1, AnswersStayEmpty
  <2>3. routine[c] \notin Busy /\ routine[c] # "none"
    BY Zenon, <1>6 DEF Busy
  <2>4. CASE routine' = [routine EXCEPT ![c] = "quit"] /\ UNCHANGED tm
    <3>1. /\ ManagerInv' /\ RunInv' /\ tm'.curNo = tm.curNo /\ tm'.toNo = tm.toNo
          /\ \A q \in Peer : Assigned(q)' = Assigned(q)
          /\ Pending' = Pending /\ \A h \in Pending : Task(h)' = Task(h)
      BY Zenon, <1>1, <2>4, ManagerFrame DEF Assigned, Pending, Listed, Task, At
    <3>2. HeldInv'
      BY Zenon, <1>1, <1>2, <2>3, <2>4, <3>1, HeldSameTasks
    <3>3. "quit" \in Places /\ "quit" \in Busy
      BY Zenon DEF Places, Busy
    <3> QED
      BY ZenonT(40), <1>3, <1>5, <2>2, <2>3, <2>4, <3>1, <3>2, <3>3, RoutineStep
  <2>5. CASE routine' = [routine EXCEPT ![c] = "getBlocks"] /\ tm' = deliverHeaderMsg(p, nums)
    <3>1. /\ ManagerInv' /\ RunInv' /\ tm'.curNo = tm.curNo /\ tm'.toNo = tm.toNo
          /\ \A q \in Peer : Assigned(q)' = Assigned(q)
          /\ \A h \in Pending' : Task(h)'.status = "Downloading" => h \in Pending /\ Task(h)' = Task(h)
      <4>1. CASE p = Master
        BY Zenon, <1>1, <1>3, <2>1, <2>5, <4>1, MasterHeaders
      <4>2. CASE p # Master
        <5>1. /\ DOMAIN tm' = DOMAIN tm /\ tm'.fromNo = tm.fromNo /\ tm'.toNo = tm.toNo
              /\ tm'.curNo = tm.curNo /\ tm'.list = tm.list
          BY Zenon, <1>1, <2>5, <4>2 DEF ManagerInv, deliverHeaderMsg
        <5> QED
          BY Zenon, <1>1, <5>1, SameTasks
      <4> QED
        BY Zenon, <4>1, <4>2
    <3>2. HeldInv'
      <4>1. \A q : IsBusy(q, routine) => IsBusy(q, routine')
        BY Zenon, <1>1, <2>3, <2>5, BusyAfter
      <4>2. \A h \in Pending' : Task(h)'.status = "Downloading" =>
              Task(h)'.peer \in Peer /\ (Task(h)'.peer \in doubled' \/ IsBusy(Task(h)'.peer, routine'))
        BY Zenon, <1>1, <1>2, <3>1, <4>1 DEF HeldInv
      <4> QED
        BY Zenon, <4>2 DEF HeldInv
    <3>3. "getBlocks" \in Places
      BY Zenon DEF Places
    <3>4. Assigned(p)' \subseteq Assigned(p)
      BY Zenon, <1>1, <3>1
    <3> QED
      BY ZenonT(40), <1>3, <1>5, <2>2, <2>3, <2>5, <3>1, <3>2, <3>3, <3>4, RoutineStep
  <2> QED
    BY Zenon, <1>6, <2>4, <2>5 DEF RoutineReceives
<1>7. CASE routine[c] = "preWait"
  <2> DEFINE hs == Assigned(p) \ nums
  <2>1. /\ routine' = [routine EXCEPT ![c] = "preDone"]
        /\ tm' = [tm EXCEPT !.list = SetTasks(hs, Idle)]
    BY Zenon, <1>7 DEF RoutineReceives, deliverBlockPreMsg
  <2>2. Idle \in Tasks /\ Idle.status # "Downloading" /\ hs \subseteq Pending
    BY Zenon, NewTasks DEF Assigned
  <2>3. \A q \in Peer : Assigned(q)' = Assigned(q) \ hs
    BY Zenon, <1>1, <2>1, <2>2, TasksGivenUp
  <2>4. Assigned(p)' \subseteq nums
    BY Zenon, <1>1, <2>3
  <2>5. AnswersInv(c)'
    <3>1. CASE ~Single(c)
      BY Zenon, <1>2, <3>1 DEF AnswersInv
    <3>2. CASE Single(c)
      <4>1. Head(net[c]).code = "Pre"
        BY Zenon, <1>4, <1>7, <3>2 DEF WaitingFor
      <4>2. IsBlocks(net[c]) \/ IsBoth(net[c])
        BY Zenon, <1>1, <1>4, <1>7, <3>2 DEF AnswersInv
      <4>3. IsBoth(net[c])
        BY Zenon, <4>1, <4>2, NextAnswer
      <4>4. IsBlocks(net'[c]) /\ net'[c][1].nums = nums
        <5>1. net'[c] = Tail(net[c]) /\ nums = Head(net[c]).nums
          BY Zenon, <1>3, <1>4, <3>2
        <5> QED
          BY Zenon, <4>3, <5>1, NextAnswer
      <4>5. Covered(c)'
        BY Zenon, <2>4, <4>4 DEF Covered
      <4>6. routine'[c] = "preDone"
        BY Zenon, <1>1, <2>1
      <4> QED
        BY Zenon, <4>4, <4>5, <4>6 DEF AnswersInv
    <3> QED
      BY Zenon, <3>1, <3>2
  <2> HIDE DEF hs
  <2>6. ManagerInv' /\ tm'.curNo = tm.curNo /\ tm'.toNo = tm.toNo
    BY Zenon, <1>1, <2>1, <2>2, NewTaskList
  <2>7. RunInv'
    BY Zenon, <1>1, <2>1, <2>2, RunFrame
  <2>8. "preDone" \in Places /\ "preDone" \in Busy
    BY Zenon DEF Places, Busy
  <2>9. HeldInv'
    BY Zenon, <1>1, <1>2, <2>1, <2>2, <2>8, HeldAfter
  <2> QED
    BY Zenon, <1>3, <1>5, <1>7, <2>1, <2>3, <2>5, <2>6, <2>7, <2>8, <2>9, RoutineStep
<1>8. CASE routine[c] = "blocksWait"
  <2> DEFINE hs == {h \in nums : Task(h).peer = p}
             t == [status |-> "WaitProcessing", peer |-> p]
  <2>1. /\ routine' = [routine EXCEPT ![c] = "loop"]
        /\ tm' = [tm EXCEPT !.list = SetTasks(hs, t)]
    BY Zenon, <1>8 DEF RoutineReceives, deliverBlockMsg
  <2>2. ASSUME Single(c)
        PROVE  net'[c] = <<>> /\ (Assigned(p) \subseteq nums \/ OtherBusy(c))
    <3>1. IsBlocks(net[c]) /\ Covered(c)
      BY Zenon, <1>1, <1>4, <1>8, <2>2 DEF AnswersInv
    <3>2. net'[c] = <<>> /\ nums = net[c][1].nums
      BY Zenon, <1>3, <1>4, <2>2, <3>1, NextAnswer
    <3> QED
      BY Zenon, <3>1, <3>2 DEF Covered
  <2>3. Assigned(p) \subseteq nums => Assigned(p) \subseteq hs
    <3>1. \A h \in Assigned(p) : Task(h).peer = p
      BY DEF Assigned
    <3> QED
      BY Zenon, <3>1
  <2>4. t \in Tasks /\ t.status = "WaitProcessing"
    BY Zenon, <1>1, NewTasks
  <2>5. AnswersInv(c)'
    BY Zenon, <1>2, <2>2, AnswersStayEmpty
  <2> HIDE DEF hs, t
  <2>6. ManagerInv' /\ tm'.curNo = tm.curNo /\ tm'.toNo = tm.toNo
    BY Zenon, <1>1, <2>1, <2>4, NewTaskList
  <2>7. RunInv'
    BY Zenon, <1>1, <2>1, <2>4, RunFrame
  <2>8. \A q \in Peer : Assigned(q)' \subseteq Assigned(q)
    BY Zenon, <1>1, <2>1, <2>4, TasksGivenUp
  <2>9. Assigned(p) \subseteq hs \/ p \in doubled \/ OtherBusy(c)
    BY Zenon, <1>2, <2>2, <2>3 DEF Single
  <2>10. HeldInv'
    BY ZenonT(40), <1>1, <1>2, <2>1, <2>4, <2>9, HeldAfter
  <2>11. "loop" \in Places
    BY Zenon DEF Places
  <2> QED
    BY Zenon, <1>1, <1>2, <1>3, <1>5, <1>8, <2>1, <2>5, <2>6, <2>7, <2>8, <2>10, <2>11, RoutineStep
<1> QED
  BY Zenon, <1>6, <1>7, <1>8 DEF RoutineReceives
==============================================================================
