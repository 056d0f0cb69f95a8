-------------------------- MODULE DownloaderProofs --------------------------
(* The steps of the caller, of run() and of connections that come and go     *)
(* preserve SessionInv; from it, three safety properties of one session of   *)
(* the downloader, for any connections, any chains and any limits.           *)
EXTENDS DownloaderRoutineProofs
-----------------------------------------------------------------------------
(* The tasks are as before, and so are the routines. *)
LEMMA HeldFrame ==
  ASSUME HeldInv, UNCHANGED <<routine, doubled>>, Pending' \subseteq Pending,
         \A h \in Pending' : Task(h)' = Task(h)
  PROVE  HeldInv'
  BY Zenon DEF HeldInv

(* A step of the caller before StartFetching: what remains to be shown. *)
LEMMA PrepareStep ==
  ASSUME SessionInv, sess \in Preparing \cup {"start"}, UNCHANGED <<routine, peers>>,
         ManagerInv', RunInv', PrepareInv', NetInv',
         result' # "ok",
         Pending' = {} \/ UNCHANGED tm,
         \A d \in Conn : net'[d] = <<>> \/ IsHeaders(net'[d])
  PROVE  SessionInv'
<1>1. \A d \in Conn : routine[d] = "none"
  BY Zenon DEF SessionInv, PrepareInv
<1>2. ConnInv'
  BY Zenon, ConnFrame DEF SessionInv, ConnInv
<1>3. ASSUME NEW d \in Conn PROVE AnswersInv(d)'
  <2>1. routine'[d] = "none" /\ (net'[d] = <<>> \/ IsHeaders(net'[d]))
    BY Zenon, <1>1
  <2> QED
    BY ZenonT(40), <2>1 DEF AnswersInv
<1>4. HeldInv'
  <2>1. CASE Pending' = {}
    BY Zenon, <2>1 DEF HeldInv
  <2>2. CASE UNCHANGED tm
    <3>1. Pending' = Pending /\ \A h : Task(h)' = Task(h)
      BY Zenon, <2>2 DEF Pending, Listed, Task, At
    <3> QED
      BY Zenon, <3>1, HeldFrame DEF SessionInv, peers
  <2> QED
    BY Zenon, <2>1, <2>2
<1> QED
  BY Zenon, <1>2, <1>3, <1>4 DEF SessionInv, RoutinesInv, ResultInv

(* newTaskMgr *)
LEMMA NewManager ==
  ASSUME NEW a \in Int, NewTaskMgr(a), written' = 0, failed' = FALSE
  PROVE  ManagerInv' /\ RunInv' /\ Pending' = {}
<1>1. /\ DOMAIN tm' = {"fromNo", "toNo", "curNo", "list", "headers", "closed"}
      /\ tm'.fromNo = a + 1 /\ tm'.curNo = a + 1 /\ tm'.toNo = Top[Master] /\ tm'.list = <<>>
  BY Zenon DEF NewTaskMgr, NoTm
<1>2. DOMAIN run' = {"at", "next"} /\ run'.at = "sleep" /\ run'.next = a + 1
  BY Zenon DEF NewTaskMgr
<1>3. Top[Master] \in Int
  BY DownloaderAssumption
<1>4. <<>> \in Seq(Tasks) /\ Len(<<>>) = 0
  OBVIOUS
<1>5. ManagerInv'
  BY <1>1, <1>3, <1>4 DEF ManagerInv
<1>6. RunInv'
  <2>1. tm'.curNo = tm'.fromNo + written' /\ run'.next \in Int /\ written' \in Nat
    BY <1>1, <1>2
  <2>2. run'.at # "process"
    BY Zenon, <1>2
  <2> QED
    BY Zenon, <1>2, <2>1, <2>2 DEF RunInv
<1>7. Pending' = {}
  BY <1>1, <1>4 DEF Pending, Listed
<1> QED
  BY Zenon, <1>5, <1>6, <1>7

(* The common ancestor is the largest height that both chains agree on. *)
LEMMA LargestIsInteger ==
  ASSUME NEW lo \in Int, NEW hi \in Int, NEW f \in Int, NEW g \in lo .. hi, g <= f
  PROVE  Max({h \in lo .. hi : h <= f}) \in Int
<1> DEFINE S == {h \in lo .. hi : h <= f}
           top == IF hi <= f THEN hi ELSE f
<1>1. top \in S /\ \A y \in S : top >= y
  OBVIOUS
<1>2. S \subseteq Int
  OBVIOUS
<1>3. Max(S) = CHOOSE x \in S : \A y \in S : x >= y
  BY Zenon DEF Max
<1> HIDE DEF S, top
<1>4. Max(S) \in S
  BY Zenon, <1>1, <1>3
<1> QED
  BY Zenon, <1>2, <1>4 DEF S

(* The local chain. *)
LEMMA LocalChain ==
  ASSUME PrepareInv
  PROVE  local.fork \in Int /\ localTop \in Int /\ fetchCount \in Int
<1>1. local.height \in Nat /\ local.fork \in Int
  <2>1. local.height \in Nat /\ local.fork \in 0 .. Min({local.height, Top[Master]})
    BY Zenon, DownloaderAssumption DEF PrepareInv
  <2> QED
    BY <2>1
<1>2. Top[Master] \in Int /\ MaxForkAncestry \in Int /\ MaxHeaderFetch \in Int
  BY DownloaderAssumption
<1>3. localTop \in Int
  BY <1>1, <1>2, MinOfTwo DEF localTop
<1>4. maxFetchAncestry - cmpCount \in Int
  BY <1>2, <1>3 DEF maxFetchAncestry, PrepareInv
<1>5. fetchCount \in Int
  BY Zenon, <1>2, <1>4, MinOfTwo DEF fetchCount
<1> QED
  BY Zenon, <1>1, <1>3, <1>5

(* The answer to a request of the caller. *)
LEMMA HeadersOnTheirWay ==
  ASSUME NEW lo \in Int, NEW hi \in Int, NEW a \in HeadersAnswer(Master, lo, hi),
         NEW m, m = <<>> \o a
  PROVE  m = <<>> \/ (IsHeaders(m) /\ IsInterval(m[1].nums))
<1>1. CASE a = <<>>
  BY Zenon, <1>1, FirstAnswer
<1>2. CASE a # <<>>
  <2>1. a = <<[code |-> "Headers", nums |-> lo .. hi]>>
    BY Zenon, <1>2 DEF HeadersAnswer
  <2>2. m = a
    BY Zenon, <2>1, FirstAnswer
  <2>3. a[1].nums = lo .. hi
    BY Zenon, <2>1
  <2> QED
    BY Zenon, <2>1, <2>2, <2>3 DEF IsHeaders, IsInterval
<1> QED
  BY Zenon, <1>1, <1>2
-----------------------------------------------------------------------------
(* What holds while the caller prepares the session. *)
LEMMA WhilePreparing ==
  ASSUME SessionInv, sess \in Preparing
  PROVE  /\ ManagerInv /\ RunInv /\ NetInv /\ local \in LocalChains /\ cmpCount \in Nat
         /\ result # "ok"
         /\ written = 0 /\ failed = FALSE /\ run.at = "ended" /\ syncStatus # "Fetching"
         /\ \A d \in Conn : /\ routine[d] = "none"
                            /\ d # via \/ sess \in Settled => net[d] = <<>>
                            /\ \/ net[d] = <<>>
                               \/ IsHeaders(net[d]) /\ IsInterval(net[d][1].nums)
<1>1. sess \notin {"return", "lastWait", "done"}
  BY Zenon DEF Preparing
<1>2. ManagerInv /\ RunInv /\ NetInv /\ result # "ok"
  BY Zenon, <1>1 DEF SessionInv, ResultInv
<1> QED
  BY Zenon, <1>2 DEF SessionInv, PrepareInv

(* The request of the caller is answered, if the connection is still there. *)
LEMMA CallerAsks ==
  ASSUME SessionInv, sess \in Preparing, sess \in Settled, open' = open,
         NEW lo \in Int, NEW hi \in Int, NEW a \in HeadersAnswer(Master, lo, hi),
         net' = Sent(via, a)
  PROVE  /\ NetInv'
         /\ \A d \in Conn : \/ net'[d] = <<>>
                            \/ d = via /\ IsHeaders(net'[d]) /\ IsInterval(net'[d][1].nums)
<1>1. NetInv /\ \A d \in Conn : net[d] = <<>>
  BY Zenon, WhilePreparing
<1>2. CASE via \notin Conn
  <2>1. DOMAIN net' = Conn /\ \A d \in Conn : net'[d] = net[d]
    BY Zenon, <1>1, <1>2 DEF Sent, NetInv
  <2> QED
    BY Zenon, <1>1, <2>1 DEF NetInv
<1>3. CASE via \in Conn
  <2>1. a = <<>> \/ a = <<[code |-> "Headers", nums |-> lo .. hi]>>
    BY Zenon DEF HeadersAnswer
  <2>2. GoodAnswers(peerID[via], a)
    BY Zenon, <2>1, FS_Interval, GoodNew
  <2>3. /\ NetInv' /\ \A d \in Conn : d # via => net'[d] = net[d]
        /\ via \in open => net'[via] = net[via] \o a
    BY Zenon, <1>1, <1>3, <2>2, AnswerSent
  <2>4. CASE via \in open
    <3>1. net'[via] = <<>> \o a
      BY Zenon, <1>1, <1>3, <2>3, <2>4
    <3>2. net'[via] = <<>> \/ (IsHeaders(net'[via]) /\ IsInterval(net'[via][1].nums))
      BY Zenon, <3>1, HeadersOnTheirWay
    <3> QED
      BY Zenon, <1>1, <2>3, <3>2
  <2>5. CASE via \notin open
    BY Zenon, <1>1, <1>3, <2>3, <2>5 DEF NetInv
  <2> QED
    BY Zenon, <2>4, <2>5
<1> QED
  BY Zenon, <1>2, <1>3

(* The caller receives headers of the master. *)
LEMMA PrepareReceivesSteps ==
  ASSUME SessionInv, sess \in {"heightWait", "ancestorWait"}, NEW c \in Conn, net[c] # <<>>,
         net' = [net EXCEPT ![c] = Tail(@)], PrepareReceives(Head(net[c]).nums),
         UNCHANGED <<local, syncStatus, result, peers, routine, written, failed>>
  PROVE  SessionInv'
<1>1. sess \in Preparing
  BY Zenon DEF Preparing
<1>2. c = via /\ IsHeaders(net[c]) /\ IsInterval(net[c][1].nums)
  BY Zenon, <1>1, WhilePreparing
<1>3. /\ NetInv' /\ net'[c] = Tail(net[c]) /\ \A d \in Conn : d # c => net'[d] = net[d]
  BY Zenon, MessageTaken DEF SessionInv, peers
<1>4. /\ Head(net[c]).nums = net[c][1].nums
      /\ \A d \in Conn : net'[d] = <<>>
  BY Zenon, <1>1, <1>2, <1>3, NextAnswer, WhilePreparing
<1>5. PICK lo \in Int, hi \in Int : net[c][1].nums = lo .. hi
  BY Zenon, <1>2 DEF IsInterval
<1>6. Cardinality(lo .. hi) \in Nat
  BY ZenonT(40), FS_Interval, FS_CardinalityType
<1>7. cmpCount' \in Nat
  <2>1. CASE sess = "heightWait"
    BY Zenon, <1>1, <2>1, WhilePreparing DEF PrepareReceives
  <2>2. CASE sess = "ancestorWait"
    BY <1>1, <1>4, <1>5, <1>6, <2>2, WhilePreparing DEF PrepareReceives
  <2> QED
    BY Zenon, <2>1, <2>2
<1>8. CASE sess' = "ancestor" /\ UNCHANGED <<tm, run>>
  <2>1. ManagerInv' /\ RunInv'
    BY Zenon, <1>1, <1>8, WhilePreparing, ManagerFrame
  <2>2. PrepareInv'
    BY Zenon, <1>1, <1>4, <1>7, <1>8, WhilePreparing DEF PrepareInv
  <2> QED
    BY Zenon, <1>1, <1>3, <1>4, <1>8, <2>1, <2>2, WhilePreparing, PrepareStep
<1>9. CASE /\ sess' = "start" /\ \E h \in lo .. hi : h <= local.fork
           /\ NewTaskMgr(Max({h \in lo .. hi : h <= local.fork}))
  <2>1. local.fork \in Int
    BY Zenon, LocalChain DEF SessionInv
  <2>2. Max({h \in lo .. hi : h <= local.fork}) \in Int
    BY ZenonT(40), <1>9, <2>1, LargestIsInteger
  <2>3. ManagerInv' /\ RunInv' /\ Pending' = {}
    BY Zenon, <1>1, <1>9, <2>2, WhilePreparing, NewManager
  <2>4. PrepareInv'
    <3>1. sess' \notin Preparing
      BY Zenon, <1>9 DEF Preparing
    <3> QED
      BY Zenon, <1>1, <1>4, <1>7, <3>1, WhilePreparing DEF PrepareInv
  <2> QED
    BY Zenon, <1>1, <1>3, <1>4, <2>3, <2>4, WhilePreparing, PrepareStep
<1> QED
  <2>1. CASE sess = "heightWait"
    BY Zenon, <1>8, <2>1 DEF PrepareReceives
  <2>2. CASE sess = "ancestorWait"
    BY Zenon, <1>4, <1>5, <1>8, <1>9, <2>2 DEF PrepareReceives
  <2> QED
    BY Zenon, <2>1, <2>2

(* DeliverMsg: received by the caller, by a routine, or dropped. *)
LEMMA DeliverSteps ==
  ASSUME SessionInv, NEW c \in Conn, DeliverMsg(c)
  PROVE  SessionInv'
<1> DEFINE msg == Head(net[c])
           to == Receivers(c, msg.code)
<1>1. /\ c \in open /\ net[c] # <<>> /\ net' = [net EXCEPT ![c] = Tail(@)]
      /\ UNCHANGED <<via, local, syncStatus, result, peers, written, failed>>
  BY Zenon DEF DeliverMsg, links
<1>2. CASE /\ sess \in {"heightWait", "ancestorWait"}
           /\ PrepareReceives(msg.nums) /\ UNCHANGED routine
  BY Zenon, <1>1, <1>2, PrepareReceivesSteps
<1>3. ASSUME sess \notin {"heightWait", "ancestorWait"}, NEW d \in to,
             RoutineReceives(d, msg.nums), UNCHANGED <<sess, cmpCount, run>>
      PROVE  SessionInv'
  <2>1. /\ d \in Conn /\ conn[d] = "up" /\ peerID[d] = peerID[c] /\ WaitingFor(d) = msg.code
    BY Zenon, <1>3 DEF Receivers
  <2>2. UNCHANGED <<session, peers, run, written, failed>>
    BY Zenon, <1>1, <1>3 DEF session, prep
  <2> QED
    BY ZenonT(40), <1>1, <1>3, <2>1, <2>2, ReceiveSteps
<1>4. CASE UNCHANGED <<sess, cmpCount, tm, run, routine>>
  BY ZenonT(40), <1>1, <1>4, DroppedSteps DEF session, prep
<1> QED
  BY Zenon, <1>2, <1>3, <1>4 DEF DeliverMsg
-----------------------------------------------------------------------------
(* The caller moves on with the same task manager. *)
LEMMA CallerMoves ==
  ASSUME SessionInv, sess \in Preparing, sess' \in Preparing,
         UNCHANGED <<local, cmpCount, result, peers, tm, routine, run, written, failed>>,
         syncStatus' # "Fetching", NetInv',
         \A d \in Conn : \/ net'[d] = <<>>
                         \/ /\ d = via' /\ sess' \notin Settled
                            /\ IsHeaders(net'[d]) /\ IsInterval(net'[d][1].nums)
  PROVE  SessionInv'
<1>1. ManagerInv' /\ RunInv'
  BY Zenon, WhilePreparing, ManagerFrame
<1>2. PrepareInv'
  BY Zenon, WhilePreparing DEF PrepareInv
<1> QED
  BY Zenon, <1>1, <1>2, WhilePreparing, PrepareStep

(* The caller gives up before it has started any routine. *)
LEMMA CallerGivesUp ==
  ASSUME SessionInv, sess \in Preparing, sess' \in {"return", "done"}, result' # "ok",
         UNCHANGED <<local, cmpCount, peers, tm, routine, net, run, written, failed>>
  PROVE  SessionInv'
<1>1. ManagerInv' /\ RunInv'
  BY Zenon, WhilePreparing, ManagerFrame
<1>2. PrepareInv'
  <2>1. sess' \notin Preparing \cup {"start"}
    BY Zenon DEF Preparing
  <2> QED
    BY Zenon, <2>1, WhilePreparing DEF PrepareInv
<1>3. NetInv'
  BY Zenon, WhilePreparing DEF NetInv, peers
<1> QED
  BY Zenon, <1>1, <1>2, <1>3, WhilePreparing, PrepareStep

(* The caller from Synchronise to the common ancestor. *)
LEMMA PreparingSteps ==
  ASSUME SessionInv,
         Synchronise \/ RequestHeight \/ RequestAncestor \/ RegisterWait \/ PrepareInterrupted
  PROVE  SessionInv'
<1>1. CASE Synchronise
  <2>1. /\ sess = "idle" /\ syncStatus' # "Fetching"
        /\ UNCHANGED <<local, cmpCount, result, peers, tm, routine, net, run, written, failed>>
    BY Zenon, <1>1 DEF Synchronise, fetch, store
  <2>2. sess \in Preparing /\ sess \in Settled
    BY Zenon, <2>1 DEF Preparing, Settled
  <2>3. NetInv' /\ \A d \in Conn : net'[d] = <<>>
    BY Zenon, <2>1, <2>2, WhilePreparing DEF NetInv, peers
  <2>4. CASE sess' = "height"
    BY Zenon, <2>1, <2>2, <2>3, <2>4, CallerMoves DEF Preparing
  <2>5. CASE sess' = "done"
    BY Zenon, <2>1, <2>2, <2>5, WhilePreparing, CallerGivesUp
  <2> QED
    BY Zenon, <1>1, <2>4, <2>5 DEF Synchronise
<1>2. CASE RequestHeight
  <2>1. /\ sess = "height" /\ sess' = "heightSent"
        /\ UNCHANGED <<via, local, cmpCount, syncStatus, result, peers, tm, routine, run,
                       written, failed>>
    BY Zenon, <1>2 DEF RequestHeight, prep, links, store
  <2>2. PICK a \in HeadersAnswer(Master, Top[Master], Top[Master]) : net' = Sent(via, a)
    BY Zenon, <1>2 DEF RequestHeight
  <2>3. sess \in Preparing /\ sess \in Settled /\ sess' \in Preparing /\ sess' \notin Settled
    BY Zenon, <2>1 DEF Preparing, Settled
  <2>4. Top[Master] \in Int /\ open' = open
    BY <2>1, DownloaderAssumption DEF peers
  <2>5. /\ NetInv'
        /\ \A d \in Conn : \/ net'[d] = <<>>
                           \/ d = via /\ IsHeaders(net'[d]) /\ IsInterval(net'[d][1].nums)
    BY ZenonT(40), <2>2, <2>3, <2>4, CallerAsks
  <2> QED
    BY Zenon, <2>1, <2>3, <2>5, WhilePreparing, CallerMoves
<1>3. CASE RequestAncestor
  <2>1. /\ sess = "ancestor"
        /\ UNCHANGED <<via, local, cmpCount, syncStatus, peers, routine, written, failed>>
    BY Zenon, <1>3 DEF RequestAncestor, prep, links
  <2>2. sess \in Preparing /\ sess \in Settled /\ open' = open
    BY Zenon, <2>1 DEF Preparing, Settled, peers
  <2>3. CASE NewTaskMgr(0) /\ sess' = "start" /\ UNCHANGED <<result, net>>
    <3>1. ManagerInv' /\ RunInv' /\ Pending' = {}
      BY <2>1, <2>2, <2>3, WhilePreparing, NewManager
    <3>2. sess' \notin Preparing
      BY Zenon, <2>3 DEF Preparing
    <3>3. PrepareInv'
      BY Zenon, <2>1, <2>2, <2>3, <3>2, WhilePreparing DEF PrepareInv
    <3>4. NetInv' /\ \A d \in Conn : net'[d] = <<>>
      BY Zenon, <2>2, <2>3, WhilePreparing DEF NetInv
    <3> QED
      BY Zenon, <2>1, <2>2, <2>3, <3>1, <3>3, <3>4, WhilePreparing, PrepareStep
  <2>4. CASE doSynchroniseReturns("err") /\ UNCHANGED <<tm, run, net>>
    BY Zenon, <2>1, <2>2, <2>4, CallerGivesUp DEF doSynchroniseReturns
  <2>5. ASSUME NEW a \in HeadersAnswer(Master, localTop - cmpCount - fetchCount + 1,
                                       localTop - cmpCount),
               net' = Sent(via, a), sess' = "ancestorSent",
               UNCHANGED <<result, tm, run>>
        PROVE  SessionInv'
    <3>1. localTop - cmpCount \in Int /\ localTop - cmpCount - fetchCount + 1 \in Int
      <4>1. localTop \in Int /\ fetchCount \in Int
        BY Zenon, LocalChain DEF SessionInv
      <4>2. cmpCount \in Int
        BY <2>2, WhilePreparing
      <4> QED
        BY <4>1, <4>2
    <3>2. /\ NetInv'
          /\ \A d \in Conn : \/ net'[d] = <<>>
                             \/ d = via /\ IsHeaders(net'[d]) /\ IsInterval(net'[d][1].nums)
      BY ZenonT(40), <2>2, <2>5, <3>1, CallerAsks
    <3>3. sess' \in Preparing /\ sess' \notin Settled
      BY Zenon, <2>5 DEF Preparing, Settled
    <3> QED
      BY Zenon, <2>1, <2>2, <2>5, <3>2, <3>3, WhilePreparing, CallerMoves
  <2> QED
    BY Zenon, <1>3, <2>3, <2>4, <2>5 DEF RequestAncestor
<1>4. CASE RegisterWait
  <2>1. UNCHANGED <<via, local, cmpCount, syncStatus, result, peers, tm, routine, net, run,
                    written, failed>>
    BY Zenon, <1>4 DEF RegisterWait, prep, links, fetch, store
  <2>2. sess \in Preparing /\ sess' \in Preparing /\ sess' \notin Settled
    BY Zenon, <1>4 DEF RegisterWait, Preparing, Settled
  <2>3. /\ NetInv'
        /\ \A d \in Conn : \/ net'[d] = <<>>
                           \/ d = via /\ IsHeaders(net'[d]) /\ IsInterval(net'[d][1].nums)
    BY Zenon, <2>1, <2>2, WhilePreparing DEF NetInv, peers
  <2> QED
    BY Zenon, <2>1, <2>2, <2>3, WhilePreparing, CallerMoves
<1>5. CASE PrepareInterrupted
  <2>1. UNCHANGED <<local, cmpCount, peers, tm, routine, net, run, written, failed>>
    BY Zenon, <1>5 DEF PrepareInterrupted, prep, links, fetch, store
  <2>2. sess \in Preparing /\ sess' = "return" /\ result' = "err"
    BY Zenon, <1>5 DEF PrepareInterrupted, doSynchroniseReturns, Preparing
  <2> QED
    BY Zenon, <2>1, <2>2, CallerGivesUp
<1> QED
  BY Zenon, <1>1, <1>2, <1>3, <1>4, <1>5
-----------------------------------------------------------------------------
(* The routines, the connections and the answers are as before; tasks may    *)
(* have passed behind curNo.                                                 *)
LEMMA SameAnswers ==
  ASSUME NetInv, ConnInv, RoutinesInv, HeldInv, UNCHANGED <<routine, peers, net>>,
         Pending' \subseteq Pending, \A h \in Pending' : Task(h)' = Task(h)
  PROVE  NetInv' /\ ConnInv' /\ RoutinesInv' /\ HeldInv'
<1>1. \A q \in Peer : Assigned(q)' \subseteq Assigned(q)
  BY Zenon DEF Assigned
<1>2. ConnInv' /\ \A d \in Conn : Single(d)' <=> Single(d)
  BY Zenon, ConnFrame DEF ConnInv
<1>3. ASSUME NEW d \in Conn PROVE AnswersInv(d)'
  <2>1. Covered(d) => Covered(d)'
    BY Zenon, <1>1, PeerOfConn DEF Covered, OtherBusy
  <2> QED
    BY Zenon, <1>2, <2>1, AnswersFrame DEF RoutinesInv
<1>4. NetInv'
  BY Zenon DEF NetInv, peers
<1>5. HeldInv'
  BY Zenon, HeldFrame DEF peers
<1> QED
  BY Zenon, <1>2, <1>3, <1>4, <1>5 DEF RoutinesInv

(* The caller's steps once the routines have been started. *)
LEMMA LaterSteps ==
  ASSUME SessionInv,
         SessionWait \/ SessionOver \/ CloseTaskMgr \/ JoinRun \/ TakeLock \/ Return
  PROVE  SessionInv'
<1>1. UNCHANGED <<local, cmpCount, peers, routine, net, run, written, failed>>
  BY Zenon DEF SessionWait, SessionOver, CloseTaskMgr, JoinRun, TakeLock, Return,
         prep, links, fetch, store
<1>2. /\ sess \in {"wait", "over", "cleaning", "join", "return", "lastWait"}
      /\ sess' \in {"over", "cleaning", "join", "return", "lastWait", "done"}
      /\ sess \in {"return", "lastWait"} => sess' \in {"return", "lastWait", "done"}
  BY Zenon DEF SessionWait, SessionOver, CloseTaskMgr, JoinRun, TakeLock, Return, doSynchroniseReturns
<1>3. \/ UNCHANGED result
      \/ sess' = "return" /\ tm' = tm /\ run.at = "ended" /\ result' = IF isDone THEN "ok" ELSE "err"
  BY Zenon DEF SessionWait, SessionOver, CloseTaskMgr, JoinRun, TakeLock, Return, doSynchroniseReturns
<1>4. /\ DOMAIN tm' = DOMAIN tm /\ tm'.fromNo = tm.fromNo /\ tm'.toNo = tm.toNo
      /\ tm'.curNo = tm.curNo /\ tm'.list = tm.list
  BY Zenon DEF SessionInv, ManagerInv, SessionWait, SessionOver, CloseTaskMgr, JoinRun, TakeLock, Return
<1>5. ManagerInv' /\ RunInv' /\ Pending' = Pending /\ \A h : Task(h)' = Task(h)
  BY Zenon, <1>1, <1>4, SameTasks DEF SessionInv
<1>6. NetInv' /\ ConnInv' /\ RoutinesInv' /\ HeldInv'
  BY Zenon, <1>1, <1>5, SameAnswers DEF SessionInv
<1>7. PrepareInv'
  <2>1. sess' \notin Preparing \cup {"start"}
    BY Zenon, <1>2 DEF Preparing
  <2> QED
    BY Zenon, <1>1, <2>1 DEF SessionInv, PrepareInv
<1>8. ResultInv'
  <2>1. isDone' <=> isDone
    BY Zenon, <1>4 DEF isDone
  <2>2. CASE UNCHANGED result
    BY Zenon, <1>1, <1>2, <2>1, <2>2 DEF SessionInv, ResultInv
  <2>3. CASE sess' = "return" /\ run.at = "ended" /\ result' = IF isDone THEN "ok" ELSE "err"
    BY Zenon, <1>1, <2>1, <2>3 DEF ResultInv
  <2> QED
    BY Zenon, <1>3, <2>2, <2>3
<1> QED
  BY Zenon, <1>5, <1>6, <1>7, <1>8 DEF SessionInv

(* StartFetching: the answers to the preparation have all arrived. *)
LEMMA StartSteps ==
  ASSUME SessionInv, StartFetching
  PROVE  SessionInv'
<1>1. /\ sess = "start" /\ sess' = "wait"
      /\ UNCHANGED <<local, cmpCount, result, peers, tm, net, run, written, failed>>
      /\ routine' = [c \in Conn |-> IF conn[c] = "up" /\ peerID[c] \in Heavier
                                    THEN "loop" ELSE routine[c]]
  BY Zenon DEF StartFetching, prep, links, store
<1>2. sess \in Settled /\ sess' \notin Preparing \cup {"start"}
  BY Zenon, <1>1 DEF Settled, Preparing
<1>3. \A c \in Conn : routine[c] = "none" /\ net[c] = <<>>
  BY ZenonT(40), <1>1, <1>2 DEF SessionInv, PrepareInv
<1>4. ManagerInv' /\ RunInv'
  BY Zenon, <1>1, ManagerFrame DEF SessionInv
<1>5. PrepareInv' /\ ResultInv'
  <2>1. result # "ok"
    BY ZenonT(40), <1>1 DEF SessionInv, ResultInv
  <2> QED
    BY ZenonT(40), <1>1, <1>2, <2>1 DEF SessionInv, PrepareInv, ResultInv
<1>6. HeldInv'
  <2>1. Pending' = Pending /\ \A h : Task(h)' = Task(h)
    BY ZenonT(40), <1>1 DEF Pending, Listed, Task, At
  <2>2. \A q : ~IsBusy(q, routine)
    BY Zenon, <1>3 DEF IsBusy, Busy
  <2>3. \A h \in Pending : Task(h).status = "Downloading" =>
          Task(h).peer \in Peer /\ Task(h).peer \in doubled
    BY ZenonT(40), <2>2 DEF SessionInv, HeldInv
  <2> QED
    BY Zenon, <1>1, <2>1, <2>3 DEF HeldInv, peers
<1>7. ConnInv'
  <2>1. routine' \in [Conn -> Places]
    BY Zenon, <1>1, <1>3 DEF Places
  <2>2. ASSUME NEW c \in Conn, conn[c] = "absent" PROVE routine'[c] = "none"
    BY Zenon, <1>1, <1>3, <2>2
  <2> QED
    BY Zenon, <1>1, <2>1, <2>2 DEF SessionInv, ConnInv, peers
<1>8. NetInv' /\ RoutinesInv'
  BY Zenon, <1>1, <1>3, AnswersEmpty DEF SessionInv, NetInv, RoutinesInv, peers
<1> QED
  BY Zenon, <1>4, <1>5, <1>6, <1>7, <1>8 DEF SessionInv

(* Connections come and go: what depends neither on them nor on the routines. *)
LEMMA PeerFrame ==
  ASSUME SessionInv, UNCHANGED <<session, tm, run, written, failed>>
  PROVE  /\ ManagerInv' /\ RunInv' /\ ResultInv'
         /\ Pending' = Pending /\ \A h : Task(h)' = Task(h)
         /\ \A q \in Peer : Assigned(q)' = Assigned(q)
<1>1. ManagerInv' /\ RunInv'
  BY Zenon, ManagerFrame DEF SessionInv
<1>2. ResultInv'
  BY Zenon DEF SessionInv, ResultInv, isDone, session
<1> QED
  BY Zenon, <1>1, <1>2 DEF Assigned, Pending, Listed, Task, At

(* RegisterPeer: a peer that is connected already is marked as doubled. *)
LEMMA RegisterSteps ==
  ASSUME SessionInv, NEW c \in Conn, RegisterPeer(c)
  PROVE  SessionInv'
<1> DEFINE x == IF syncStatus = "Fetching" THEN "loop" ELSE routine[c]
<1>1. /\ conn[c] = "absent" /\ open' = open \cup {c}
      /\ UNCHANGED <<session, tm, net, run, written, failed>>
      /\ routine' = [routine EXCEPT ![c] = x]
      /\ conn' = [d \in Conn |-> IF d = c THEN "up"
                                 ELSE IF Holds(d, peerID[c]) THEN "replaced" ELSE conn[d]]
      /\ doubled' = IF \E d \in open : peerID[d] = peerID[c] THEN doubled \cup {peerID[c]}
                    ELSE doubled
  BY Zenon DEF RegisterPeer, store
<1>2. /\ ManagerInv' /\ RunInv' /\ ResultInv'
      /\ Pending' = Pending /\ \A h : Task(h)' = Task(h)
      /\ \A q \in Peer : Assigned(q)' = Assigned(q)
  BY Zenon, <1>1, PeerFrame
<1>3. /\ routine \in [Conn -> Places] /\ c \notin open /\ routine[c] = "none"
      /\ net[c] = <<>> /\ DOMAIN net = Conn
  BY Zenon, <1>1 DEF SessionInv, ConnInv, NetInv
<1>4. x \in {"none", "loop"} /\ x \in Places
  BY Zenon, <1>3 DEF Places
<1>5. syncStatus # "Fetching" => x = "none"
  BY Zenon, <1>3
<1> HIDE DEF x
<1>6. /\ routine' \in [Conn -> Places] /\ routine'[c] = x
      /\ \A d \in Conn : d # c => routine'[d] = routine[d]
  BY Zenon, <1>1, <1>3, <1>4
<1>7. doubled \subseteq doubled' /\ \A d \in Conn : d # c /\ Single(d)' => Single(d)
  BY Zenon, <1>1 DEF Single
<1>8. NetInv'
  BY Zenon, <1>1 DEF SessionInv, NetInv
<1>9. ConnInv'
  <2>1. ASSUME NEW d \in Conn
        PROVE  /\ conn'[d] = "absent" => d \notin open' /\ routine'[d] = "none"
               /\ conn'[d] = "up" => d \in open'
    <3>1. CASE d = c
      BY Zenon, <1>1, <3>1
    <3>2. CASE d # c
      <4>1. /\ conn[d] = "absent" => d \notin open /\ routine[d] = "none"
            /\ conn[d] = "up" => d \in open
        BY Zenon DEF SessionInv, ConnInv
      <4>2. conn'[d] = conn[d] \/ conn'[d] = "replaced"
        BY Zenon, <1>1, <3>2
      <4> QED
        BY Zenon, <1>1, <1>6, <3>2, <4>1, <4>2
    <3> QED
      BY Zenon, <3>1, <3>2
  <2>2. ASSUME NEW d \in Conn, NEW e \in Conn, d \in open', e \in open',
               peerID[d] = peerID[e], peerID[d] \notin doubled'
        PROVE  d = e
    <3>1. CASE d # c /\ e # c
      BY Zenon, <1>1, <1>7, <2>2, <3>1 DEF SessionInv, ConnInv
    <3>2. CASE d = c /\ e # c
      BY Zenon, <1>1, <2>2, <3>2
    <3>3. CASE d # c /\ e = c
      BY Zenon, <1>1, <2>2, <3>3
    <3> QED
      BY Zenon, <3>1, <3>2, <3>3
  <2> QED
    BY Zenon, <1>1, <1>6, <2>1, <2>2 DEF ConnInv
<1>10. RoutinesInv'
  <2>1. AnswersInv(c)'
    BY Zenon, <1>1, <1>3, AnswersEmpty
  <2>2. ASSUME NEW d \in Conn, d # c PROVE AnswersInv(d)'
    <3>1. OtherBusy(d) => OtherBusy(d)'
      BY Zenon, <1>3, <1>6 DEF OtherBusy, Busy
    <3>2. Covered(d) => Covered(d)'
      BY Zenon, <1>1, <1>2, <3>1, PeerOfConn DEF Covered
    <3> QED
      BY Zenon, <1>1, <1>6, <1>7, <2>2, <3>2, AnswersFrame DEF SessionInv, RoutinesInv
  <2> QED
    BY Zenon, <2>1, <2>2 DEF RoutinesInv
<1>11. HeldInv'
  <2>1. \A q : IsBusy(q, routine) => IsBusy(q, routine')
    BY Zenon, <1>3, <1>6 DEF IsBusy, Busy
  <2> QED
    BY Zenon, <1>2, <1>7, <2>1 DEF SessionInv, HeldInv
<1>12. PrepareInv'
  <2>1. syncStatus = "Fetching" => sess \notin Preparing \cup {"start"}
    BY Zenon DEF SessionInv, PrepareInv
  <2>2. x = "none" => routine' = routine
    BY Zenon, <1>1, <1>3
  <2>3. UNCHANGED <<via, local, cmpCount, sess, syncStatus>>
    BY Zenon, <1>1 DEF session, prep
  <2> QED
    BY Zenon, <1>1, <1>5, <2>1, <2>2, <2>3 DEF SessionInv, PrepareInv
<1> QED
  BY Zenon, <1>2, <1>8, <1>9, <1>10, <1>11, <1>12 DEF SessionInv

(* UnRegisterPeer: the answers on the connection are lost. *)
LEMMA UnRegisterSteps ==
  ASSUME SessionInv, NEW c \in Conn, UnRegisterPeer(c)
  PROVE  SessionInv'
<1>1. /\ open' = open \ {c} /\ doubled' = doubled
      /\ UNCHANGED <<session, tm, routine, run, written, failed>>
      /\ net' = [net EXCEPT ![c] = <<>>]
      /\ conn' = [d \in Conn |-> IF Holds(d, peerID[c]) THEN "closed" ELSE conn[d]]
  BY Zenon DEF UnRegisterPeer, store
<1>2. /\ ManagerInv' /\ RunInv' /\ ResultInv'
      /\ Pending' = Pending /\ \A h : Task(h)' = Task(h)
      /\ \A q \in Peer : Assigned(q)' = Assigned(q)
  BY Zenon, <1>1, PeerFrame
<1>3. /\ DOMAIN net' = Conn /\ net'[c] = <<>> /\ \A d \in Conn : d # c => net'[d] = net[d]
  BY Zenon, <1>1 DEF SessionInv, NetInv
<1>4. NetInv'
  <2>1. GoodAnswers(peerID[c], <<>>)
    BY Zenon, GoodNew
  <2> QED
    BY Zenon, <1>1, <1>3, <2>1 DEF SessionInv, NetInv
<1>5. ConnInv'
  <2>1. ASSUME NEW d \in Conn
        PROVE  /\ conn'[d] = "absent" => d \notin open' /\ routine'[d] = "none"
               /\ conn'[d] = "up" => d \in open'
    <3>1. /\ conn[d] = "absent" => d \notin open /\ routine[d] = "none"
          /\ conn[d] = "up" => d \in open
      BY Zenon DEF SessionInv, ConnInv
    <3>2. CASE Holds(d, peerID[c])
      BY Zenon, <1>1, <3>2
    <3>3. CASE ~Holds(d, peerID[c])
      <4>1. conn'[d] = conn[d] /\ (conn[d] = "up" => d # c)
        BY Zenon, <1>1, <3>3 DEF Holds
      <4> QED
        BY Zenon, <1>1, <3>1, <4>1
    <3> QED
      BY Zenon, <3>2, <3>3
  <2>2. \A d, e \in Conn :
          d \in open' /\ e \in open' /\ peerID[d] = peerID[e] /\ peerID[d] \notin doubled' => d = e
    BY Zenon, <1>1 DEF SessionInv, ConnInv
  <2>3. routine' \in [Conn -> Places] /\ DOMAIN conn' = Conn
    BY Zenon, <1>1 DEF SessionInv, ConnInv
  <2> QED
    BY Zenon, <2>1, <2>2, <2>3 DEF ConnInv
<1>6. RoutinesInv'
  <2>1. AnswersInv(c)'
    BY Zenon, <1>3, AnswersEmpty
  <2>2. ASSUME NEW d \in Conn, d # c PROVE AnswersInv(d)'
    <3>1. Covered(d) => Covered(d)'
      BY Zenon, <1>1, <1>2, <1>3, <2>2, PeerOfConn DEF Covered, OtherBusy
    <3>2. Single(d)' => Single(d)
      BY Zenon, <1>1 DEF Single
    <3> QED
      BY Zenon, <1>1, <1>3, <2>2, <3>1, <3>2, AnswersFrame DEF SessionInv, RoutinesInv
  <2> QED
    BY Zenon, <2>1, <2>2 DEF RoutinesInv
<1>7. HeldInv'
  BY Zenon, <1>1, <1>2, HeldFrame DEF SessionInv
<1>8. PrepareInv'
  <2>1. UNCHANGED <<via, local, cmpCount, sess, syncStatus>>
    BY Zenon, <1>1 DEF session, prep
  <2>2. \A d \in Conn : net'[d] = <<>> \/ net'[d] = net[d]
    BY Zenon, <1>3
  <2> QED
    BY Zenon, <1>1, <2>1, <2>2 DEF SessionInv, PrepareInv, IsHeaders
<1> QED
  BY Zenon, <1>2, <1>4, <1>5, <1>6, <1>7, <1>8 DEF SessionInv

(* Cancel closes cancelCh, which nothing above depends on. *)
LEMMA CancelSteps ==
  ASSUME SessionInv, UNCHANGED <<session, peers, tm, fetch, store>>
  PROVE  SessionInv'
<1>1. ManagerInv' /\ RunInv'
  BY Zenon, ManagerFrame DEF SessionInv, store
<1>2. Pending' = Pending /\ \A h : Task(h)' = Task(h)
  BY Zenon DEF Pending, Listed, Task, At
<1>3. NetInv' /\ ConnInv' /\ RoutinesInv' /\ HeldInv'
  BY Zenon, <1>2, SameAnswers DEF SessionInv, fetch
<1>4. PrepareInv' /\ ResultInv'
  BY Zenon DEF SessionInv, PrepareInv, ResultInv, isDone, session, prep, fetch, store
<1> QED
  BY Zenon, <1>1, <1>3, <1>4 DEF SessionInv
-----------------------------------------------------------------------------
(* A step of run(): what remains to be shown. *)
LEMMA RunStep ==
  ASSUME SessionInv, run.at # "ended", UNCHANGED <<session, peers, fetch>>,
         ManagerInv', RunInv', Pending' \subseteq Pending,
         \A h \in Pending' : Task(h)' = Task(h)
  PROVE  SessionInv'
<1>1. sess \notin Preparing /\ result # "ok"
  BY Zenon DEF SessionInv, PrepareInv, ResultInv
<1>2. UNCHANGED <<via, local, cmpCount, sess, syncStatus, result, routine, net>>
  BY Zenon DEF session, prep, fetch
<1>3. PrepareInv' /\ ResultInv'
  BY Zenon, <1>1, <1>2 DEF SessionInv, PrepareInv, ResultInv
<1>4. NetInv' /\ ConnInv' /\ RoutinesInv' /\ HeldInv'
  BY Zenon, <1>2, SameAnswers DEF SessionInv
<1> QED
  BY Zenon, <1>3, <1>4 DEF SessionInv

(* A set that contains all the numbers from c to each of its elements is an  *)
(* interval, and its size tells where it ends.                               *)
LEMMA StretchIsInterval ==
  ASSUME NEW c \in Int, NEW S, IsFiniteSet(S), S # {},
         \A h \in S : h \in Int /\ c <= h /\ c .. h \subseteq S
  PROVE  Cardinality(S) \in Nat \ {0} /\ S = c .. c + Cardinality(S) - 1
<1> DEFINE n == Cardinality(S)
           I == c .. c + n - 1
<1>1. n \in Nat /\ n # 0
  BY Zenon, FS_CardinalityType, FS_EmptySet
<1> HIDE DEF n
<1>2. ASSUME NEW h \in S PROVE h \in I
  <2>1. h \in Int /\ c <= h /\ Cardinality(c .. h) = h - c + 1
    BY FS_Interval
  <2>2. Cardinality(c .. h) <= n
    BY Zenon, FS_Subset DEF n
  <2> QED
    BY <1>1, <2>1, <2>2
<1>3. IsFiniteSet(I) /\ Cardinality(I) = n
  <2>1. c + n - 1 \in Int /\ ~(c > c + n - 1) /\ (c + n - 1) - c + 1 = n
    BY <1>1
  <2> QED
    BY Zenon, <2>1, FS_Interval
<1>4. S = I
  BY Zenon, <1>2, <1>3, FS_Subset DEF n
<1> QED
  BY Zenon, <1>1, <1>4 DEF n

(* The blocks that run() takes are those from curNo on, without a gap. *)
LEMMA TakenBlocks ==
  ASSUME ManagerInv, Takeable # {}
  PROVE  /\ Cardinality(Takeable) \in Nat \ {0}
         /\ Takeable = tm.curNo .. tm.curNo + Cardinality(Takeable) - 1
<1>1. /\ tm.fromNo \in Int /\ tm.curNo \in Int /\ Len(tm.list) \in Nat
      /\ tm.fromNo <= tm.curNo
  BY DEF ManagerInv
<1>2. IsFiniteSet(Takeable)
  <2>1. tm.fromNo + Len(tm.list) - 1 \in Int
    BY <1>1
  <2>2. IsFiniteSet(Listed)
    BY Zenon, <1>1, <2>1, FS_Interval DEF Listed
  <2>3. Takeable \subseteq Listed
    BY Zenon DEF Takeable, Pending
  <2> QED
    BY Zenon, <2>2, <2>3, FS_Subset
<1>3. ASSUME NEW h \in Takeable
      PROVE  h \in Int /\ tm.curNo <= h /\ tm.curNo .. h \subseteq Takeable
  <2>1. /\ h \in Int /\ tm.curNo <= h /\ h <= tm.fromNo + Len(tm.list) - 1
        /\ \A g \in tm.curNo .. h : Task(g).status = "WaitProcessing"
    BY <1>1 DEF Takeable, Pending, Listed
  <2>2. ASSUME NEW g \in tm.curNo .. h PROVE g \in Takeable
    <3>1. g \in Pending
      BY <1>1, <2>1 DEF Pending, Listed
    <3>2. tm.curNo .. g \subseteq tm.curNo .. h
      BY <1>1, <2>1
    <3> QED
      BY Zenon, <2>1, <3>1, <3>2 DEF Takeable
  <2> QED
    BY Zenon, <2>1, <2>2
<1> QED
  BY Zenon, <1>1, <1>2, <1>3, StretchIsInterval

(* run() takes blocks: curNo moves past them, and they wait to be processed. *)
LEMMA RunTakesSteps ==
  ASSUME SessionInv, RunTakes
  PROVE  SessionInv'
<1> DEFINE n == Cardinality(Takeable)
<1>1. /\ run.at = "sleep" /\ UNCHANGED <<session, peers, fetch, written, failed>>
      /\ run' = [at |-> "process", next |-> tm.curNo]
      /\ tm' = [tm EXCEPT !.curNo = @ + n]
  BY Zenon DEF RunTakes, links
<1>2. ManagerInv /\ RunInv
  BY Zenon DEF SessionInv
<1>3. n \in Nat \ {0} /\ Takeable = tm.curNo .. tm.curNo + n - 1
  BY Zenon, <1>2, TakenBlocks DEF RunTakes
<1> HIDE DEF n
<1>4. /\ DOMAIN tm' = DOMAIN tm /\ tm'.fromNo = tm.fromNo /\ tm'.toNo = tm.toNo
      /\ tm'.curNo = tm.curNo + n /\ tm'.list = tm.list
  BY Zenon, <1>1, <1>2 DEF ManagerInv
<1>5. /\ tm.fromNo \in Int /\ tm.curNo \in Int /\ Len(tm.list) \in Nat
      /\ tm.fromNo <= tm.curNo /\ tm.curNo <= tm.fromNo + Len(tm.list)
  BY <1>2 DEF ManagerInv
<1>6. tm.curNo + n <= tm.fromNo + Len(tm.list)
  <2>1. tm.curNo + n - 1 \in Takeable
    BY <1>3, <1>5
  <2>2. tm.curNo + n - 1 \in Listed
    BY Zenon, <2>1 DEF Takeable, Pending
  <2>3. tm.curNo + n - 1 <= tm.fromNo + Len(tm.list) - 1
    BY <1>5, <2>2 DEF Listed
  <2> HIDE DEF n
  <2> QED
    BY <1>3, <1>5, <2>3
<1>7. ManagerInv'
  BY <1>2, <1>3, <1>4, <1>5, <1>6 DEF ManagerInv
<1>8. Pending' \subseteq Pending /\ \A h : Task(h)' = Task(h)
  BY <1>3, <1>4, <1>5 DEF Pending, Listed, Task, At
<1>9. RunInv'
  <2>1. /\ DOMAIN run' = {"at", "next"} /\ run'.at = "process" /\ run'.next = tm.curNo
        /\ written \in Nat /\ failed \in BOOLEAN
    BY Zenon, <1>1, <1>2 DEF RunInv
  <2>2. run'.next \in Int /\ run'.next >= tm'.fromNo /\ run'.next < tm'.curNo
    BY <1>3, <1>4, <1>5, <2>1
  <2>3. ~failed => run'.next = tm.fromNo + written
    BY Zenon, <1>1, <1>2, <2>1 DEF RunInv
  <2>4. \A h \in run'.next .. tm'.curNo - 1 : Task(h).status = "WaitProcessing"
    <3>1. run'.next .. tm'.curNo - 1 = Takeable
      <4>1. tm'.curNo - 1 = tm.curNo + n - 1
        BY <1>3, <1>4, <1>5
      <4> QED
        BY Zenon, <1>3, <2>1, <4>1
    <3>2. \A h \in Takeable : h \in tm.curNo .. h
      BY <1>3, <1>5
    <3> QED
      BY Zenon, <3>1, <3>2 DEF Takeable
  <2> QED
    BY Zenon, <1>1, <1>4, <1>8, <2>1, <2>2, <2>3, <2>4 DEF RunInv
<1> QED
  BY Zenon, <1>1, <1>7, <1>8, <1>9, RunStep

(* processBlocks writes one block. *)
LEMMA RunWritesSteps ==
  ASSUME SessionInv, RunWrites
  PROVE  SessionInv'
<1> DEFINE i == At(run.next)
           t == [tm.list[i] EXCEPT !.status = "Processed"]
           l == [tm.list EXCEPT ![i] = t]
<1>1. /\ run.at = "process" /\ run.next = tm.fromNo + written /\ written' = written + 1
      /\ UNCHANGED <<session, peers, fetch, failed>>
      /\ run' = [at |-> IF run.next + 1 = tm.curNo THEN "sleep" ELSE "process",
                 next |-> run.next + 1]
      /\ tm' = [tm EXCEPT !.list = l]
  BY Zenon DEF RunWrites, links
<1>2. ManagerInv /\ RunInv
  BY Zenon DEF SessionInv
<1>3. /\ run.next \in Int /\ run.next >= tm.fromNo /\ run.next < tm.curNo
      /\ tm.fromNo \in Int /\ tm.curNo \in Int /\ written \in Nat /\ failed \in BOOLEAN
  BY Zenon, <1>1, <1>2 DEF RunInv, ManagerInv
<1>4. run.next \in Listed /\ run.next \notin Pending
  BY Zenon, <1>2, <1>3, ListedTasks
<1>5. /\ i \in 1 .. Len(tm.list) /\ tm.list[i] \in Tasks /\ i + tm.fromNo - 1 = run.next
      /\ tm.list \in Seq(Tasks)
  BY Zenon, <1>2, <1>4, ListedTasks DEF Task, ManagerInv
<1>6. t \in Tasks
  BY Zenon, <1>5 DEF Tasks
<1>7. ASSUME NEW h \in Listed, h # run.next PROVE At(h) # i
  BY Zenon, <1>2, <1>5, <1>7, ListedTasks
<1> HIDE DEF i, t
<1>8. l \in Seq(Tasks) /\ Len(l) = Len(tm.list) /\ \A j \in 1 .. Len(tm.list) : j # i => l[j] = tm.list[j]
  BY <1>5, <1>6
<1> HIDE DEF l
<1>9. /\ ManagerInv' /\ tm'.fromNo = tm.fromNo /\ tm'.toNo = tm.toNo /\ tm'.curNo = tm.curNo
      /\ Pending' = Pending /\ \A h \in Listed : Task(h)' = l[At(h)]
  BY Zenon, <1>1, <1>2, <1>8, NewList
<1>10. ASSUME NEW h \in Listed, h # run.next PROVE Task(h)' = Task(h)
  <2>1. At(h) \in 1 .. Len(tm.list)
    BY Zenon, <1>2, ListedTasks
  <2> QED
    BY Zenon, <1>7, <1>8, <1>9, <1>10, <2>1 DEF Task
<1>11. \A h \in Pending : Task(h)' = Task(h)
  BY Zenon, <1>2, <1>4, <1>10, ListedTasks
<1>12. RunInv'
  <2>1. /\ DOMAIN run' = {"at", "next"} /\ run'.next = run.next + 1
        /\ run'.at = "process" <=> run.next + 1 # tm.curNo
    BY Zenon, <1>1
  <2>2. /\ run'.next \in Int /\ written' \in Nat /\ run'.next = tm'.fromNo + written'
        /\ run'.at = "process" => run'.next >= tm'.fromNo /\ run'.next < tm'.curNo
        /\ run'.at # "process" => tm'.curNo = tm'.fromNo + written'
    BY <1>1, <1>3, <1>9, <2>1
  <2>3. ASSUME ~failed, run'.at = "process", NEW h \in run'.next .. tm'.curNo - 1
        PROVE  Task(h)'.status = "WaitProcessing"
    <3>1. h \in Int /\ h >= tm.fromNo /\ h < tm.curNo /\ h # run.next
          /\ h \in run.next .. tm.curNo - 1
      BY <1>3, <1>9, <2>1, <2>3
    <3>2. h \in Listed
      BY Zenon, <1>2, <3>1, ListedTasks
    <3>3. Task(h).status = "WaitProcessing"
      BY Zenon, <1>1, <1>2, <2>3, <3>1 DEF RunInv
    <3> QED
      BY Zenon, <1>10, <3>1, <3>2, <3>3
  <2>4. failed' = failed
    BY Zenon, <1>1
  <2> QED
    BY Zenon, <1>3, <2>1, <2>2, <2>3, <2>4 DEF RunInv
<1> QED
  BY Zenon, <1>1, <1>9, <1>11, <1>12, RunStep

(* All of run(). *)
LEMMA RunSteps ==
  ASSUME SessionInv, Run
  PROVE  SessionInv'
<1>1. ManagerInv /\ RunInv
  BY Zenon DEF SessionInv
<1>2. CASE RunWriteFails \/ RunEnds
  <2>1. /\ run.at # "ended" /\ UNCHANGED <<session, peers, fetch, tm, written>>
    BY Zenon, <1>2 DEF RunWriteFails, RunEnds, links
  <2>2. DOMAIN run' = {"at", "next"} /\ run'.at # "process" /\ run'.next \in Int
        /\ (failed' = TRUE \/ (failed' = failed /\ run.at # "process"))
    BY <1>1, <1>2 DEF RunWriteFails, RunEnds, RunInv, ManagerInv
  <2>3. ManagerInv' /\ Pending' = Pending /\ \A h : Task(h)' = Task(h)
    BY Zenon, <1>1, <2>1 DEF ManagerInv, Pending, Listed, Task, At
  <2>4. ~failed' => tm.curNo = tm.fromNo + written
    BY <1>1, <2>2 DEF RunInv
  <2>5. RunInv'
    BY Zenon, <1>1, <2>1, <2>2, <2>4 DEF RunInv
  <2> QED
    BY Zenon, <2>1, <2>3, <2>5, RunStep
<1> QED
  BY Zenon, <1>2, RunTakesSteps, RunWritesSteps DEF Run
-----------------------------------------------------------------------------
(* The invariant holds before the session. *)
LEMMA SessionInit ==
  ASSUME Init
  PROVE  SessionInv
<1>1. ManagerInv
  BY DEF Init, NoTm, ManagerInv
<1>2. RunInv
  <2>1. tm.fromNo = 0 /\ tm.curNo = 0 /\ written = 0 /\ tm.curNo = tm.fromNo + written
    BY DEF Init, NoTm
  <2>2. DOMAIN run = {"at", "next"} /\ run.at # "process" /\ run.next \in Int /\ written \in Nat
    BY DEF Init
  <2>3. failed \in BOOLEAN
    BY Zenon DEF Init
  <2> QED
    BY Zenon, <2>1, <2>2, <2>3 DEF RunInv
<1>3. PrepareInv
  <2>1. /\ local \in LocalChains /\ cmpCount \in Nat /\ written = 0 /\ run.at = "ended"
        /\ syncStatus # "Fetching"
    BY Zenon DEF Init
  <2>2. failed = FALSE /\ \A c \in Conn : routine[c] = "none" /\ net[c] = <<>>
    BY Zenon DEF Init
  <2> QED
    BY Zenon, <2>1, <2>2 DEF PrepareInv
<1>4. ResultInv
  BY Zenon DEF Init, ResultInv
<1>5. /\ DOMAIN net = Conn /\ DOMAIN conn = Conn
      /\ \A c \in Conn : /\ net[c] = <<>> /\ routine[c] = "none"
                         /\ conn[c] = IF c \in Late THEN "absent" ELSE "up"
                         /\ c \in open <=> c \notin Late
  BY Zenon DEF Init
<1>6. NetInv
  BY Zenon, <1>5, GoodNew DEF NetInv
<1>7. ConnInv
  <2>1. routine \in [Conn -> Places]
    BY Zenon DEF Init, Places
  <2>2. \A c, d \in Conn : c \notin Late /\ d \notin Late /\ peerID[c] = peerID[d] => c = d
    BY Zenon, DownloaderAssumption
  <2> QED
    BY Zenon, <1>5, <2>1, <2>2 DEF ConnInv
<1>8. RoutinesInv
  BY Zenon, <1>5 DEF RoutinesInv, AnswersInv
<1>9. HeldInv
  BY DEF Init, NoTm, HeldInv, Pending, Listed
<1> QED
  BY Zenon, <1>1, <1>2, <1>3, <1>4, <1>6, <1>7, <1>8, <1>9 DEF SessionInv

(* SessionInv is an invariant. *)
LEMMA SessionInvariant == Spec => []SessionInv
<1>1. Init => SessionInv
  BY Zenon, SessionInit
<1>2. SessionInv /\ [Next]_vars => SessionInv'
  <2>1. ASSUME SessionInv, UNCHANGED vars PROVE SessionInv'
    BY Zenon, <2>1, CancelSteps DEF vars, links
  <2>2. ASSUME SessionInv, Session PROVE SessionInv'
    BY Zenon, <2>2, PreparingSteps, StartSteps, LaterSteps DEF Session
  <2>3. ASSUME SessionInv, Cancel PROVE SessionInv'
    BY Zenon, <2>3, CancelSteps DEF Cancel
  <2>4. ASSUME SessionInv, NEW c \in Conn, PeerDownload(c) PROVE SessionInv'
    BY Zenon, <2>4, QuietSteps, QuitSteps, RequestHeadersSteps, RequestBlocksSteps DEF PeerDownload
  <2> QED
    BY Zenon, <2>1, <2>2, <2>3, <2>4, RunSteps, DeliverSteps, RegisterSteps, UnRegisterSteps DEF Next
<1> QED
  BY <1>1, <1>2, PTL DEF Spec

(* Every block marked as downloading is being fetched, or a routine of its   *)
(* peer is about to give it back in onPeerQuit: for all peers that leave and *)
(* come back, all chains, and all limits on what is asked for at once.       *)
THEOREM DownloadingIsHeld == Spec => []TasksAreHeld
<1>1. SessionInv => TasksAreHeld
  BY Zenon DEF SessionInv, HeldInv, TasksAreHeld, BusyFor, IsBusy
<1> QED
  BY <1>1, SessionInvariant, PTL

(* Until WriteBlock refuses a block, run() writes downloaded blocks in the   *)
(* order of their heights and without a gap.                                 *)
THEOREM BlocksWrittenInOrder == Spec => []WritesInOrder
<1>1. SessionInv => WritesInOrder
  <2>1. ASSUME SessionInv, ~failed, run.at = "process"
        PROVE  run.next = tm.fromNo + written /\ Task(run.next).status = "WaitProcessing"
    <3>1. run.next \in Int /\ tm.curNo \in Int /\ run.next < tm.curNo
      BY Zenon, <2>1 DEF SessionInv, RunInv, ManagerInv
    <3>2. run.next \in run.next .. tm.curNo - 1
      BY <3>1
    <3> QED
      BY Zenon, <2>1, <3>2 DEF SessionInv, RunInv
  <2> QED
    BY Zenon, <2>1 DEF WritesInOrder
<1> QED
  BY <1>1, SessionInvariant, PTL

(* A session that ends without an error, and in which WriteBlock refused     *)
(* nothing, has written every block up to the master's head.                 *)
THEOREM SuccessMeansWritten == Spec => []DoneMeansWritten
<1>1. SessionInv => DoneMeansWritten
  <2>1. ASSUME SessionInv, result = "ok", ~failed
        PROVE  tm.fromNo + written = tm.toNo + 1
    <3>1. tm.curNo = tm.toNo + 1 /\ run.at = "ended"
      BY Zenon, <2>1 DEF SessionInv, ResultInv, isDone
    <3> QED
      BY Zenon, <2>1, <3>1 DEF SessionInv, RunInv
  <2> QED
    BY Zenon, <2>1 DEF DoneMeansWritten
<1> QED
  BY <1>1, SessionInvariant, PTL
=============================================================================
