----------------------------- MODULE Downloader -----------------------------
(***************************************************************************)
(* One synchronisation session of the block downloader                     *)
(* (seele/download): the caller in Synchronise, one peerDownload routine   *)
(* per connection, the task manager they share and its run() goroutine,    *)
(* the peers' answers on their way (in order per connection, as TCP        *)
(* delivers them), and connections that come and go.                       *)
(*                                                                         *)
(* A peer is known by its peerID, and may be connected again after it      *)
(* left, or once more while it is connected: d.peers holds the latest      *)
(* connection of a peerID, tasks and headers belong to the peerID, and     *)
(* routines, channels and answers to the connection.                       *)
(*                                                                         *)
(* A block or header is its height.  The chain of peer p has height        *)
(* Top[p] and agrees with the master's up to Same[p].  An answer is what   *)
(* handleMsg of seeleprotocol.go sends; it sends nothing when it lacks one *)
(* of the heights asked for.                                               *)
(***************************************************************************)
EXTENDS Integers, Sequences, FiniteSets, FiniteSetsExt, Functions

CONSTANTS Peer,             \* the peerIDs
          Conn,             \* the connections: peerConn objects
          NoConn,
          peerID,           \* [Conn -> Peer]
          Master,           \* the peerID Synchronise is called with
          Heavier,          \* peers whose total difficulty exceeds the local one
          Late,             \* connections that register only during the session
          MaxConn,          \* bound: how many connections there are in a session
          Top, Same,        \* [Peer -> Nat]
          LocalChains,      \* what the local chain may be: its height, and the
                            \* height up to which it agrees with the master's
          MaxHeaderFetch, MaxBlockFetch, MaxForkAncestry, maxBlocksWaiting

ASSUME DownloaderAssumption ==
    /\ Master \in Peer /\ Master \in Heavier /\ Heavier \subseteq Peer
    /\ NoConn \notin Conn /\ peerID \in [Conn -> Peer] /\ Late \subseteq Conn
    /\ MaxConn \in Nat
    /\ \A c, d \in Conn \ Late : peerID[c] = peerID[d] => c = d
    /\ Top \in [Peer -> Nat] /\ Same \in [Peer -> Nat]
    /\ \A p \in Peer : Same[p] <= Top[p]
    /\ \A c \in LocalChains :
           c.height \in Nat /\ c.fork \in 0 .. Min({c.height, Top[Master]})
    /\ {MaxHeaderFetch, MaxBlockFetch, MaxForkAncestry, maxBlocksWaiting}
           \subseteq Nat \ {0}

VARIABLES
    syncStatus,   \* Downloader.syncStatus
    cancelCh,     \* "nil", "open" or "closed"
    conn,         \* [Conn -> "absent", "up" (in d.peers), "replaced" there by
                  \* another, or "closed": removed, and quitCh closed]
    open,         \* the connections whose handleMsg runs
    doubled,      \* history: peers that have had two such connections at a time
    sess,         \* where the caller of Synchronise is
    via,          \* the connection it found in d.peers
    local,        \* the local chain when the session begins
    cmpCount,     \* findCommonAncestorHeight's cmpCount
    result,       \* what doSynchronise returned: "none", "ok", "err"
    tm,           \* the task manager: fromNo, toNo, curNo, masterHeaderList,
                  \* every peer's headers, and whether quitCh is closed
    routine,      \* [Conn -> where the peerDownload routine of it is]
    hasReqData,   \* [Conn -> BOOLEAN]: the local of peerDownload
    net,          \* [Conn -> sequence of answers on their way]
    run,          \* where taskMgr.run is, and the next height it writes
    written,      \* how many blocks from fromNo on WriteBlock has accepted
    failed        \* WriteBlock refused a block

prep == <<via, local, cmpCount>>
session == <<syncStatus, sess, prep, result>>
peers == <<conn, open, doubled>>
links == <<cancelCh, peers>>
fetch == <<routine, hasReqData, net>>
store == <<run, written, failed>>
vars == <<session, links, tm, fetch, store>>

Height == 0 .. Top[Master]

-----------------------------------------------------------------------------
(* Answers and the wait for them.                                          *)

NoTm == [fromNo |-> 0, toNo |-> 0, curNo |-> 0, list |-> <<>>,
         headers |-> [p \in Peer |-> {}], closed |-> TRUE]

\* handleMsg answers a request for the heights lo .. hi, or breaks off.
HeadersAnswer(p, lo, hi) ==
    IF hi <= Top[p] THEN {<<[code |-> "Headers", nums |-> lo .. hi]>>} ELSE {<<>>}

\* The blocks go in two messages; a full message holds at least one block.
BlocksAnswer(p, lo, amount) ==
    IF lo + amount - 1 <= Top[p]
    THEN {<<[code |-> "Pre", nums |-> lo .. hi], [code |-> "Blocks", nums |-> lo .. hi]>> :
              hi \in lo .. lo + amount - 1}
    ELSE {<<>>}

\* An answer is on its way as long as the connection is there.
Sent(c, a) == [net EXCEPT ![c] = IF c \in open THEN @ \o a ELSE @]

\* What waitMsg has registered in the connection's waitingMsgMap.
WaitingFor(c) ==
    CASE c = via /\ sess \in {"heightWait", "ancestorWait"} -> "Headers"
      [] routine[c] = "headersWait" -> "Headers"
      [] routine[c] = "preWait"     -> "Pre"
      [] routine[c] = "blocksWait"  -> "Blocks"
      [] OTHER                      -> "nothing"

\* waitMsg and the idle select return without a message.
Interrupted(c) == cancelCh = "closed" \/ conn[c] = "closed"

\* d.lock is free: Synchronise holds it only for its last sessionWG.Wait.
LockFree == sess # "lastWait"

Routines == {c \in Conn : routine[c] # "none"}

Cancelled == IF cancelCh = "open" THEN "closed" ELSE cancelCh

-----------------------------------------------------------------------------
(* The task manager's operations, each under its lock.                     *)

isDone == tm.curNo = tm.toNo + 1

At(h) == h - tm.fromNo + 1
Listed == tm.fromNo .. tm.fromNo + Len(tm.list) - 1
Pending == {h \in Listed : h >= tm.curNo}
Task(h) == tm.list[At(h)]
SetTasks(hs, t) ==
    [i \in DOMAIN tm.list |-> IF i + tm.fromNo - 1 \in hs THEN t ELSE tm.list[i]]

\* Downloading tasks assigned to p that are still ahead of curNo.
Assigned(p) == {h \in Pending : Task(h) = [status |-> "Downloading", peer |-> p]}
Idle == [status |-> "Idle", peer |-> "nobody"]

KeptHeaders(p) == {h \in tm.headers[p] : h >= tm.curNo}

\* maxNo is the largest kept header: headers are only added above it.
ReqHeaderStart(p) ==
    IF p = Master THEN tm.fromNo + Len(tm.list)
    ELSE IF KeptHeaders(p) = {} THEN tm.curNo ELSE Max(KeptHeaders(p)) + 1

ReqHeaderAmount(p) ==
    LET start == ReqHeaderStart(p)
    IN IF \/ p = Master /\ start - tm.curNo > maxBlocksWaiting
          \/ start = tm.toNo + 1
          \/ start - tm.curNo >= MaxHeaderFetch
       THEN 0
       ELSE Min({MaxHeaderFetch, tm.toNo + 1 - start})

\* Heights p can be asked for: idle, and p has the master's block there.
Wanted(p) ==
    {h \in Pending : Task(h).status = "Idle" /\ h \in tm.headers[p] /\ h <= Same[p]}

\* The first such height and those that follow it without a gap.
getReqBlocks(p) ==
    LET start == Min(Wanted(p))
        InRun(h) == start .. h \subseteq Wanted(p)
    IN IF Wanted(p) = {} THEN {}
       ELSE {h \in start .. start + MaxBlockFetch - 1 : InRun(h)}

\* Mutant: tasks of a peer that quits are not given back.
onPeerQuitKeeps(p) == tm

onPeerQuit(p) == [tm EXCEPT !.list = SetTasks(Assigned(p), Idle)]

deliverHeaderMsg(p, nums) ==
    [tm EXCEPT !.headers[p] = @ \cup nums,
               !.list = IF p = Master THEN @ \o [i \in 1 .. Cardinality(nums) |-> Idle]
                        ELSE @]

deliverBlockPreMsg(p, nums) ==
    [tm EXCEPT !.list = SetTasks(Assigned(p) \ nums, Idle)]

deliverBlockMsg(p, nums) ==
    [tm EXCEPT !.list =
        SetTasks({h \in nums : Task(h).peer = p},
                 [status |-> "WaitProcessing", peer |-> p])]

-----------------------------------------------------------------------------
(* The caller: Synchronise and doSynchronise.                              *)

Synchronise ==
    /\ sess = "idle"
    /\ syncStatus = "None"
    /\ \/ \E c \in Conn :
             /\ conn[c] = "up" /\ peerID[c] = Master /\ via' = c
             /\ sess' = "height" /\ syncStatus' = "Preparing" /\ cancelCh' = "open"
       \/ /\ \A c \in Conn : peerID[c] = Master => conn[c] # "up"
          /\ sess' = "done" /\ syncStatus' = "None" /\ cancelCh' = "closed"
          /\ UNCHANGED via
    /\ UNCHANGED <<local, cmpCount, result, peers, tm, fetch, store>>

doSynchroniseReturns(r) == sess' = "return" /\ result' = r

\* fetchHeight and each round of findCommonAncestorHeight: the request is
\* sent by a goroutine of its own, then waitMsg registers for the answer.
localTop == Min({local.height, Top[Master]})
maxFetchAncestry == IF localTop >= MaxForkAncestry THEN MaxForkAncestry ELSE localTop + 1
fetchCount == Min({MaxHeaderFetch, maxFetchAncestry - cmpCount})

RequestHeight ==
    /\ sess = "height"
    /\ \E a \in HeadersAnswer(Master, Top[Master], Top[Master]) :
           net' = Sent(via, a)
    /\ sess' = "heightSent"
    /\ UNCHANGED <<prep, syncStatus, result, links, tm, routine, hasReqData, store>>

\* newTaskMgr starts run() at once.
NewTaskMgr(ancestor) ==
    /\ tm' = [NoTm EXCEPT !.fromNo = ancestor + 1, !.toNo = Top[Master],
                          !.curNo = ancestor + 1, !.closed = FALSE]
    /\ run' = [at |-> "sleep", next |-> ancestor + 1]

RequestAncestor ==
    /\ sess = "ancestor"
    /\ \/ /\ localTop = 0
          /\ NewTaskMgr(0)
          /\ sess' = "start"
          /\ UNCHANGED <<result, net>>
       \/ /\ localTop > 0 /\ fetchCount = 0
          /\ doSynchroniseReturns("err")
          /\ UNCHANGED <<tm, run, net>>
       \/ /\ localTop > 0 /\ fetchCount > 0
          /\ \E a \in HeadersAnswer(Master, localTop - cmpCount - fetchCount + 1,
                                    localTop - cmpCount) :
                 net' = Sent(via, a)
          /\ sess' = "ancestorSent"
          /\ UNCHANGED <<result, tm, run>>
    /\ UNCHANGED <<prep, syncStatus, links, routine, hasReqData, written, failed>>

RegisterWait ==
    /\ \/ sess = "heightSent" /\ sess' = "heightWait"
       \/ sess = "ancestorSent" /\ sess' = "ancestorWait"
    /\ UNCHANGED <<prep, syncStatus, result, links, tm, fetch, store>>

PrepareInterrupted ==
    /\ sess \in {"heightWait", "ancestorWait"}
    /\ Interrupted(via)
    /\ doSynchroniseReturns("err")
    /\ UNCHANGED <<prep, syncStatus, links, tm, fetch, store>>

\* The message received is the headers of nums: the master's head, or a
\* stretch of its chain to compare with the local one.
PrepareReceives(nums) ==
    \/ /\ sess = "heightWait"
       /\ sess' = "ancestor"
       /\ UNCHANGED <<cmpCount, tm, run>>
    \/ /\ sess = "ancestorWait"
       /\ cmpCount' = cmpCount + Cardinality(nums)
       /\ IF \E h \in nums : h <= local.fork
          THEN NewTaskMgr(Max({h \in nums : h <= local.fork})) /\ sess' = "start"
          ELSE sess' = "ancestor" /\ UNCHANGED <<tm, run>>

\* A routine for every connection in d.peers with a larger total difficulty.
StartFetching ==
    /\ sess = "start"
    /\ syncStatus' = "Fetching"
    /\ routine' = [c \in Conn |-> IF conn[c] = "up" /\ peerID[c] \in Heavier
                                  THEN "loop" ELSE routine[c]]
    /\ sess' = "wait"
    /\ UNCHANGED <<prep, result, links, tm, hasReqData, net, store>>

SessionWait ==
    /\ sess = "wait"
    /\ Routines = {}
    /\ sess' = "over"
    /\ UNCHANGED <<prep, syncStatus, result, links, tm, fetch, store>>

\* A peer may register between the wait and this step; then tm.close closes
\* quitCh ...
SessionOver ==
    /\ sess = "over"
    /\ syncStatus' = "Cleaning"
    /\ sess' = "cleaning"
    /\ UNCHANGED <<prep, result, links, tm, fetch, store>>

CloseTaskMgr ==
    /\ sess = "cleaning"
    /\ tm' = [tm EXCEPT !.closed = TRUE]
    /\ sess' = "join"
    /\ UNCHANGED <<prep, syncStatus, result, links, fetch, store>>

\* Mutant: close() without wg.Wait.
JoinRunEarly ==
    /\ sess = "join"
    /\ doSynchroniseReturns(IF isDone THEN "ok" ELSE "err")
    /\ UNCHANGED <<prep, syncStatus, links, tm, fetch, store>>

\* ... and waits for run() to end; doSynchronise returns what isDone says.
JoinRun ==
    /\ sess = "join"
    /\ run.at = "ended"
    /\ doSynchroniseReturns(IF isDone THEN "ok" ELSE "err")
    /\ UNCHANGED <<prep, syncStatus, links, tm, fetch, store>>

\* The rest of Synchronise: with the lock held, wait for the routines again.
TakeLock ==
    /\ sess = "return"
    /\ syncStatus' = "None"
    /\ sess' = "lastWait"
    /\ UNCHANGED <<prep, result, links, tm, fetch, store>>

Return ==
    /\ sess = "lastWait"
    /\ Routines = {}
    /\ cancelCh' = "nil"
    /\ sess' = "done"
    /\ UNCHANGED <<prep, syncStatus, result, peers, tm, fetch, store>>

-----------------------------------------------------------------------------
(* A peerDownload routine.                                                 *)

\* From the loop's test to the request for headers.
LoopHead(c) ==
    /\ routine[c] = "loop"
    /\ routine' = [routine EXCEPT ![c] = IF isDone THEN "quit" ELSE "getHeaders"]
    /\ hasReqData' = [hasReqData EXCEPT ![c] = FALSE]
    /\ UNCHANGED <<session, links, tm, net, store>>

\* getReqHeaderInfo and RequestHeadersByHashOrNumber, which may fail.
RequestHeaders(c) ==
    LET p == peerID[c]
        start == ReqHeaderStart(p)
        amount == ReqHeaderAmount(p)
    IN /\ routine[c] = "getHeaders"
       /\ tm' = [tm EXCEPT !.headers[p] = KeptHeaders(p)]
       /\ \/ /\ amount = 0
             /\ routine' = [routine EXCEPT ![c] = "getBlocks"]
             /\ UNCHANGED <<hasReqData, net>>
          \/ /\ amount > 0
             /\ hasReqData' = [hasReqData EXCEPT ![c] = TRUE]
             /\ \/ /\ routine' = [routine EXCEPT ![c] = "headersSent"]
                   /\ \E a \in HeadersAnswer(p, start, start + amount - 1) :
                          net' = Sent(c, a)
                \/ /\ routine' = [routine EXCEPT ![c] = "quit"]
                   /\ UNCHANGED net
       /\ UNCHANGED <<session, links, store>>

\* getReqBlocks and RequestBlocksByHashOrNumber, which may fail; with
\* nothing to request in the whole round the routine goes idle.
RequestBlocks(c) ==
    LET p == peerID[c]
        ask == getReqBlocks(p)
    IN /\ routine[c] = "getBlocks"
       /\ \/ /\ ask = {}
             /\ routine' = [routine EXCEPT ![c] = IF hasReqData[c] THEN "loop" ELSE "idle"]
             /\ UNCHANGED <<hasReqData, net, tm>>
          \/ /\ ask # {}
             /\ tm' = [tm EXCEPT !.list =
                          SetTasks(ask, [status |-> "Downloading", peer |-> p])]
             /\ hasReqData' = [hasReqData EXCEPT ![c] = TRUE]
             /\ \/ /\ routine' = [routine EXCEPT ![c] = "blocksSent"]
                   /\ \E a \in BlocksAnswer(p, Min(ask), Cardinality(ask)) :
                          net' = Sent(c, a)
                \/ /\ routine' = [routine EXCEPT ![c] = "quit"]
                   /\ UNCHANGED net
       /\ UNCHANGED <<session, links, store>>

\* waitMsg registers its channel, after the request has gone out.
waitMsg(c) ==
    /\ \/ routine[c] = "headersSent" /\ routine' = [routine EXCEPT ![c] = "headersWait"]
       \/ routine[c] = "blocksSent" /\ routine' = [routine EXCEPT ![c] = "preWait"]
       \/ routine[c] = "preDone" /\ routine' = [routine EXCEPT ![c] = "blocksWait"]
    /\ UNCHANGED <<session, links, tm, hasReqData, net, store>>

\* Mutant: the idle select listens to neither cancelCh nor quitCh.
WaitInterruptedNotIdle(c) ==
    /\ routine[c] \in {"headersWait", "preWait", "blocksWait"}
    /\ Interrupted(c)
    /\ routine' = [routine EXCEPT ![c] = "quit"]
    /\ UNCHANGED <<session, links, tm, hasReqData, net, store>>

WaitInterrupted(c) ==
    /\ routine[c] \in {"headersWait", "preWait", "blocksWait", "idle"}
    /\ Interrupted(c)
    /\ routine' = [routine EXCEPT ![c] = "quit"]
    /\ UNCHANGED <<session, links, tm, hasReqData, net, store>>

\* peerIdleTime is over; the other cases of the select were not ready.
IdleOver(c) ==
    /\ routine[c] = "idle"
    /\ ~Interrupted(c)
    /\ routine' = [routine EXCEPT ![c] = "loop"]
    /\ UNCHANGED <<session, links, tm, hasReqData, net, store>>

OnPeerQuit(c) ==
    /\ routine[c] = "quit"
    /\ tm' = onPeerQuit(peerID[c])
    /\ routine' = [routine EXCEPT ![c] = IF peerID[c] = Master THEN "cancel" ELSE "none"]
    /\ UNCHANGED <<session, links, hasReqData, net, store>>

MasterCancels(c) ==
    /\ routine[c] = "cancel"
    /\ LockFree
    /\ cancelCh' = Cancelled
    /\ routine' = [routine EXCEPT ![c] = "none"]
    /\ UNCHANGED <<session, peers, tm, hasReqData, net, store>>

PeerDownload(c) ==
    \/ LoopHead(c) \/ RequestHeaders(c) \/ RequestBlocks(c) \/ waitMsg(c)
    \/ WaitInterrupted(c) \/ IdleOver(c) \/ OnPeerQuit(c) \/ MasterCancels(c)

-----------------------------------------------------------------------------
(* Messages: handleMsg of a connection hands the next answer to the one    *)
(* that d.peers holds for its peerID, if a waitMsg there has registered for *)
(* its code, and drops it otherwise.                                       *)

RoutineReceives(c, nums) ==
    LET p == peerID[c]
    IN \/ /\ routine[c] = "headersWait"
          /\ IF p = Master /\ Min(nums) # tm.fromNo + Len(tm.list)
             THEN routine' = [routine EXCEPT ![c] = "quit"] /\ UNCHANGED tm
             ELSE /\ routine' = [routine EXCEPT ![c] = "getBlocks"]
                  /\ tm' = deliverHeaderMsg(p, nums)
       \/ /\ routine[c] = "preWait"
          /\ tm' = deliverBlockPreMsg(p, nums)
          /\ routine' = [routine EXCEPT ![c] = "preDone"]
       \/ /\ routine[c] = "blocksWait"
          /\ tm' = deliverBlockMsg(p, nums)
          /\ routine' = [routine EXCEPT ![c] = "loop"]

Receivers(c, code) ==
    {d \in Conn : conn[d] = "up" /\ peerID[d] = peerID[c] /\ WaitingFor(d) = code}

DeliverMsg(c) ==
    /\ c \in open /\ net[c] # <<>>
    /\ LockFree
    /\ net' = [net EXCEPT ![c] = Tail(@)]
    /\ LET msg == Head(net[c])
           to == Receivers(c, msg.code)
       IN \/ /\ to # {} /\ sess \in {"heightWait", "ancestorWait"}
             /\ PrepareReceives(msg.nums)
             /\ UNCHANGED routine
          \/ /\ sess \notin {"heightWait", "ancestorWait"}
             /\ \E d \in to : RoutineReceives(d, msg.nums)
             /\ UNCHANGED <<sess, cmpCount, run>>
          \/ /\ to = {}
             /\ UNCHANGED <<sess, cmpCount, tm, run, routine>>
    /\ UNCHANGED <<via, local, syncStatus, result, links, hasReqData, written, failed>>

-----------------------------------------------------------------------------
(* taskMgr.run.                                                            *)

\* Mutant: blocks are taken across a gap.
TakeableAny == {h \in Pending : Task(h).status = "WaitProcessing"}

\* Under the lock: the blocks from curNo on that wait to be processed are
\* taken, and curNo moves past them before any of them is written.
Takeable ==
    {h \in Pending : \A g \in tm.curNo .. h : Task(g).status = "WaitProcessing"}

RunTakes ==
    /\ run.at = "sleep"
    /\ Takeable # {}
    /\ tm' = [tm EXCEPT !.curNo = @ + Cardinality(Takeable)]
    /\ run' = [at |-> "process", next |-> tm.curNo]
    /\ UNCHANGED <<session, links, fetch, written, failed>>

\* One turn of processBlocks: WriteBlock accepts the block, whose parent is
\* then on the chain ...
RunWrites ==
    /\ run.at = "process"
    /\ run.next = tm.fromNo + written
    /\ written' = written + 1
    /\ tm' = [tm EXCEPT !.list[At(run.next)].status = "Processed"]
    /\ run' = [at |-> IF run.next + 1 = tm.curNo THEN "sleep" ELSE "process",
               next |-> run.next + 1]
    /\ UNCHANGED <<session, links, fetch, failed>>

\* ... or refuses it, which cancels the session and skips the rest.
RunWriteFails ==
    /\ run.at = "process"
    /\ LockFree
    /\ cancelCh' = Cancelled
    /\ failed' = TRUE
    /\ run' = [at |-> "sleep", next |-> tm.curNo]
    /\ UNCHANGED <<session, peers, tm, fetch, written>>

\* quitCh is closed.
RunEnds ==
    /\ run.at = "sleep"
    /\ tm.closed
    /\ run' = [run EXCEPT !.at = "ended"]
    /\ UNCHANGED <<session, links, tm, fetch, written, failed>>

Run == RunTakes \/ RunWrites \/ RunWriteFails \/ RunEnds

-----------------------------------------------------------------------------
(* Connections come and go, and Terminate may cancel at any time.          *)

\* Another connection of the peerID in d.peers is replaced, and goes on.
Holds(d, p) == conn[d] = "up" /\ peerID[d] = p

RegisterPeer(c) ==
    /\ conn[c] = "absent"
    /\ Cardinality({d \in Conn : conn[d] # "absent"}) < MaxConn
    /\ LockFree
    /\ conn' = [d \in Conn |-> IF d = c THEN "up"
                               ELSE IF Holds(d, peerID[c]) THEN "replaced" ELSE conn[d]]
    /\ open' = open \cup {c}
    /\ doubled' = IF \E d \in open : peerID[d] = peerID[c] THEN doubled \cup {peerID[c]}
                  ELSE doubled
    /\ routine' = [routine EXCEPT ![c] = IF syncStatus = "Fetching" THEN "loop" ELSE @]
    /\ UNCHANGED <<session, cancelCh, tm, hasReqData, net, store>>

\* handleMsg of c ends: UnRegisterPeer closes and removes whatever connection
\* d.peers holds for the peerID.
UnRegisterPeer(c) ==
    /\ c \in open
    /\ LockFree
    /\ conn' = [d \in Conn |-> IF Holds(d, peerID[c]) THEN "closed" ELSE conn[d]]
    /\ open' = open \ {c}
    /\ net' = [net EXCEPT ![c] = <<>>]
    /\ UNCHANGED <<session, cancelCh, doubled, tm, routine, hasReqData, store>>

Cancel ==
    /\ cancelCh = "open"
    /\ LockFree
    /\ cancelCh' = Cancelled
    /\ UNCHANGED <<session, peers, tm, fetch, store>>

-----------------------------------------------------------------------------
Init ==
    /\ syncStatus = "None" /\ sess = "idle" /\ cmpCount = 0 /\ result = "none"
    /\ cancelCh = "nil"
    /\ local \in LocalChains
    /\ conn = [c \in Conn |-> IF c \in Late THEN "absent" ELSE "up"]
    /\ open = Conn \ Late /\ doubled = {} /\ via = NoConn
    /\ tm = NoTm
    /\ routine = [c \in Conn |-> "none"]
    /\ hasReqData = [c \in Conn |-> FALSE]
    /\ net = [c \in Conn |-> <<>>]
    /\ run = [at |-> "ended", next |-> 0]
    /\ written = 0 /\ failed = FALSE

Session ==
    \/ Synchronise \/ RequestHeight \/ RequestAncestor \/ RegisterWait
    \/ PrepareInterrupted \/ StartFetching \/ SessionWait \/ SessionOver
    \/ CloseTaskMgr \/ JoinRun \/ TakeLock \/ Return

Next ==
    \/ Session \/ Run \/ Cancel
    \/ \E c \in Conn : \/ PeerDownload(c) \/ DeliverMsg(c)
                       \/ RegisterPeer(c) \/ UnRegisterPeer(c)

\* Goroutines are scheduled, timers fire, and an answer that was sent arrives.
Fairness ==
    /\ WF_vars(Session) /\ WF_vars(Run)
    /\ \A c \in Conn : WF_vars(PeerDownload(c)) /\ WF_vars(DeliverMsg(c))

Spec == Init /\ [][Next]_vars
FairSpec == Spec /\ Fairness

-----------------------------------------------------------------------------
\* A routine of p is between its request for blocks and the delivery, or about
\* to give the tasks of p back in onPeerQuit.
Busy == {"blocksSent", "preWait", "preDone", "blocksWait", "quit"}
BusyFor(p) == \E c \in Conn : peerID[c] = p /\ routine[c] \in Busy

\* Every block marked as downloading is being fetched, by a routine of the
\* peer it is assigned to, whichever peers leave, come back or quit: a task
\* nobody works on would never become idle again, and curNo would never pass
\* it.  (The exception are peers that were connected twice at a time: answers
\* of the one connection then reach the routine of the other.)
TasksAreHeld ==
    \A h \in Pending :
        (Task(h).status = "Downloading" /\ Task(h).peer \notin doubled) =>
            BusyFor(Task(h).peer)

\* Until WriteBlock refuses one, run() hands the blocks to WriteBlock in the
\* order of their heights, without a gap and only once they are downloaded,
\* whichever peers deliver them and in whatever order, so that a block's
\* parent is always on the chain.
WritesInOrder ==
    (~failed /\ run.at = "process") =>
        /\ run.next = tm.fromNo + written
        /\ Task(run.next).status = "WaitProcessing"

\* When doSynchronise returns without an error, and WriteBlock refused
\* nothing, every block up to the master's head has been written, although
\* curNo, which decides the outcome, runs ahead of the writes.
DoneMeansWritten ==
    (result = "ok" /\ ~failed) => tm.fromNo + written = tm.toNo + 1

\* A waitMsg that no answer will end: the answer came before the channel was
\* registered, the peer lacked one of the heights asked for, or another
\* connection has taken the place in d.peers.
Starved ==
    \E c \in Conn :
        /\ WaitingFor(c) # "nothing" /\ ~Interrupted(c)
        /\ conn[c] = "up" =>
               \A d \in open : peerID[d] = peerID[c] => net[d] = <<>>

\* A task of a peer that was connected twice at a time, and that nobody holds.
Orphaned ==
    \E h \in Pending : Task(h).status = "Downloading" /\ ~BusyFor(Task(h).peer)

\* The master left after findCommonAncestorHeight and before its routine was
\* started, so that no routine fetches headers and none cancels.
MasterMissed ==
    /\ sess = "wait" /\ cancelCh = "open"
    /\ \A c \in Conn : peerID[c] = Master => routine[c] = "none"

\* A connection came between the two waits for the routines, and Synchronise
\* holds d.lock while it waits for its routine as well: the master's cannot
\* Cancel, and unless the session was cancelled before, no answer can be
\* delivered to any of them and nobody can cancel.
LockedOut ==
    /\ sess = "lastWait"
    /\ \E c \in Conn \ {via} :
           \/ routine[c] = "cancel"
           \/ routine[c] # "none" /\ cancelCh = "open"

\* Every session ends and gives syncStatus back, whichever peers leave or come
\* back, whatever is cancelled or refused by WriteBlock, unless it stays in one
\* of the four cases above.
SessionEnds ==
    []<>(sess \in {"idle", "done"} \/ Starved \/ Orphaned \/ MasterMissed \/ LockedOut)
=============================================================================
