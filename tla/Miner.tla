------------------------------- MODULE Miner -------------------------------
(***************************************************************************)
(* miner: Start, Stop and the callbacks of the download and transaction     *)
(* events run on goroutines of their own and share atomic flags; waitBlock   *)
(* goroutines receive what the workers (StartMining) find.                   *)
(***************************************************************************)
EXTENDS Integers, Sequences, FiniteSets, Bags

CONSTANTS Caller,    \* goroutines that call the miner: RPC, events
          Waiter,    \* bound: waitBlock goroutines that can be alive together
          Threads,   \* workers per task
          ThreadArgs,\* the numbers of threads that RPC callers ask for
          MaxFormer  \* bound on workers of former tasks

ASSUME ThreadsAssumption == Threads \in Nat \ {0} /\ ThreadArgs \subseteq Nat

VARIABLES flag,      \* the fields of Miner that are atomic or plain integers
          stopChan,  \* tokens in the channel, which has room for one
          recv,      \* results in the channel, which has room for one
          pc,        \* where a caller or a waiter is
          back,      \* where its call of prepareNewBlock returns to
          sent,      \* tokens that a call of Stop has sent: its variable i
          task,      \* the argument of a goroutine's call of commitTask
          workers    \* the workers: a bag of <<task, state>>

(* miner.current is compared with the tasks of results only: a task is the   *)
(* current one or a former one.  A result is that of a task, or nil.         *)
Task == {"current", "former"}

vars == <<flag, stopChan, recv, pc, back, sent, task, workers>>

Goroutine == Caller \cup Waiter
Home(g) == IF g \in Caller THEN "idle" ELSE "wait"

Init ==
  /\ flag = [mining |-> 0, canStart |-> 1, isFirstDownloader |-> 1,
             isFirstBlockPrepared |-> 0, isNonceFound |-> 0, threads |-> 0]
  /\ stopChan = 0 /\ recv = <<>>
  /\ pc = [g \in Goroutine |-> IF g \in Caller THEN "idle" ELSE "none"]
  /\ back = [g \in Goroutine |-> Home(g)]
  /\ sent = [c \in Caller |-> 0]
  /\ task = [g \in Goroutine |-> "current"]
  /\ workers = EmptyBag

(* g goes from one place to another; Set also stores a flag. *)
Goto(g, from, to) == pc[g] = from /\ pc' = [pc EXCEPT ![g] = to]
Jump(g, from, to) ==
  Goto(g, from, to) /\ UNCHANGED <<flag, stopChan, recv, back, sent, task, workers>>
Set(g, from, to, new) ==
  /\ Goto(g, from, to) /\ flag' = new
  /\ UNCHANGED <<stopChan, recv, back, sent, task, workers>>
-----------------------------------------------------------------------------
(* The bound on waitBlock goroutines: every call of Start that is on its way  *)
(* has one left to start, so that StoreRunning never waits.                   *)
Starting == {"downloaded", "allow", "start", "checkCanStart", "running"}
CanWait ==
  Cardinality({w \in Waiter : pc[w] = "none"}) > Cardinality({c \in Caller : pc[c] \in Starting})

(* The calls.  PublicMinerAPI.Start sets the number of threads first, Stop   *)
(* over RPC asks IsMining.                                                   *)
CallStart(c) ==
  CanWait /\ \E n \in ThreadArgs : Set(c, "idle", "start", [flag EXCEPT !.threads = n])
CallStop(c) == flag.mining = 1 /\ Jump(c, "idle", "stop")
CallNewTx(c) == Jump(c, "idle", "newTx")

(* downloadEventCallback *)
DownloaderStart(c) == flag.isFirstDownloader = 1 /\ Jump(c, "idle", "downloading")
ForbidStart(c) == Set(c, "downloading", "isMining", [flag EXCEPT !.canStart = 0])
IsMining(c) == Jump(c, "isMining", IF flag.mining = 1 THEN "stop" ELSE "idle")
DownloaderDone(c) == CanWait /\ flag.isFirstDownloader = 1 /\ Jump(c, "idle", "downloaded")
StoreNotFirst(c) == Set(c, "downloaded", "allow", [flag EXCEPT !.isFirstDownloader = 0])
AllowStart(c) == Set(c, "allow", "start", [flag EXCEPT !.canStart = 1])

(* Start *)
CheckMining(c) == Jump(c, "start", IF flag.mining = 1 THEN "idle" ELSE "checkCanStart")
CheckCanStart(c) == Jump(c, "checkCanStart", IF flag.canStart = 0 THEN "idle" ELSE "running")
StoreRunning(c) ==
  /\ pc[c] = "running"
  /\ flag' = [flag EXCEPT !.mining = 1]
  /\ LET w == CHOOSE w \in Waiter : pc[w] = "none"
     IN  pc' = [pc EXCEPT ![c] = "checkFirst", ![w] = "wait"]
  /\ UNCHANGED <<stopChan, recv, back, sent, task, workers>>
CheckFirst(c) ==
  /\ Goto(c, "checkFirst", IF flag.isFirstBlockPrepared = 0 THEN "prepare" ELSE "idle")
  /\ back' = [back EXCEPT ![c] = IF flag.isFirstBlockPrepared = 0 THEN "prepared" ELSE @]
  /\ UNCHANGED <<flag, stopChan, recv, sent, task, workers>>
StoreFirst(c) ==
  /\ Goto(c, "prepared", "idle") /\ flag' = [flag EXCEPT !.isFirstBlockPrepared = 1]
  /\ back' = [back EXCEPT ![c] = "idle"]
  /\ UNCHANGED <<stopChan, recv, sent, task, workers>>

(* Stop: miner.threads is read anew in every turn of the loop. *)
StoreStopped(c) == Set(c, "stop", "send", [flag EXCEPT !.mining = 0])
SendStop(c) ==
  /\ pc[c] = "send" /\ sent[c] < flag.threads /\ stopChan = 0
  /\ stopChan' = 1 /\ sent' = [sent EXCEPT ![c] = @ + 1]
  /\ UNCHANGED <<flag, recv, pc, back, task, workers>>
StopReturns(c) ==
  /\ sent[c] >= flag.threads
  /\ Goto(c, "send", "idle") /\ sent' = [sent EXCEPT ![c] = 0]
  /\ UNCHANGED <<flag, stopChan, recv, back, task, workers>>
-----------------------------------------------------------------------------
(* newTxCallback *)
NewTx(g) == Jump(g, "newTx", IF flag.canStart = 1 THEN "swap" ELSE Home(g))

(* Mutant: the goroutine tries again until it has the flag. *)
CompareAndSwapSpins(g) ==
  Set(g, "swap", IF flag.mining = 0 THEN "prepare" ELSE "swap", [flag EXCEPT !.mining = 1])

CompareAndSwap(g) ==
  Set(g, "swap", IF flag.mining = 0 THEN "prepare" ELSE Home(g), [flag EXCEPT !.mining = 1])

(* prepareNewBlock: a new task becomes the current one; GetCopy fails, or    *)
(* the transactions are applied and miner.current is handed to commitTask.    *)
(* More workers of former tasks would only send more results that are        *)
(* ignored: any MaxFormer of them are kept.                                  *)
Former(t) == IF t = "current" THEN "former" ELSE t
Prepare(g) ==
  /\ Goto(g, "prepare", "apply")
  /\ recv' = [i \in DOMAIN recv |-> Former(recv[i])]
  /\ task' = [h \in Goroutine |-> IF pc[h] \in {"check", "commit"} THEN "former" ELSE "current"]
  /\ LET all == BagOfAll(LAMBDA x : <<Former(x[1]), x[2]>>, workers)
     IN \E kept \in SubBag(all) :
          /\ BagCardinality(kept) = IF BagCardinality(all) > MaxFormer THEN MaxFormer ELSE BagCardinality(all)
          /\ workers' = kept
  /\ UNCHANGED <<flag, stopChan, back, sent>>
ApplyFails(g) == Set(g, "apply", back[g], [flag EXCEPT !.mining = 0])
Apply(g) == Jump(g, "apply", "check")

(* commitTask: the check of mining, then the workers of the task it was given, *)
(* which another goroutine may have replaced as miner.current.                 *)
StillMining(g) ==
  /\ Goto(g, "check", IF flag.mining = 1 THEN "commit" ELSE back[g])
  /\ task' = [task EXCEPT ![g] = IF flag.mining = 1 THEN @ ELSE "current"]
  /\ UNCHANGED <<flag, stopChan, recv, back, sent, workers>>
CommitTask(g) ==
  /\ Goto(g, "commit", back[g])
  /\ LET n == IF flag.threads = 0 THEN Threads ELSE flag.threads
     IN /\ flag' = [flag EXCEPT !.threads = n, !.isNonceFound = 0]
        /\ workers' = workers (+) [x \in {<<task[g], "mining">>} |-> n]
  /\ task' = [task EXCEPT ![g] = "current"]
  /\ UNCHANGED <<stopChan, recv, back, sent>>
-----------------------------------------------------------------------------
(* waitBlock: a nil result, and one of a former task, is ignored.  Mutant:   *)
(* it is put back.                                                           *)
ReceivePutsBack(w) ==
  /\ recv # <<>> /\ recv' = IF Head(recv) = "current" THEN <<>> ELSE recv
  /\ Goto(w, "wait", IF Head(recv) = "current" THEN "save" ELSE "wait")
  /\ UNCHANGED <<flag, stopChan, back, sent, task, workers>>

Receive(w) ==
  /\ recv # <<>> /\ recv' = <<>>
  /\ Goto(w, "wait", IF Head(recv) = "current" THEN "save" ELSE "wait")
  /\ UNCHANGED <<flag, stopChan, back, sent, task, workers>>

(* saveBlock *)
SaveBlock(w) == Jump(w, "save", "saved")
SaveFails(w) == Jump(w, "save", "wait")
MineNext(w) == Set(w, "saved", "newTx", [flag EXCEPT !.mining = 0])

WaiterStops(w) ==
  /\ stopChan = 1 /\ stopChan' = 0
  /\ Goto(w, "wait", "none")
  /\ UNCHANGED <<flag, recv, back, sent, task, workers>>
-----------------------------------------------------------------------------
(* StartMining: one worker of task t goes from one state to another. *)
One(t, state) == SetToBag({<<t, state>>})
Has(t, state) == BagIn(<<t, state>>, workers)
Move(t, from, to) ==
  Has(t, from) /\ workers' = (workers (-) One(t, from)) (+) (IF to = "ended" THEN EmptyBag ELSE One(t, to))

Abort(t, state) ==
  /\ stopChan = 1 /\ stopChan' = 0
  /\ Move(t, state, "ended")
  /\ UNCHANGED <<flag, recv, pc, back, sent, task>>

FoundByOther(t) ==
  /\ flag.isNonceFound = 1
  /\ Move(t, "mining", "ended")
  /\ UNCHANGED <<flag, stopChan, recv, pc, back, sent, task>>

Find(t) ==
  /\ flag.isNonceFound = 0
  /\ Move(t, "mining", "found")
  /\ UNCHANGED <<flag, stopChan, recv, pc, back, sent, task>>

SendResult(t) ==
  /\ recv = <<>> /\ recv' = <<t>>
  /\ Move(t, "found", "sent")
  /\ UNCHANGED <<flag, stopChan, pc, back, sent, task>>

StoreFound(t) ==
  /\ flag' = [flag EXCEPT !.isNonceFound = 1]
  /\ Move(t, "sent", "ended")
  /\ UNCHANGED <<stopChan, recv, pc, back, sent, task>>

(* No nonce of the worker's range is good: it sends nil, or is aborted. *)
Outage(t) ==
  /\ flag.isNonceFound = 0
  /\ recv = <<>> /\ recv' = <<"nil">>
  /\ Move(t, "mining", "ended")
  /\ UNCHANGED <<flag, stopChan, pc, back, sent, task>>
-----------------------------------------------------------------------------
GoOn(c) ==
  \/ CheckMining(c) \/ CheckCanStart(c) \/ StoreRunning(c) \/ CheckFirst(c) \/ StoreFirst(c)
  \/ ForbidStart(c) \/ IsMining(c) \/ StoreNotFirst(c) \/ AllowStart(c)
  \/ StoreStopped(c) \/ SendStop(c) \/ StopReturns(c)
Mine(g) ==
  \/ NewTx(g) \/ CompareAndSwap(g)
  \/ Prepare(g) \/ Apply(g) \/ StillMining(g) \/ CommitTask(g)
WaitBlock(w) == Receive(w) \/ SaveBlock(w) \/ MineNext(w) \/ WaiterStops(w)
StartMining(t) ==
  \/ FoundByOther(t) \/ Find(t) \/ SendResult(t) \/ StoreFound(t)
  \/ \E state \in {"mining", "found"} : Abort(t, state)

Internal ==
  \/ \E c \in Caller : GoOn(c)
  \/ \E g \in Goroutine : Mine(g)
  \/ \E w \in Waiter : WaitBlock(w)
  \/ \E t \in Task : StartMining(t)

(* All that the node does with the miner.  Faults: the state of the current  *)
(* block is not in the database, blocks are refused, ranges are exhausted.    *)
Calls ==
  \E c \in Caller : \/ CallStart(c) \/ CallStop(c) \/ CallNewTx(c)
                    \/ DownloaderStart(c) \/ DownloaderDone(c)
Faults ==
  \/ \E g \in Goroutine : ApplyFails(g)
  \/ \E w \in Waiter : SaveFails(w)
  \/ \E t \in Task : Outage(t)

(* Every goroutine goes on while it can.  A worker that searches finds a      *)
(* nonce or comes to the end of its range.                                    *)
Fairness ==
  /\ \A c \in Caller : WF_vars(GoOn(c))
  /\ \A g \in Goroutine : WF_vars(Mine(g))
  /\ \A w \in Waiter : WF_vars(WaitBlock(w))
  /\ \A t \in Task : WF_vars(StartMining(t))

(* The miner of a user who starts and stops it, with no event from elsewhere. *)
UserCalls == \E c \in Caller : CallStart(c) \/ CallStop(c)
UserSpec == Init /\ [][Internal \/ UserCalls]_vars /\ Fairness

FaultSpec == Init /\ [][Internal \/ Calls \/ Faults]_vars /\ Fairness
-----------------------------------------------------------------------------
Stopping == stopChan = 1 \/ \A w \in Waiter : pc[w] = "none"

(* Unless the miner is being stopped, or has no waitBlock goroutine left, the *)
(* channel of results is emptied again, whatever comes first: results of      *)
(* former tasks, nil results, blocks that are refused.  A worker that has     *)
(* found a nonce is not stuck on the channel while the miner runs.            *)
ResultsReceived == recv # <<>> ~> recv = <<>> \/ Stopping

(* The goroutine that a new transaction starts (newTxCallback) ends, whether  *)
(* it prepares a block or another one mines already.                          *)
CallbacksReturn == \A c \in Caller : pc[c] = "newTx" ~> pc[c] = "idle"

(* Somebody prepares a block or looks for its nonce, or has found it. *)
AtWork ==
  \/ \E g \in Goroutine : pc[g] \in {"newTx", "swap", "prepare", "apply", "check", "commit", "save", "saved"}
  \/ \E state \in {"mining", "found"} : Has("current", state)
  \/ recv = <<"current">>

StartReturns(c) == pc[c] \in {"checkFirst", "prepared"} /\ pc'[c] = "idle"

(* "Start is used to start the miner" (miner/miner.go:87): when it returns     *)
(* without an error, somebody is at work on a block, unless the miner is       *)
(* stopped already.                                                            *)
StartStarts == [][(\E c \in Caller : StartReturns(c)) => (flag.mining = 0 \/ AtWork)']_vars
=============================================================================
