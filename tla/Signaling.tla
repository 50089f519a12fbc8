------------------------------ MODULE Signaling ------------------------------
(***************************************************************************)
(* The asynchronous signaling of zlibs (module/include/zlibs/utils/        *)
(* signaling/signaling.h and module/src/utils/signaling/signaling.cpp) for *)
(* one Signal type.                                                        *)
(*                                                                         *)
(* Client threads take a node from a slab of PoolSize nodes and put it on  *)
(* a FIFO; one dispatcher thread takes the nodes off and runs them: it     *)
(* publishes or replays a signal on the channel, runs a dispatch_sync()    *)
(* callback, or wakes a drain().  A step of a thread is what it does       *)
(* between two points where another thread's step can matter: an atomic    *)
(* load or store, a lock, the slab, the FIFO, a semaphore, the start and   *)
(* the end of a user's callback.                                           *)
(*                                                                         *)
(* Clients follow the documented contract: callbacks of subscribers do not *)
(* subscribe or unsubscribe, and the dispatcher's thread never calls       *)
(* drain() or dispatch_sync().                                             *)
(***************************************************************************)
EXTENDS Integers, Sequences, FiniteSets

CONSTANTS
  Clients,           \* the threads that use the dispatcher
  PoolSize,          \* CONFIG_ZLIBS_UTILS_SIGNALING_MAX_POOL_SIZE
  MaxCalls,          \* how many calls there are, subscriptions included
  MaxDepth           \* how deep callbacks publish inside callbacks

Dispatcher == "dispatcher"   \* _dispatcher_thread
Owner == "owner"             \* the thread that destroys the singleton
None == "none"
Threads == Clients \cup {Dispatcher}

ASSUME ClientsAssumption ==
  /\ {Dispatcher, Owner, None} \cap Clients = {} /\ IsFiniteSet(Clients)
  /\ PoolSize \in Nat \ {0} /\ MaxCalls \in Nat /\ MaxDepth \in Nat \ {0}

VARIABLES
  lifecycle,     \* _lifecycle
  stop,          \* where request_stop() is
  fifo,          \* _fifo
  free,          \* free nodes of _slab
  enqueueLock,   \* the owner of _enqueue_lock
  generation,    \* _enqueue_generation
  channelLock,   \* the owner of Channel::mutex
  subscribers,   \* Channel::subscribers
  nextId,        \* Channel::next_id
  lastSignal,    \* Channel::last_signal: the n-th published signal is n
  frames,        \* the running Channel::publish() and replay() calls
  loop,          \* where run_loop() is
  running,       \* the node run_loop() handles
  pc, call,      \* where each thread's call is, and which call it is
  before,        \* drain()'s local
  target,        \* the subscription a thread drops
  done,          \* each thread's semaphore
  calls          \* the calls so far

queue == <<fifo, free, enqueueLock, generation>>
channel == <<channelLock, subscribers, nextId, lastSignal, frames>>
dispatch == <<loop, running>>
threads == <<pc, call, before, target, done>>
vars == <<lifecycle, stop, queue, channel, dispatch, threads, calls>>

Job(kind, t) == [kind |-> kind, by |-> t]
NoJob == Job("none", None)

Goto(t, to) == pc' = [pc EXCEPT ![t] = to]
Running == lifecycle = "Running"

\* Only the dispatcher publishes, so publish_depth is its nesting depth.
publish_depth == Len(frames)

SubscriberIds == {subscribers[i].id : i \in DOMAIN subscribers}

-----------------------------------------------------------------------------
(* A client's call: publish(), drain() or dispatch_sync().  When the         *)
(* dispatcher does not run, it returns false and changes nothing.            *)

NewCall(t) == pc[t] = "idle" /\ calls < MaxCalls /\ calls' = calls + 1

Call(t, kind) ==
  /\ NewCall(t) /\ Running
  /\ Goto(t, "allocate")
  /\ call' = [call EXCEPT ![t] = kind]
  /\ UNCHANGED <<lifecycle, stop, queue, channel, dispatch, before, target, done>>

\* Mutants: a subscription whose replay is dropped does not say so; it keeps the
\* channel locked.
Abandon_NotReported(t) ==
  /\ Goto(t, "idle")
  /\ channelLock' = IF call[t] = "replay" THEN None ELSE channelLock
  /\ UNCHANGED <<subscribers, nextId, lastSignal, frames>>
Abandon_KeepsLock(t) ==
  /\ Goto(t, "idle")
  /\ IF call[t] = "replay"
     THEN subscribers' = [subscribers EXCEPT ![Len(subscribers)].dropped = TRUE]
     ELSE UNCHANGED subscribers
  /\ UNCHANGED <<channelLock, nextId, lastSignal, frames>>

\* What follows when a call's node is refused: the call returns false, and
\* subscribe() reports the replay as dropped.
Abandon(t) ==
  /\ Goto(t, "idle")
  /\ IF call[t] = "replay"
     THEN /\ subscribers' = [subscribers EXCEPT ![Len(subscribers)].dropped = TRUE]
          /\ channelLock' = None
     ELSE UNCHANGED <<subscribers, channelLock>>
  /\ UNCHANGED <<nextId, lastSignal, frames>>

\* allocate(): publish() and the replay do not wait, drain() and
\* dispatch_sync() wait for as long as their caller chose.
Allocate(t) ==
  /\ pc[t] = "allocate" /\ free > 0
  /\ free' = free - 1
  /\ Goto(t, IF call[t] = "drain" THEN "lock" ELSE "check")
  /\ UNCHANGED <<lifecycle, stop, fifo, enqueueLock, generation, channel, dispatch,
                 call, before, target, done, calls>>

PoolEmpty(t) ==
  /\ pc[t] = "allocate" /\ free = 0
  /\ Abandon(t)
  /\ UNCHANGED <<lifecycle, stop, queue, dispatch, call, before, target, done, calls>>

NoWaitEmpty(t) == call[t] \in {"publish", "replay"} /\ PoolEmpty(t)
TimesOut(t) == call[t] \in {"drain", "sync"} /\ PoolEmpty(t)

\* Mutants: the refused node is not given back; it is given back twice.
GiveBack_Leaks == UNCHANGED free
GiveBack_Twice == free' = free + 2

\* release() of a node that was not queued.
GiveBack == free' = free + 1

\* The checks before the lock, in publish() and at the top of try_enqueue().
Check(t) ==
  /\ pc[t] = "check"
  /\ \/ Running /\ Goto(t, "lock") /\ UNCHANGED <<free, channel>>
     \/ ~Running /\ GiveBack /\ Abandon(t)
  /\ UNCHANGED <<lifecycle, stop, fifo, enqueueLock, generation, dispatch,
                 call, before, target, done, calls>>

Lock(t) ==
  /\ pc[t] = "lock" /\ enqueueLock = None
  /\ enqueueLock' = t
  /\ Goto(t, "recheck")
  /\ UNCHANGED <<lifecycle, stop, fifo, free, generation, channel, dispatch,
                 call, before, target, done, calls>>

\* The second check, under _enqueue_lock.
Recheck(t) ==
  /\ pc[t] = "recheck"
  /\ \/ Running /\ Goto(t, "put") /\ UNCHANGED <<free, enqueueLock, channel>>
     \/ ~Running /\ GiveBack /\ Abandon(t) /\ enqueueLock' = None
  /\ UNCHANGED <<lifecycle, stop, fifo, generation, dispatch,
                 call, before, target, done, calls>>

\* Mutant: work queued by subscribe() is not counted.
Counted_NoReplay(kind) == kind \in {"publish", "sync"}

\* try_enqueue() counts what it queues, a drain barrier is not counted.
Counted(kind) == kind \in {"publish", "sync", "replay"}

Put(t) ==
  /\ pc[t] = "put"
  /\ fifo' = Append(fifo, Job(call[t], t))
  /\ generation' = IF Counted(call[t]) THEN generation + 1 ELSE generation
  /\ before' = IF call[t] = "drain" THEN [before EXCEPT ![t] = generation] ELSE before
  /\ enqueueLock' = None
  /\ channelLock' = IF call[t] = "replay" THEN None ELSE channelLock
  /\ Goto(t, IF call[t] \in {"drain", "sync"} THEN "wait" ELSE "idle")
  /\ UNCHANGED <<lifecycle, stop, free, subscribers, nextId, lastSignal, frames,
                 dispatch, call, target, done, calls>>

\* k_sem_take(): dispatch_sync() returns true, drain() looks for newer work.
Wake(t) ==
  /\ pc[t] = "wait" /\ done[t]
  /\ done' = [done EXCEPT ![t] = FALSE]
  /\ Goto(t, IF call[t] = "drain" THEN "recount" ELSE "idle")
  /\ UNCHANGED <<lifecycle, stop, queue, channel, dispatch, call, before, target, calls>>

\* drain() returns true when nothing was queued since its barrier.
Recount(t) ==
  /\ pc[t] = "recount" /\ enqueueLock = None
  /\ Goto(t, IF before[t] = generation THEN "idle" ELSE "allocate")
  /\ UNCHANGED <<lifecycle, stop, queue, channel, dispatch, call, before, target, done, calls>>

-----------------------------------------------------------------------------
(* Subscriptions: by clients, and by dispatch_sync() callbacks.              *)

\* Where a thread may call subscribe() or drop a Subscription.
MaySubscribe(t) == t # Dispatcher \/ loop = "sync"

\* subscribe() and ~Subscription() before they lock the channel: the asserts
\* on publish_depth are there.
Subscribe(t, replay) ==
  /\ MaySubscribe(t) /\ NewCall(t)
  /\ Goto(t, "register")
  /\ call' = [call EXCEPT ![t] = IF replay THEN "replay" ELSE "subscribe"]
  /\ UNCHANGED <<lifecycle, stop, queue, channel, dispatch, before, target, done>>

\* A Subscription is dropped once, by whoever owns it.
Unsubscribe(t, id) ==
  /\ MaySubscribe(t) /\ pc[t] = "idle"
  /\ \A u \in Threads : target[u] # id
  /\ Goto(t, "unregister")
  /\ target' = [target EXCEPT ![t] = id]
  /\ UNCHANGED <<lifecycle, stop, queue, channel, dispatch, call, before, done, calls>>

\* Channel::subscribe() under its mutex.  The replay is queued by on_sub_cb,
\* the mutex held.  joined, got and dropped record, for the properties, the
\* latest signal then, what the callback received and what replay_dropped said.
Register(t) ==
  /\ pc[t] = "register" /\ channelLock = None
  /\ nextId' = nextId + 1
  /\ LET replays == call[t] = "replay" /\ lastSignal > 0 IN
       /\ subscribers' = Append(subscribers,
            [id |-> nextId + 1, needsReplay |-> replays,
             joined |-> lastSignal, got |-> <<>>, dropped |-> replays /\ ~Running])
       /\ IF replays /\ Running
          THEN channelLock' = t /\ Goto(t, "allocate")
          ELSE UNCHANGED channelLock /\ Goto(t, "idle")
  /\ UNCHANGED <<lifecycle, stop, queue, lastSignal, frames, dispatch,
                 call, before, target, done, calls>>

\* cleanup_subs(): the i-th slot is erased.
WithoutSlot(i) ==
  SubSeq(subscribers, 1, i - 1) \o SubSeq(subscribers, i + 1, Len(subscribers))

\* Mutant: the slot is removed without waiting for the channel's mutex.
Unregister_NoLock(t) ==
  /\ pc[t] = "unregister"
  /\ \E i \in DOMAIN subscribers :
       subscribers[i].id = target[t] /\ subscribers' = WithoutSlot(i)
  /\ target' = [target EXCEPT ![t] = 0]
  /\ Goto(t, "idle")
  /\ UNCHANGED <<lifecycle, stop, queue, channelLock, nextId, lastSignal, frames,
                 dispatch, call, before, done, calls>>

\* Channel::unsubscribe(): outside a publish cleanup_subs() removes the slot.
Unregister(t) ==
  /\ pc[t] = "unregister" /\ channelLock = None
  /\ \E i \in DOMAIN subscribers :
       subscribers[i].id = target[t] /\ subscribers' = WithoutSlot(i)
  /\ target' = [target EXCEPT ![t] = 0]
  /\ Goto(t, "idle")
  /\ UNCHANGED <<lifecycle, stop, queue, channelLock, nextId, lastSignal, frames,
                 dispatch, call, before, done, calls>>

-----------------------------------------------------------------------------
(* run_loop().                                                               *)

Get ==
  /\ loop \in {"get", "finish"} /\ fifo # <<>>
  /\ running' = Head(fifo)
  /\ fifo' = Tail(fifo)
  /\ loop' = "invoke"
  /\ UNCHANGED <<lifecycle, stop, free, enqueueLock, generation, channel, threads, calls>>

Frame(replay, signal) == [replay |-> replay, signal |-> signal, pos |-> 1, id |-> 0]

\* Channel::publish() up to its loop.
OpenPublish ==
  /\ channelLock \in {None, Dispatcher}
  /\ channelLock' = Dispatcher
  /\ lastSignal' = lastSignal + 1
  /\ frames' = Append(frames, Frame(FALSE, lastSignal + 1))
  /\ loop' = "deliver"
  /\ UNCHANGED <<subscribers, nextId>>

\* Channel::replay() up to its loop; a replay is only queued after a signal.
OpenReplay ==
  /\ channelLock = None
  /\ channelLock' = Dispatcher
  /\ frames' = Append(frames, Frame(TRUE, 0))
  /\ loop' = "deliver"
  /\ UNCHANGED <<subscribers, nextId, lastSignal>>

\* Mutant: dispatch_sync()'s caller is woken before its callback runs.
Invoke_WakesEarly ==
  /\ loop = "invoke"
  /\ CASE running.kind = "publish" -> OpenPublish /\ UNCHANGED done
       [] running.kind = "replay"  -> OpenReplay /\ UNCHANGED done
       [] running.kind = "sync"    -> loop' = "sync" /\ UNCHANGED channel
                                      /\ done' = [done EXCEPT ![running.by] = TRUE]
       [] running.kind = "drain"   -> loop' = "release" /\ UNCHANGED channel
                                      /\ done' = [done EXCEPT ![running.by] = TRUE]
       [] running.kind = "noop"    -> loop' = "release" /\ UNCHANGED <<channel, done>>
  /\ UNCHANGED <<lifecycle, stop, queue, running, pc, call, before, target, calls>>

Invoke ==
  /\ loop = "invoke"
  /\ CASE running.kind = "publish" -> OpenPublish /\ UNCHANGED done
       [] running.kind = "replay"  -> OpenReplay /\ UNCHANGED done
       [] running.kind = "sync"    -> loop' = "sync" /\ UNCHANGED <<channel, done>>
       [] running.kind = "drain"   -> loop' = "release" /\ UNCHANGED channel
                                      /\ done' = [done EXCEPT ![running.by] = TRUE]
       [] running.kind = "noop"    -> loop' = "release" /\ UNCHANGED <<channel, done>>
  /\ UNCHANGED <<lifecycle, stop, queue, running, pc, call, before, target, calls>>

Depth == Len(frames)
Top == frames[Depth]

\* The subscribers the running loop still has to call, by position.
Due == {i \in DOMAIN subscribers :
          i >= Top.pos /\ (Top.replay => subscribers[i].needsReplay)}

\* Mutant: a publish leaves needs_replay set.
Called_StillReplays(s) ==
  [s EXCEPT !.needsReplay = IF Top.replay THEN FALSE ELSE @,
            !.got = Append(@, IF Top.replay THEN lastSignal ELSE Top.signal)]

\* A slot whose callback is called: a replay passes the latest signal.
Called(s) ==
  [s EXCEPT !.needsReplay = FALSE,
            !.got = Append(@, IF Top.replay THEN lastSignal ELSE Top.signal)]

Deliver ==
  /\ loop = "deliver" /\ Due # {}
  /\ LET i == CHOOSE i \in Due : \A j \in Due : i <= j IN
       /\ subscribers' = [subscribers EXCEPT ![i] = Called(@)]
       /\ frames' = [frames EXCEPT ![Depth].pos = i, ![Depth].id = subscribers[i].id]
  /\ loop' = "callback"
  /\ UNCHANGED <<lifecycle, stop, queue, channelLock, nextId, lastSignal, running,
                 threads, calls>>

CallbackReturns ==
  /\ loop = "callback"
  /\ frames' = [frames EXCEPT ![Depth].pos = @ + 1, ![Depth].id = 0]
  /\ loop' = "deliver"
  /\ UNCHANGED <<lifecycle, stop, queue, channelLock, subscribers, nextId, lastSignal,
                 running, threads, calls>>

\* The loop is done: back into the callback that published, or out of the
\* channel's mutex.
EndLoop ==
  /\ loop = "deliver" /\ Due = {}
  /\ frames' = SubSeq(frames, 1, Depth - 1)
  /\ channelLock' = IF Depth = 1 THEN None ELSE channelLock
  /\ loop' = CASE Depth > 1                              -> "callback"
               [] Depth = 1 /\ running.kind = "sync" -> "sync"
               [] OTHER                              -> "release"
  /\ UNCHANGED <<lifecycle, stop, queue, subscribers, nextId, lastSignal, running,
                 threads, calls>>

\* publish() called on the dispatcher's own thread, by a subscriber's or a
\* dispatch_sync() callback: at once, without a node.
PublishSync ==
  /\ loop = "callback" \/ (loop = "sync" /\ pc[Dispatcher] = "idle")
  /\ Depth < MaxDepth /\ calls < MaxCalls /\ calls' = calls + 1
  /\ Running /\ OpenPublish
  /\ UNCHANGED <<lifecycle, stop, queue, running, threads>>

\* The dispatch_sync() callback returns, and its caller is woken.
SyncReturns ==
  /\ loop = "sync" /\ pc[Dispatcher] = "idle"
  /\ done' = [done EXCEPT ![running.by] = TRUE]
  /\ loop' = "release"
  /\ UNCHANGED <<lifecycle, stop, queue, channel, running, pc, call, before, target, calls>>

\* The node is free again, and the loop goes on or empties the FIFO.
Release ==
  /\ loop = "release"
  /\ free' = free + 1
  /\ running' = NoJob
  /\ loop' = IF Running THEN "get" ELSE "finish"
  /\ UNCHANGED <<lifecycle, stop, fifo, enqueueLock, generation, channel, threads, calls>>

Finish ==
  /\ loop = "finish" /\ fifo = <<>>
  /\ loop' = "ended"
  /\ lifecycle' = "Stopped"
  /\ UNCHANGED <<stop, queue, channel, running, threads, calls>>

-----------------------------------------------------------------------------
(* request_stop(), called by the thread that destroys the singleton.         *)

RequestStop ==
  /\ stop = "no"
  /\ lifecycle' = "Stopping"
  /\ stop' = "allocate"
  /\ UNCHANGED <<queue, channel, dispatch, threads, calls>>

\* Mutant: nothing wakes the dispatcher.
WakeUp_NoNode ==
  /\ stop = "allocate" /\ free > 0
  /\ stop' = "done"
  /\ UNCHANGED <<lifecycle, queue, channel, dispatch, threads, calls>>

WakeUp ==
  /\ stop = "allocate" /\ free > 0
  /\ free' = free - 1
  /\ fifo' = Append(fifo, Job("noop", Owner))
  /\ stop' = "done"
  /\ UNCHANGED <<lifecycle, enqueueLock, generation, channel, dispatch, threads, calls>>

-----------------------------------------------------------------------------
Init ==
  /\ lifecycle = "Running" /\ stop = "no"
  /\ fifo = <<>> /\ free = PoolSize /\ enqueueLock = None /\ generation = 0
  /\ channelLock = None /\ subscribers = <<>> /\ nextId = 0 /\ lastSignal = 0
  /\ frames = <<>>
  /\ loop = "get" /\ running = NoJob
  /\ pc = [t \in Threads |-> "idle"] /\ call = [t \in Threads |-> "none"]
  /\ before = [t \in Threads |-> 0] /\ target = [t \in Threads |-> 0]
  /\ done = [t \in Threads |-> FALSE]
  /\ calls = 0

\* What callers and callbacks choose to do.
Choice ==
  \/ \E t \in Clients, kind \in {"publish", "drain", "sync"} : Call(t, kind)
  \/ \E t \in Threads, replay \in BOOLEAN : Subscribe(t, replay)
  \/ \E t \in Threads, id \in SubscriberIds : Unsubscribe(t, id)
  \/ \E t \in Threads : TimesOut(t)
  \/ PublishSync
  \/ RequestStop

\* What a call does on its own once it is made.
ThreadStep(t) ==
  \/ Allocate(t) \/ NoWaitEmpty(t) \/ Check(t) \/ Lock(t) \/ Recheck(t) \/ Put(t)
  \/ Wake(t) \/ Recount(t) \/ Register(t) \/ Unregister(t)

DispatcherStep ==
  \/ Get \/ Invoke \/ Deliver \/ CallbackReturns \/ EndLoop \/ SyncReturns
  \/ Release \/ Finish

Next ==
  \/ Choice
  \/ \E t \in Threads : ThreadStep(t)
  \/ DispatcherStep
  \/ WakeUp

Spec == Init /\ [][Next]_vars

\* Every thread that can run gets to run, and callbacks return.
FairSpec ==
  /\ Spec
  /\ \A t \in Threads : WF_vars(ThreadStep(t))
  /\ WF_vars(DispatcherStep)
  /\ WF_vars(WakeUp)
=============================================================================
