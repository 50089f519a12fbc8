------------------------ MODULE SignalingProperties ------------------------
(***************************************************************************)
(* What the signaling dispatcher and its channel have to guarantee.        *)
(***************************************************************************)
EXTENDS Signaling

JobKinds == {"publish", "drain", "sync", "replay", "noop"}
Jobs == [kind : JobKinds, by : Threads \cup {Owner}]
Slots == [id : Nat, needsReplay : BOOLEAN, joined : Nat, got : Seq(Nat), dropped : BOOLEAN]
Frames == [replay : BOOLEAN, signal : Nat, pos : Nat, id : Nat]

Typed ==
  /\ lifecycle \in {"Running", "Stopping", "Stopped"}
  /\ stop \in {"no", "allocate", "done"}
  /\ fifo \in Seq(Jobs) /\ running \in Jobs \cup {NoJob} /\ free \in Nat
  /\ enqueueLock \in Threads \cup {None} /\ channelLock \in Threads \cup {None}
  /\ subscribers \in Seq(Slots) /\ frames \in Seq(Frames)
  /\ generation \in Nat /\ lastSignal \in Nat /\ nextId \in Nat /\ calls \in Nat
  /\ loop \in {"get", "invoke", "deliver", "callback", "sync", "release",
               "finish", "ended"}
  /\ pc \in [Threads -> {"idle", "allocate", "check", "lock", "recheck", "put",
                         "wait", "recount", "register", "unregister"}]
  /\ call \in [Threads -> {"none", "publish", "drain", "sync", "subscribe", "replay"}]
  /\ before \in [Threads -> Nat] /\ target \in [Threads -> Nat]
  /\ done \in [Threads -> BOOLEAN]

\* Every variable keeps its type, and there are never more free nodes than the
\* slab has (release() of a node that is free already would make it so).
TypeOK == Typed /\ free <= PoolSize

HoldsNode(t) == pc[t] \in {"check", "lock", "recheck", "put"}
Holders == {t \in Threads : HoldsNode(t)}

\* No node of the slab is lost or given back twice, on any path of a call that
\* is refused, times out or races the stop.
NodesConserved ==
  free + Len(fifo) + Cardinality(Holders) + (IF running = NoJob THEN 0 ELSE 1)
    = PoolSize

Queued == {fifo[i] : i \in DOMAIN fifo}
\* The nodes whose payload the dispatcher still has to read.
Pending == Queued \cup (IF loop = "release" THEN {} ELSE {running})

\* The payloads of drain() and dispatch_sync() point into their caller's stack:
\* until the dispatcher is done with one, its caller stays in k_sem_take().
CallerWaits ==
  \A job \in Pending :
    job.kind \in {"drain", "sync"} => pc[job.by] = "wait" /\ ~done[job.by]

\* Once unsubscribe() has returned, the callback is not running and never runs
\* again: what it captured may be destroyed.
CallbackIsSubscribed ==
  \A i \in DOMAIN frames : frames[i].id # 0 => frames[i].id \in SubscriberIds

\* Every subscriber gets every signal published since it subscribed, and none
\* twice; a replay comes first and is the signal that was the latest then
\* ("replays the latest published signal once", signaling/README.md).
EachSignalOnce ==
  \A i \in DOMAIN subscribers :
    LET s == subscribers[i]
        received == {s.got[j] : j \in DOMAIN s.got}
    IN /\ Cardinality(received) = Len(s.got)
       /\ received \subseteq s.joined .. lastSignal
       /\ s.joined \in received => s.got[1] = s.joined
       /\ frames = <<>> => s.joined + 1 .. lastSignal \subseteq received

\* With nothing left to run, a subscriber whose replay is still due was told so.
NoReplayLost ==
  Running /\ fifo = <<>> /\ loop = "get" /\ (\A t \in Threads : pc[t] = "idle")
    => \A i \in DOMAIN subscribers : subscribers[i].needsReplay => subscribers[i].dropped

\* When drain() returns true, nothing that was queued is left to run, what was
\* queued while it waited included ("including work queued by callbacks while
\* draining", signaling/README.md).
DrainLeavesNothing ==
  [][\A t \in Clients :
       pc[t] = "recount" /\ pc'[t] = "idle" =>
         \A job \in Pending : ~(job.kind \in {"publish", "sync", "replay"})]_vars

\* Every call returns while the dispatcher runs: nobody waits for a lock, a node
\* or a semaphore for ever.
CallsReturn ==
  \A t \in Threads : []<>(pc[t] = "idle") \/ <>(lifecycle # "Running")

\* A dispatcher that is asked to stop stops, whatever is queued or under way.
StopEnds == lifecycle = "Stopping" ~> lifecycle = "Stopped"

\* The dispatcher does not end with accepted work in its FIFO ("drains any
\* remaining jobs once shutdown begins", signaling.h:782-783): the publisher was
\* told that its signal is queued, and a drain() or dispatch_sync() caller waits.
AcceptedWorkRuns ==
  loop = "ended" => \A i \in DOMAIN fifo : fifo[i].kind = "noop"

\* The assertions in subscribe() and unsubscribe() ("subscribe called from
\* within publish callback", signaling.h:287) hold for callers that are not in
\* a callback.
AssertionsHold ==
  [][\A t \in Threads :
       pc[t] = "idle" /\ pc'[t] \in {"register", "unregister"} => publish_depth = 0]_vars
=============================================================================
