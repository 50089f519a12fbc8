---------------------------- MODULE SignalingProofs ----------------------------
(***************************************************************************)
(* Theorems about Signaling, for any number of client threads, any pool    *)
(* size and any bounds on the number and the nesting of calls: nodes,      *)
(* locks and callers, and what a channel's subscribers receive.            *)
(***************************************************************************)
EXTENDS SignalingProperties, FiniteSetTheorems, SequenceTheorems, TLAPS

\* A call that is under way to the FIFO queues a node of its own kind.
Calling ==
  \A t \in Threads :
    /\ pc[t] \in {"allocate", "check", "lock", "recheck", "put"} =>
         call[t] \in {"publish", "drain", "sync", "replay"}
    /\ pc[t] = "recount" => call[t] = "drain"

\* run_loop() has a node exactly between taking and releasing it.
HasJob ==
  /\ running = NoJob <=> loop \in {"get", "finish", "ended"}
  /\ loop = "sync" => running.kind = "sync"
  /\ frames # <<>> <=> loop \in {"deliver", "callback"}

Base == Typed /\ Calling /\ HasJob

-----------------------------------------------------------------------------
(* Types.                                                                    *)

LEMMA NoJobKind == NoJob \notin Jobs
  BY DEF NoJob, Job, Jobs, JobKinds

LEMMA BaseInit == Init => Base
<1> SUFFICES ASSUME Init PROVE Base
  OBVIOUS
<1>1. fifo \in Seq(Jobs) /\ subscribers \in Seq(Slots) /\ frames \in Seq(Frames)
  BY EmptySeq DEF Init
<1>2. Typed
  BY <1>1, ClientsAssumption DEF Init, Typed
<1>3. Calling /\ HasJob
  BY DEF Init, Calling, HasJob
<1> QED BY <1>2, <1>3 DEF Base

\* What a refused call leaves behind is well typed.
LEMMA AbandonTyped ==
  ASSUME Typed, NEW t \in Threads, Abandon(t)
  PROVE  /\ pc' = [pc EXCEPT ![t] = "idle"]
         /\ subscribers' \in Seq(Slots) /\ channelLock' \in Threads \cup {None}
         /\ UNCHANGED <<nextId, lastSignal, frames>>
<1> DEFINE n == Len(subscribers)
           s == [subscribers[n] EXCEPT !.dropped = TRUE]
<1>1. [subscribers EXCEPT ![n].dropped = TRUE] \in Seq(Slots)
  <2>1. subscribers \in Seq(Slots) /\ n \in Nat /\ DOMAIN subscribers = 1 .. n
    BY LenProperties DEF Typed
  <2>2. CASE n \in 1 .. n
    <3>0. subscribers[n] \in Slots
      BY <2>1, <2>2, ElementOfSeq
    <3>1. s \in Slots
      BY <3>0 DEF Slots
    <3>2. [subscribers EXCEPT ![n] = s] \in Seq(Slots)
      BY <2>1, <2>2, <3>1, ExceptSeq
    <3> QED BY <3>2
  <2>3. CASE n \notin 1 .. n
    <3>1. [subscribers EXCEPT ![n].dropped = TRUE] = subscribers
      BY <2>1, <2>3
    <3> QED BY <2>1, <3>1
  <2> QED BY <2>2, <2>3
<1> QED BY <1>1 DEF Abandon, Goto, Typed

\* An entry added to a sequence, by what it is made of.
LEMMA PutTyped ==
  ASSUME Typed, NEW t \in Threads \cup {Owner}, NEW k \in JobKinds
  PROVE  Append(fifo, Job(k, t)) \in Seq(Jobs)
  BY DEF Job, Jobs, Typed

LEMMA FrameTyped ==
  ASSUME Typed, NEW r \in BOOLEAN, NEW n \in Nat
  PROVE  Append(frames, Frame(r, n)) \in Seq(Frames)
<1>1. Frame(r, n) \in Frames
  BY DEF Frame, Frames
<1> QED BY <1>1 DEF Typed

LEMMA SlotTyped ==
  ASSUME Typed, NEW r \in BOOLEAN, NEW d \in BOOLEAN
  PROVE  Append(subscribers, [id |-> nextId + 1, needsReplay |-> r,
                              joined |-> lastSignal, got |-> <<>>, dropped |-> d])
           \in Seq(Slots)
<1>1. [id |-> nextId + 1, needsReplay |-> r, joined |-> lastSignal, got |-> <<>>,
       dropped |-> d] \in Slots
  BY EmptySeq DEF Slots, Typed
<1> QED BY <1>1 DEF Typed

LEMMA OpenPublishTyped ==
  ASSUME Typed, OpenPublish
  PROVE  frames' \in Seq(Frames) /\ lastSignal' \in Nat
         /\ channelLock' \in Threads \cup {None}
<1>1. lastSignal + 1 \in Nat
  BY DEF Typed
<1>2. frames' \in Seq(Frames)
  BY <1>1, FrameTyped DEF OpenPublish
<1> QED BY <1>1, <1>2 DEF OpenPublish, Threads

LEMMA OpenedFrame ==
  ASSUME Typed, OpenPublish \/ OpenReplay
  PROVE  frames' # <<>> /\ loop' = "deliver"
<1>1. PICK f \in Frames : frames' = Append(frames, f)
  <2>1. lastSignal + 1 \in Nat
    BY DEF Typed
  <2>2. Frame(FALSE, lastSignal + 1) \in Frames /\ Frame(TRUE, 0) \in Frames
    BY <2>1 DEF Frame, Frames
  <2> QED BY <2>2 DEF OpenPublish, OpenReplay
<1>2. frames' # <<>>
  BY <1>1, AppendProperties DEF Typed
<1> QED BY <1>2 DEF OpenPublish, OpenReplay

\* The frame of the innermost loop.
LEMMA TopTyped ==
  ASSUME Typed, frames # <<>>
  PROVE  Depth \in 1 .. Len(frames) /\ Top \in Frames
<1>1. Depth \in 1 .. Len(frames)
  BY EmptySeq, LenProperties DEF Typed, Depth
<1> QED BY <1>1, ElementOfSeq DEF Typed, Top

LEMMA TopReplaced ==
  ASSUME Typed, frames # <<>>, NEW p \in Nat, NEW d \in Nat
  PROVE  [frames EXCEPT ![Depth].pos = p, ![Depth].id = d] \in Seq(Frames)
<1> DEFINE f == [Top EXCEPT !.pos = p, !.id = d]
<1>1. Depth \in 1 .. Len(frames) /\ f \in Frames
  BY TopTyped DEF Frames
<1>2. [frames EXCEPT ![Depth] = f] \in Seq(Frames)
  BY <1>1, ExceptSeq DEF Typed
<1>3. [frames EXCEPT ![Depth].pos = p, ![Depth].id = d] = [frames EXCEPT ![Depth] = f]
  BY <1>1, LenProperties DEF Typed, Top
<1> QED BY <1>2, <1>3

\* Deliver calls the first subscriber that is due.
LEMMA FirstDue ==
  ASSUME Typed, Due # {}
  PROVE  LET i == CHOOSE i \in Due : \A j \in Due : i <= j
         IN /\ i \in Due /\ i \in 1 .. Len(subscribers) /\ subscribers[i] \in Slots
            /\ \A j \in Due : i <= j
<1>1. Due \subseteq 1 .. Len(subscribers) /\ Due \subseteq Nat
  BY LenProperties DEF Typed, Due
<1>2. PICK x \in Due : \A y \in Due : ~ (<<y, x>> \in OpToRel(<, Nat))
  BY <1>1, NatLessThanWellFounded, WFMin
<1>3. \A y \in Due : y \in Nat /\ x \in Nat /\ ~ (y < x)
  BY <1>1, <1>2 DEF OpToRel
<1>5. \A y \in Due : x <= y
  BY <1>3
<1> DEFINE i == CHOOSE i \in Due : \A j \in Due : i <= j
<1>4. i \in Due /\ \A j \in Due : i <= j
  BY <1>5
<1> QED BY <1>1, <1>4, ElementOfSeq DEF Typed

LEMMA ThreadTyped ==
  ASSUME Base, NEW t \in Threads, ThreadStep(t)
  PROVE  Typed'
<1> USE DEF Base, Typed
<1>1. CASE Allocate(t)
  BY <1>1 DEF Allocate, Goto, channel, dispatch
<1>2. CASE NoWaitEmpty(t)
  BY <1>2, AbandonTyped DEF NoWaitEmpty, PoolEmpty, queue, dispatch
<1>3. CASE Check(t)
  <2>1. CASE Running
    BY <1>3, <2>1 DEF Check, Goto, channel, dispatch
  <2>2. CASE GiveBack /\ Abandon(t)
    <3>1. free' \in Nat
      BY <2>2 DEF GiveBack
    <3>2. /\ pc' = [pc EXCEPT ![t] = "idle"]
          /\ subscribers' \in Seq(Slots) /\ channelLock' \in Threads \cup {None}
          /\ UNCHANGED <<nextId, lastSignal, frames>>
      BY <2>2, AbandonTyped
    <3> QED BY <1>3, <2>2, <3>1, <3>2 DEF Check, dispatch
  <2> QED BY <1>3, <2>1, <2>2 DEF Check
<1>4. CASE Lock(t)
  BY <1>4 DEF Lock, Goto, channel, dispatch
<1>5. CASE Recheck(t)
  <2>1. CASE Running
    BY <1>5, <2>1 DEF Recheck, Goto, channel, dispatch
  <2>2. CASE GiveBack /\ Abandon(t) /\ enqueueLock' = None
    <3>1. free' \in Nat
      BY <2>2 DEF GiveBack
    <3>2. /\ pc' = [pc EXCEPT ![t] = "idle"]
          /\ subscribers' \in Seq(Slots) /\ channelLock' \in Threads \cup {None}
          /\ UNCHANGED <<nextId, lastSignal, frames>>
      BY <2>2, AbandonTyped
    <3> QED BY <1>5, <2>2, <3>1, <3>2 DEF Recheck, dispatch
  <2> QED BY <1>5, <2>1, <2>2 DEF Recheck
<1>6. CASE Put(t)
  <2>1. call[t] \in JobKinds
    BY <1>6 DEF Put, Calling, JobKinds
  <2>2. fifo' \in Seq(Jobs)
    BY <1>6, <2>1, PutTyped DEF Put
  <2> QED BY <1>6, <2>2 DEF Put, Goto, dispatch
<1>7. CASE Wake(t)
  BY <1>7 DEF Wake, Goto, queue, channel, dispatch
<1>8. CASE Recount(t)
  BY <1>8 DEF Recount, Goto, queue, channel, dispatch
<1>9. CASE Register(t)
  <2>1. \E r, d \in BOOLEAN :
          subscribers' = Append(subscribers,
            [id |-> nextId + 1, needsReplay |-> r, joined |-> lastSignal,
             got |-> <<>>, dropped |-> d])
    BY <1>9, Zenon DEF Register
  <2>2. subscribers' \in Seq(Slots)
    BY <2>1, SlotTyped
  <2>3. channelLock' \in Threads \cup {None} /\ nextId' \in Nat
    BY <1>9 DEF Register
  <2>4. \E l \in {"allocate", "idle"} : pc' = [pc EXCEPT ![t] = l]
    BY <1>9 DEF Register, Goto
  <2> QED BY <1>9, <2>2, <2>3, <2>4 DEF Register, queue, dispatch
<1>10. CASE Unregister(t)
  <2>1. \A i \in DOMAIN subscribers : WithoutSlot(i) \in Seq(Slots)
    BY DEF WithoutSlot
  <2> QED BY <1>10, <2>1 DEF Unregister, Goto, queue, dispatch
<1> QED
  BY <1>1, <1>2, <1>3, <1>4, <1>5, <1>6, <1>7, <1>8, <1>9, <1>10 DEF ThreadStep

LEMMA DispatcherTyped ==
  ASSUME Base, DispatcherStep
  PROVE  Typed'
<1> USE DEF Base, Typed
<1>1. CASE Get
  BY <1>1 DEF Get, channel, threads
<1>2. CASE Invoke
  <2>0. running \in Jobs
    BY <1>2 DEF Invoke, HasJob
  <2>1. CASE running.kind = "publish"
    <3>1. OpenPublish /\ UNCHANGED done
      BY <1>2, <2>1 DEF Invoke
    <3>2. frames' \in Seq(Frames) /\ lastSignal' \in Nat
          /\ channelLock' \in Threads \cup {None}
      BY <3>1, OpenPublishTyped
    <3> QED BY <1>2, <3>1, <3>2 DEF Invoke, OpenPublish, queue
  <2>2. CASE running.kind = "replay"
    <3>1. OpenReplay /\ UNCHANGED done
      BY <1>2, <2>2 DEF Invoke
    <3>2. frames' \in Seq(Frames)
      BY <3>1, FrameTyped DEF OpenReplay
    <3> QED BY <1>2, <3>1, <3>2 DEF Invoke, OpenReplay, queue, Threads
  <2>3. CASE running.kind = "sync"
    BY <1>2, <2>3 DEF Invoke, queue, channel
  <2>4. CASE running.kind = "drain"
    BY <1>2, <2>4 DEF Invoke, queue, channel
  <2>5. CASE running.kind = "noop"
    BY <1>2, <2>5 DEF Invoke, queue, channel
  <2> QED BY <2>0, <2>1, <2>2, <2>3, <2>4, <2>5 DEF Jobs, JobKinds
<1>3. CASE Deliver
  <2> DEFINE i == CHOOSE i \in Due : \A j \in Due : i <= j
             u == Called(subscribers[i])
  <2>1. i \in 1 .. Len(subscribers) /\ subscribers[i] \in Slots
    BY <1>3, FirstDue DEF Deliver
  <2>2. frames # <<>> /\ Top \in Frames
    BY <1>3, TopTyped DEF Deliver, HasJob
  <2>3. u \in Slots
    <3>1. (IF Top.replay THEN lastSignal ELSE Top.signal) \in Nat
      BY <2>2 DEF Frames
    <3>2. Append(subscribers[i].got, IF Top.replay THEN lastSignal ELSE Top.signal)
            \in Seq(Nat)
      BY <2>1, <3>1 DEF Slots
    <3> QED BY <2>1, <3>2 DEF Called, Slots
  <2> HIDE DEF i, u
  <2>4. subscribers' = [subscribers EXCEPT ![i] = u]
    BY <1>3 DEF Deliver, i, u
  <2>5. frames' \in Seq(Frames)
    <3>1. i \in Nat /\ subscribers[i].id \in Nat
      BY <2>1 DEF Slots
    <3>2. frames' = [frames EXCEPT ![Depth].pos = i, ![Depth].id = subscribers[i].id]
      BY <1>3 DEF Deliver, i
    <3> QED BY <2>2, <3>1, <3>2, TopReplaced
  <2>6. subscribers' \in Seq(Slots)
    BY <2>1, <2>3, <2>4, ExceptSeq
  <2> QED BY <1>3, <2>5, <2>6 DEF Deliver, queue, threads
<1>4. CASE CallbackReturns
  <2>1. frames # <<>> /\ Depth \in 1 .. Len(frames) /\ Top \in Frames
    BY <1>4, TopTyped DEF CallbackReturns, HasJob
  <2>2. frames' = [frames EXCEPT ![Depth].pos = Top.pos + 1, ![Depth].id = 0]
    BY <1>4 DEF CallbackReturns, Top
  <2>3. Top.pos + 1 \in Nat /\ 0 \in Nat
    <3> HIDE DEF Base
    <3>1. Top.pos \in Nat
      BY <2>1 DEF Frames
    <3> QED BY <3>1
  <2>4. frames' \in Seq(Frames)
    BY <2>1, <2>2, <2>3, TopReplaced
  <2> QED BY <1>4, <2>4 DEF CallbackReturns, queue, threads
<1>5. CASE EndLoop
  BY <1>5 DEF EndLoop, queue, threads, Depth
<1>6. CASE SyncReturns
  BY <1>6 DEF SyncReturns, queue, channel
<1>7. CASE Release
  BY <1>7 DEF Release, channel, threads
<1>8. CASE Finish
  BY <1>8 DEF Finish, queue, channel, threads
<1> QED BY <1>1, <1>2, <1>3, <1>4, <1>5, <1>6, <1>7, <1>8 DEF DispatcherStep

LEMMA ChoiceTyped ==
  ASSUME Base, Choice
  PROVE  Typed'
<1> USE DEF Base, Typed
<1>1. ASSUME NEW t \in Clients, NEW kind \in {"publish", "drain", "sync"}, Call(t, kind)
      PROVE  Typed'
  BY <1>1 DEF Call, NewCall, Goto, queue, channel, dispatch, Threads
<1>2. ASSUME NEW t \in Threads, NEW replay \in BOOLEAN, Subscribe(t, replay)
      PROVE  Typed'
  BY <1>2 DEF Subscribe, NewCall, Goto, queue, channel, dispatch
<1>3. ASSUME NEW t \in Threads, NEW id \in SubscriberIds, Unsubscribe(t, id)
      PROVE  Typed'
  <2>0. PICK i \in DOMAIN subscribers : id = subscribers[i].id
    BY DEF SubscriberIds
  <2>1. subscribers[i] \in Slots
    BY <2>0, LenProperties, ElementOfSeq
  <2>2. id \in Nat
    BY <2>0, <2>1 DEF Slots
  <2> QED BY <1>3, <2>2 DEF Unsubscribe, Goto, queue, channel, dispatch
<1>4. ASSUME NEW t \in Threads, TimesOut(t)
      PROVE  Typed'
  BY <1>4, AbandonTyped DEF TimesOut, PoolEmpty, queue, dispatch
<1>5. CASE PublishSync
  <2>1. /\ frames' \in Seq(Frames) /\ lastSignal' \in Nat
        /\ channelLock' \in Threads \cup {None}
    BY <1>5, OpenPublishTyped DEF PublishSync
  <2>2. loop' = "deliver" /\ UNCHANGED <<subscribers, nextId>> /\ calls' \in Nat
    BY <1>5 DEF PublishSync, OpenPublish
  <2> QED BY <1>5, <2>1, <2>2 DEF PublishSync, queue, threads
<1>6. CASE RequestStop
  BY <1>6 DEF RequestStop, queue, channel, dispatch, threads
<1> QED BY <1>1, <1>2, <1>3, <1>4, <1>5, <1>6 DEF Choice

LEMMA WakeUpTyped ==
  ASSUME Base, WakeUp
  PROVE  Typed'
<1>1. Append(fifo, Job("noop", Owner)) \in Seq(Jobs)
  BY PutTyped DEF Base, JobKinds
<1> QED BY <1>1 DEF Base, Typed, WakeUp, channel, dispatch, threads

-----------------------------------------------------------------------------
(* Base is inductive.                                                        *)

\* What a step of a thread's call leaves to the dispatcher and to the others.
LEMMA ThreadFrame ==
  ASSUME NEW t \in Threads, ThreadStep(t) \/ TimesOut(t)
  PROVE  UNCHANGED <<loop, running, frames, call>>
  BY DEF ThreadStep, TimesOut, Allocate, NoWaitEmpty, PoolEmpty, Abandon, Check, Lock,
         Recheck, Put, Wake, Recount, Register, Unregister, dispatch, channel

LEMMA ThreadCalling ==
  ASSUME Base, NEW t \in Threads, ThreadStep(t) \/ TimesOut(t)
  PROVE  Calling'
<1> SUFFICES ASSUME NEW u \in Threads
             PROVE  /\ pc'[u] \in {"allocate", "check", "lock", "recheck", "put"} =>
                         call'[u] \in {"publish", "drain", "sync", "replay"}
                    /\ pc'[u] = "recount" => call'[u] = "drain"
  BY DEF Calling
<1>1. call' = call
  BY ThreadFrame
<1>2. \E l : pc' = [pc EXCEPT ![t] = l]
  BY DEF ThreadStep, TimesOut, Allocate, NoWaitEmpty, PoolEmpty, Abandon, Check, Lock,
         Recheck, Put, Wake, Recount, Register, Unregister, Goto
<1>3. CASE u # t
  BY <1>1, <1>2, <1>3 DEF Base, Calling, Typed
<1>4. CASE u = t
  BY <1>1, <1>4 DEF Base, Typed, Calling, ThreadStep, TimesOut, Allocate, NoWaitEmpty,
     PoolEmpty, Abandon, Check, Lock, Recheck, Put, Wake, Recount, Register, Unregister, Goto
<1> QED BY <1>3, <1>4

LEMMA HasJobStep ==
  ASSUME Base, Typed', DispatcherStep \/ PublishSync
  PROVE  HasJob'
<1> USE DEF Base, HasJob
<1>1. CASE Get
  <2>1. Head(fifo) \in Jobs
    BY <1>1 DEF Get, Typed
  <2> QED BY <1>1, <2>1, NoJobKind DEF Get, channel
<1>2. CASE Invoke
  <2>1. running \in Jobs
    BY <1>2 DEF Invoke, Typed
  <2>2. CASE running.kind \in {"publish", "replay"}
    <3>1. loop' = "deliver" /\ frames' # <<>>
      BY <1>2, <2>2, OpenedFrame DEF Invoke
    <3> QED BY <1>2, <2>1, <3>1, NoJobKind DEF Invoke
  <2>3. CASE running.kind = "sync"
    BY <1>2, <2>1, <2>3, NoJobKind DEF Invoke, channel
  <2>4. CASE running.kind \in {"drain", "noop"}
    BY <1>2, <2>1, <2>4, NoJobKind DEF Invoke, channel
  <2> QED BY <2>1, <2>2, <2>3, <2>4 DEF Jobs, JobKinds
<1>3. CASE Deliver \/ CallbackReturns
  <2>1. DOMAIN frames' = DOMAIN frames /\ frames # <<>>
    BY <1>3 DEF Deliver, CallbackReturns
  <2>2. frames' # <<>>
    BY <2>1, EmptySeq, LenProperties DEF Typed
  <2> QED BY <1>3, <2>2 DEF Deliver, CallbackReturns
<1>4. CASE EndLoop
  <2>1. frames # <<>> /\ Depth \in Nat \ {0}
    BY <1>4, EmptySeq DEF EndLoop, Typed, Depth
  <2>2. frames' # <<>> <=> Depth > 1
    <3>1. frames' = SubSeq(frames, 1, Depth - 1) /\ frames \in Seq(Frames)
      BY <1>4 DEF EndLoop, Typed
    <3>2. frames' \in Seq(Frames) /\ Len(frames') = Depth - 1
      <4>1. \A i \in 1 .. Depth - 1 : frames[i] \in Frames
        BY <2>1, <3>1, ElementOfSeq DEF Depth
      <4> QED BY <2>1, <3>1, <4>1, SubSeqProperties
    <3> QED BY <2>1, <3>2, EmptySeq
  <2> QED BY <1>4, <2>1, <2>2 DEF EndLoop
<1>5. CASE SyncReturns \/ Release \/ Finish
  BY <1>5 DEF SyncReturns, Release, Finish, channel, NoJob, Job
<1>6. CASE PublishSync
  <2>1. loop' = "deliver" /\ frames' # <<>> /\ UNCHANGED running
    BY <1>6, OpenedFrame DEF PublishSync
  <2> QED BY <1>6, <2>1 DEF PublishSync
<1> QED BY <1>1, <1>2, <1>3, <1>4, <1>5, <1>6 DEF DispatcherStep

LEMMA BaseStep ==
  ASSUME Base, [Next]_vars
  PROVE  Base'
<1>1. ASSUME NEW t \in Threads, ThreadStep(t) \/ TimesOut(t)
      PROVE  Base'
  <2>1. Typed'
    BY <1>1, ThreadTyped, ChoiceTyped DEF Choice
  <2>2. HasJob'
    BY <1>1, ThreadFrame DEF Base, HasJob
  <2> QED BY <1>1, <2>1, <2>2, ThreadCalling DEF Base
<1>2. CASE DispatcherStep \/ PublishSync
  <2>1. Typed'
    BY <1>2, DispatcherTyped, ChoiceTyped DEF Choice
  <2>2. UNCHANGED <<pc, call>>
    BY <1>2 DEF DispatcherStep, Get, Invoke, Deliver, CallbackReturns, EndLoop,
       SyncReturns, Release, Finish, PublishSync, threads
  <2>3. Calling'
    BY <2>2 DEF Base, Calling
  <2> QED BY <1>2, <2>1, <2>3, HasJobStep DEF Base
<1>3. CASE WakeUp \/ RequestStop
  <2>1. Typed'
    BY <1>3, WakeUpTyped, ChoiceTyped DEF Choice
  <2> QED BY <1>3, <2>1
          DEF Base, Calling, HasJob, WakeUp, RequestStop, channel, dispatch, threads
<1>4. ASSUME NEW t \in Threads,
             \/ \E kind \in {"publish", "drain", "sync"} : t \in Clients /\ Call(t, kind)
             \/ \E replay \in BOOLEAN : Subscribe(t, replay)
             \/ \E id \in SubscriberIds : Unsubscribe(t, id)
      PROVE  Base'
  <2>1. Typed'
    BY <1>4, ChoiceTyped DEF Choice
  <2>2. HasJob'
    BY <1>4 DEF Base, HasJob, Call, Subscribe, Unsubscribe, dispatch, channel
  <2>3. Calling'
    BY <1>4 DEF Base, Typed, Calling, Call, Subscribe, Unsubscribe, NewCall, Goto
  <2> QED BY <2>1, <2>2, <2>3 DEF Base
<1>5. CASE UNCHANGED vars
  BY <1>5 DEF Base, Typed, Calling, HasJob, vars, queue, channel, dispatch, threads
<1> QED
  BY <1>1, <1>2, <1>3, <1>4, <1>5 DEF Next, Choice, Threads

THEOREM BaseInvariant == Spec => []Base
<1>1. Base /\ [Next]_vars => Base'
  BY BaseStep
<1> QED BY <1>1, BaseInit, PTL DEF Spec

-----------------------------------------------------------------------------
(* The channel's mutex: whoever is in a loop over the subscribers, or queues *)
(* a replay for the one it has just added, holds it.                         *)

Replaying(t) ==
  call[t] = "replay" /\ pc[t] \in {"allocate", "check", "lock", "recheck", "put"}

LockHeld ==
  /\ frames # <<>> => channelLock = Dispatcher
  /\ \A t \in Threads : Replaying(t) => channelLock = t
  /\ pc[Dispatcher] # "idle" => loop = "sync"

LEMMA LockHeldInit == Init => LockHeld
  BY DEF Init, LockHeld, Replaying, Threads

\* A call's own steps.
LEMMA LockHeldThread ==
  ASSUME Base, LockHeld, NEW t \in Threads, ThreadStep(t) \/ TimesOut(t)
  PROVE  LockHeld'
<1> USE DEF Base, Typed
<1>0. /\ UNCHANGED <<loop, running, frames, call>>
      /\ \A u \in Threads \ {t} : pc'[u] = pc[u]
  <2>1. \E l : pc' = [pc EXCEPT ![t] = l]
    BY DEF ThreadStep, TimesOut, Allocate, NoWaitEmpty, PoolEmpty, Abandon, Check, Lock,
           Recheck, Put, Wake, Recount, Register, Unregister, Goto
  <2> QED BY <2>1, ThreadFrame
\* While t is in a call it is the dispatcher in a dispatch_sync() callback, or
\* not the dispatcher.
<1>1. pc[t] # "idle"
  BY DEF ThreadStep, TimesOut, Allocate, NoWaitEmpty, PoolEmpty, Check, Lock,
         Recheck, Put, Wake, Recount, Register, Unregister
<1>2. pc'[Dispatcher] # "idle" => loop' = "sync"
  BY <1>0, <1>1 DEF LockHeld, Threads
<1>3. t = Dispatcher => frames = <<>>
  BY <1>1 DEF LockHeld, HasJob
<1>4. CASE channelLock' = channelLock /\ (Replaying(t)' => Replaying(t))
  <2>1. \A u \in Threads : Replaying(u)' => Replaying(u)
    BY <1>0, <1>4 DEF Replaying
  <2> QED BY <1>0, <1>2, <1>4, <2>1 DEF LockHeld
<1>5. CASE Replaying(t) /\ channelLock' = None /\ pc'[t] \in {"idle", "wait"}
  <2>1. channelLock = t /\ frames = <<>>
    BY <1>3, <1>5 DEF LockHeld
  <2>2. \A u \in Threads : ~Replaying(u)'
    <3>1. ASSUME NEW u \in Threads, Replaying(u)' PROVE FALSE
      <4>1. u # t
        BY <1>5, <3>1 DEF Replaying
      <4>2. Replaying(u)
        BY <1>0, <3>1, <4>1 DEF Replaying
      <4> QED BY <2>1, <4>1, <4>2 DEF LockHeld
    <3> QED BY <3>1
  <2> QED BY <1>0, <1>2, <2>1, <2>2 DEF LockHeld
<1>6. CASE channelLock = None /\ channelLock' = t
  <2>1. frames = <<>> /\ \A u \in Threads : ~Replaying(u)
    BY <1>6, ClientsAssumption DEF LockHeld, Threads, Dispatcher, None
  <2>2. \A u \in Threads \ {t} : ~Replaying(u)'
    BY <1>0, <2>1 DEF Replaying
  <2> QED BY <1>0, <1>2, <1>6, <2>1, <2>2 DEF LockHeld
<1>7. CASE Abandon(t) /\ pc[t] \in {"allocate", "check", "lock", "recheck", "put"}
  <2>1. pc'[t] = "idle"
    BY <1>7 DEF Abandon, Goto
  <2>2. CASE call[t] = "replay"
    BY <1>5, <1>7, <2>1, <2>2 DEF Abandon, Replaying
  <2>3. CASE call[t] # "replay"
    BY <1>4, <1>7, <2>1, <2>3 DEF Abandon, Replaying
  <2> QED BY <2>2, <2>3
<1>8. CASE Allocate(t) \/ Lock(t) \/ Wake(t) \/ Recount(t) \/ Unregister(t)
  <2>1. channelLock' = channelLock
    BY <1>8 DEF Allocate, Lock, Wake, Recount, Unregister, channel
  <2>2. Replaying(t)' => Replaying(t)
    BY <1>0, <1>8 DEF Replaying, Calling, Allocate, Lock, Wake, Recount, Unregister, Goto
  <2> QED BY <1>4, <2>1, <2>2
<1>9. CASE NoWaitEmpty(t) \/ TimesOut(t)
  BY <1>7, <1>9 DEF NoWaitEmpty, TimesOut, PoolEmpty
<1>10. CASE Check(t) \/ Recheck(t)
  <2>1. CASE Running
    BY <1>0, <1>4, <1>10, <2>1 DEF Check, Recheck, Goto, channel, Replaying
  <2>2. CASE ~Running
    BY <1>7, <1>10, <2>2 DEF Check, Recheck
  <2> QED BY <2>1, <2>2
<1>11. CASE Put(t)
  <2>1. pc'[t] \in {"idle", "wait"}
    BY <1>11 DEF Put, Goto
  <2>2. CASE call[t] = "replay"
    BY <1>5, <1>11, <2>1, <2>2 DEF Put, Replaying
  <2>3. CASE call[t] # "replay"
    BY <1>0, <1>4, <1>11, <2>1, <2>3 DEF Put, Replaying
  <2> QED BY <2>2, <2>3
<1>12. CASE Register(t)
  <2>1. channelLock = None /\ channelLock' \in {None, t}
    BY <1>12 DEF Register
  <2>2. CASE channelLock' = t
    BY <1>6, <2>1, <2>2
  <2>3. CASE channelLock' # t
    BY <1>0, <1>4, <1>12, <2>1, <2>3 DEF Register, Goto, Replaying
  <2> QED BY <2>2, <2>3
<1> QED
  BY <1>8, <1>9, <1>10, <1>11, <1>12 DEF ThreadStep

LEMMA LockHeldDispatcher ==
  ASSUME Base, LockHeld, DispatcherStep \/ PublishSync
  PROVE  LockHeld'
<1> USE DEF Base, Typed
<1>0. /\ UNCHANGED <<pc, call>>
      /\ \A t \in Threads : Replaying(t)' <=> Replaying(t)
  BY DEF DispatcherStep, Get, Invoke, Deliver, CallbackReturns, EndLoop, SyncReturns,
         Release, Finish, PublishSync, threads, Replaying
<1>1. CASE UNCHANGED channelLock /\ frames' = <<>> /\ (loop = "sync" => pc[Dispatcher] = "idle")
  BY <1>0, <1>1 DEF LockHeld
<1>2. CASE channelLock' = Dispatcher /\ channelLock \in {None, Dispatcher}
             /\ pc[Dispatcher] = "idle"
  <2>1. \A t \in Threads : ~Replaying(t)
    BY <1>2, ClientsAssumption DEF LockHeld, Replaying, Threads, Dispatcher, None
  <2> QED BY <1>0, <1>2, <2>1 DEF LockHeld
<1>3. CASE Get \/ SyncReturns \/ Release \/ Finish
  <2>1. UNCHANGED <<channelLock, frames>> /\ frames = <<>>
    BY <1>3 DEF Get, SyncReturns, Release, Finish, channel, HasJob
  <2> QED BY <1>1, <1>3, <2>1 DEF Get, SyncReturns, Release, Finish
<1>4. CASE Invoke
  <2>1. frames = <<>> /\ pc[Dispatcher] = "idle" /\ running \in Jobs
    BY <1>4 DEF Invoke, LockHeld, HasJob
  <2>2. CASE running.kind \in {"publish", "replay"}
    BY <1>2, <1>4, <2>1, <2>2 DEF Invoke, OpenPublish, OpenReplay
  <2>3. CASE running.kind \in {"sync", "drain", "noop"}
    <3>1. UNCHANGED <<channelLock, frames>>
      BY <1>4, <2>3 DEF Invoke, channel
    <3> QED BY <1>1, <2>1, <3>1
  <2> QED BY <2>1, <2>2, <2>3 DEF Jobs, JobKinds
<1>5. CASE Deliver \/ CallbackReturns
  <2>1. channelLock = Dispatcher /\ UNCHANGED channelLock /\ pc[Dispatcher] = "idle"
    BY <1>5 DEF Deliver, CallbackReturns, LockHeld, HasJob
  <2> QED BY <1>2, <2>1
<1>6. CASE EndLoop
  <2>1. channelLock = Dispatcher /\ pc[Dispatcher] = "idle"
    BY <1>6 DEF EndLoop, LockHeld, HasJob
  <2>2. CASE Depth = 1
    <3>1. \A t \in Threads : ~Replaying(t)
      BY <2>1 DEF LockHeld, Replaying, Threads
    <3>2. frames' = <<>>
      BY <1>6, <2>2, SubSeqEmpty DEF EndLoop
    <3> QED BY <1>0, <2>1, <3>1, <3>2 DEF LockHeld
  <2>3. CASE Depth # 1
    BY <1>2, <1>6, <2>1, <2>3 DEF EndLoop
  <2> QED BY <2>2, <2>3
<1>7. CASE PublishSync
  <2>1. pc[Dispatcher] = "idle"
    BY <1>7 DEF PublishSync, LockHeld
  <2> QED BY <1>2, <1>7, <2>1 DEF PublishSync, OpenPublish
<1> QED BY <1>3, <1>4, <1>5, <1>6, <1>7 DEF DispatcherStep

LEMMA LockHeldStep ==
  ASSUME Base, LockHeld, [Next]_vars
  PROVE  LockHeld'
<1>1. CASE \E t \in Threads : ThreadStep(t) \/ TimesOut(t)
  BY <1>1, LockHeldThread
<1>2. CASE DispatcherStep \/ PublishSync
  BY <1>2, LockHeldDispatcher
<1>3. CASE WakeUp \/ RequestStop \/ UNCHANGED vars
  BY <1>3 DEF LockHeld, Replaying, WakeUp, RequestStop, vars, channel, dispatch, threads
<1>4. ASSUME NEW t \in Threads,
             \/ \E kind \in {"publish", "drain", "sync"} : t \in Clients /\ Call(t, kind)
             \/ \E replay \in BOOLEAN : Subscribe(t, replay)
             \/ \E id \in SubscriberIds : Unsubscribe(t, id)
      PROVE  LockHeld'
  <2>1. /\ UNCHANGED <<channelLock, frames, loop>>
        /\ \A u \in Threads \ {t} : pc'[u] = pc[u] /\ call'[u] = call[u]
        /\ t = Dispatcher => loop = "sync"
    BY <1>4, ClientsAssumption DEF Base, Typed, Call, Subscribe, Unsubscribe, NewCall, Goto,
       MaySubscribe, channel, dispatch, Threads
  <2>2. ~Replaying(t)'
    BY <1>4 DEF Base, Typed, Call, Subscribe, Unsubscribe, NewCall, Goto, Replaying
  <2> QED BY <2>1, <2>2 DEF LockHeld, Replaying, Threads
<1> QED
  BY <1>1, <1>2, <1>3, <1>4 DEF Next, Choice, Threads

-----------------------------------------------------------------------------
(* Callbacks.                                                                *)

\* A slot that is replaced by one of the same subscription.
LEMMA IdsKept ==
  ASSUME Typed, NEW i \in 1 .. Len(subscribers), NEW u, u.id = subscribers[i].id,
         subscribers' = [subscribers EXCEPT ![i] = u]
  PROVE  SubscriberIds' = SubscriberIds
<1>1. DOMAIN subscribers' = DOMAIN subscribers /\ DOMAIN subscribers = 1 .. Len(subscribers)
  BY LenProperties DEF Typed
<1>2. \A j \in DOMAIN subscribers : subscribers'[j].id = subscribers[j].id
  BY <1>1
<1> QED BY <1>1, <1>2 DEF SubscriberIds

LEMMA AbandonIds ==
  ASSUME Typed, NEW t \in Threads, Abandon(t)
  PROVE  SubscriberIds' = SubscriberIds
<1> DEFINE n == Len(subscribers)
           u == [subscribers[n] EXCEPT !.dropped = TRUE]
<1>1. CASE UNCHANGED subscribers
  BY <1>1 DEF SubscriberIds
<1>2. CASE call[t] = "replay"
  <2>1. subscribers' = [subscribers EXCEPT ![n].dropped = TRUE]
    BY <1>2 DEF Abandon
  <2>2. n \in Nat /\ DOMAIN subscribers = 1 .. n
    BY LenProperties DEF Typed
  <2>3. CASE n \in 1 .. n
    <3>1. subscribers[n] \in Slots
      BY <2>3, ElementOfSeq DEF Typed
    <3>2. u.id = subscribers[n].id
      BY <3>1 DEF Slots
    <3>3. subscribers' = [subscribers EXCEPT ![n] = u]
      BY <2>1
    <3> HIDE DEF u
    <3> QED BY <2>3, <3>2, <3>3, IdsKept
  <2>4. CASE n \notin 1 .. n
    <3>1. [subscribers EXCEPT ![n].dropped = TRUE] = subscribers
      BY <2>2, <2>4 DEF Typed
    <3> QED BY <1>1, <2>1, <3>1
  <2> QED BY <2>3, <2>4
<1> QED BY <1>1, <1>2 DEF Abandon

LEMMA CallbackThread ==
  ASSUME Base, LockHeld, CallbackIsSubscribed,
         NEW t \in Threads, ThreadStep(t) \/ TimesOut(t)
  PROVE  CallbackIsSubscribed'
<1> USE DEF Base
<1>0. UNCHANGED frames
  BY ThreadFrame
<1>1. CASE SubscriberIds' = SubscriberIds
  BY <1>0, <1>1 DEF CallbackIsSubscribed
<1>2. CASE Register(t) \/ Unregister(t)
  <2>1. frames = <<>>
    BY <1>2, ClientsAssumption DEF Register, Unregister, LockHeld, Dispatcher, None
  <2> QED BY <1>0, <2>1 DEF CallbackIsSubscribed
<1>3. CASE UNCHANGED subscribers
  BY <1>1, <1>3 DEF SubscriberIds
<1>4. CASE Abandon(t)
  BY <1>1, <1>4, AbandonIds
<1> QED
  BY <1>2, <1>3, <1>4 DEF ThreadStep, TimesOut, Allocate, NoWaitEmpty, PoolEmpty, Check,
     Lock, Recheck, Put, Wake, Recount, channel

LEMMA CallbackDispatcher ==
  ASSUME Base, CallbackIsSubscribed, DispatcherStep \/ PublishSync
  PROVE  CallbackIsSubscribed'
<1> USE DEF Base
<1>1. CASE OpenPublish \/ OpenReplay
  <2>1. PICK f \in Frames : f.id = 0 /\ frames' = Append(frames, f)
    <3>1. lastSignal + 1 \in Nat
      BY DEF Typed
    <3>2. /\ Frame(FALSE, lastSignal + 1) \in Frames /\ Frame(FALSE, lastSignal + 1).id = 0
          /\ Frame(TRUE, 0) \in Frames /\ Frame(TRUE, 0).id = 0
      BY <3>1 DEF Frame, Frames
    <3> QED BY <1>1, <3>2 DEF OpenPublish, OpenReplay
  <2>2. UNCHANGED subscribers
    BY <1>1 DEF OpenPublish, OpenReplay
  <2>3. \A i \in DOMAIN frames' : \/ i \in DOMAIN frames /\ frames'[i] = frames[i]
                                  \/ frames'[i].id = 0
    BY <2>1, AppendProperties, LenProperties DEF Typed
  <2> QED BY <2>2, <2>3 DEF CallbackIsSubscribed, SubscriberIds
<1>2. CASE UNCHANGED <<frames, subscribers>>
  BY <1>2 DEF CallbackIsSubscribed, SubscriberIds
<1>3. CASE Deliver
  <2> DEFINE i == CHOOSE i \in Due : \A j \in Due : i <= j
             u == Called(subscribers[i])
  <2>1. i \in 1 .. Len(subscribers) /\ subscribers[i] \in Slots
    BY <1>3, FirstDue DEF Deliver
  <2>2. u.id = subscribers[i].id
    BY <2>1 DEF Called, Slots
  <2>3. frames # <<>> /\ Depth \in 1 .. Len(frames) /\ Top \in Frames
    BY <1>3, TopTyped DEF Deliver, HasJob
  <2> HIDE DEF i, u
  <2>4. /\ subscribers' = [subscribers EXCEPT ![i] = u]
        /\ frames' = [frames EXCEPT ![Depth].pos = i, ![Depth].id = subscribers[i].id]
    BY <1>3 DEF Deliver, i, u
  <2>5. SubscriberIds' = SubscriberIds /\ subscribers[i].id \in SubscriberIds
    BY <2>1, <2>2, <2>4, IdsKept, LenProperties DEF Typed, SubscriberIds
  <2>6. \A k \in DOMAIN frames' :
          /\ k \in DOMAIN frames
          /\ frames'[k].id = IF k = Depth THEN subscribers[i].id ELSE frames[k].id
    <3>1. frames \in Seq(Frames)
      BY DEF Typed
    <3> HIDE DEF Base
    <3>2. DOMAIN frames = 1 .. Len(frames)
      BY <3>1, LenProperties
    <3>3. DOMAIN frames' = DOMAIN frames
      BY <2>4
    <3>4. ASSUME NEW k \in DOMAIN frames, k # Depth  PROVE  frames'[k] = frames[k]
      BY <2>4, <3>4
    <3>5. frames'[Depth].id = subscribers[i].id
      <4>1. frames'[Depth] = [frames[Depth] EXCEPT !.pos = i, !.id = subscribers[i].id]
        BY <2>3, <2>4, <3>2
      <4>2. frames[Depth] \in [replay : BOOLEAN, signal : Nat, pos : Nat, id : Nat]
        BY <2>3 DEF Top, Frames
      <4> QED BY <4>1, <4>2
    <3> QED BY <3>3, <3>4, <3>5
  <2> QED BY <2>5, <2>6 DEF CallbackIsSubscribed
<1>4. CASE CallbackReturns
  <2>1. frames # <<>> /\ Depth \in 1 .. Len(frames) /\ Top \in Frames
    BY <1>4, TopTyped DEF CallbackReturns, HasJob
  <2>2. \A k \in DOMAIN frames' :
          /\ k \in DOMAIN frames
          /\ frames'[k].id = IF k = Depth THEN 0 ELSE frames[k].id
    <3>1. DOMAIN frames = 1 .. Len(frames)
      BY LenProperties DEF Typed
    <3> HIDE DEF Base
    <3>2. frames' = [frames EXCEPT ![Depth].pos = @ + 1, ![Depth].id = 0]
      BY <1>4 DEF CallbackReturns
    <3>3. DOMAIN frames' = DOMAIN frames
      BY <3>2
    <3>4. ASSUME NEW k \in DOMAIN frames, k # Depth  PROVE  frames'[k] = frames[k]
      BY <3>2, <3>4
    <3>5. frames'[Depth].id = 0
      <4>1. frames'[Depth] = [frames[Depth] EXCEPT !.pos = @ + 1, !.id = 0]
        BY <2>1, <3>1, <3>2
      <4>2. frames[Depth] \in [replay : BOOLEAN, signal : Nat, pos : Nat, id : Nat]
        BY <2>1 DEF Top, Frames
      <4> QED BY <4>1, <4>2
    <3> QED BY <3>3, <3>4, <3>5
  <2> QED BY <1>4, <2>2 DEF CallbackReturns, CallbackIsSubscribed, SubscriberIds
<1>5. CASE EndLoop
  <2>1. Depth \in 1 .. Len(frames) /\ DOMAIN frames = 1 .. Len(frames)
    BY <1>5, TopTyped, LenProperties DEF EndLoop, HasJob, Typed
  <2>2. \A k \in 1 .. Depth - 1 : frames[k] \in Frames
    BY <2>1, ElementOfSeq DEF Typed
  <2>3. /\ frames' \in Seq(Frames) /\ Len(frames') = Depth - 1
        /\ \A k \in 1 .. Depth - 1 : frames'[k] = frames[k]
    BY <1>5, <2>1, <2>2, SubSeqProperties DEF EndLoop
  <2>4. \A k \in DOMAIN frames' : k \in DOMAIN frames /\ frames'[k] = frames[k]
    BY <2>1, <2>3, LenProperties
  <2>5. SubscriberIds' = SubscriberIds
    BY <1>5 DEF EndLoop, SubscriberIds
  <2> QED BY <2>4, <2>5 DEF CallbackIsSubscribed
<1>6. CASE Invoke
  <2>1. running \in Jobs
    BY <1>6 DEF Invoke, HasJob, Typed
  <2> QED BY <1>1, <1>2, <1>6, <2>1 DEF Invoke, channel, Jobs, JobKinds
<1> QED
  BY <1>1, <1>2, <1>3, <1>4, <1>5, <1>6
  DEF DispatcherStep, PublishSync, Get, SyncReturns, Release, Finish, channel

LEMMA CallbackStep ==
  ASSUME Base, LockHeld, CallbackIsSubscribed, [Next]_vars
  PROVE  CallbackIsSubscribed'
<1>1. CASE \E t \in Threads : ThreadStep(t) \/ TimesOut(t)
  BY <1>1, CallbackThread
<1>2. CASE DispatcherStep \/ PublishSync
  BY <1>2, CallbackDispatcher
<1>3. CASE UNCHANGED <<frames, subscribers>>
  BY <1>3 DEF CallbackIsSubscribed, SubscriberIds
<1> QED
  BY <1>1, <1>2, <1>3
  DEF Next, Choice, Call, Subscribe, Unsubscribe, RequestStop, WakeUp, vars, channel, Threads

\* A callback that runs is subscribed: unsubscribe() waits for the channel's
\* mutex, which the dispatcher holds from the first callback of a publish() or a
\* replay to the last.
THEOREM UnsubscribeWaits == Spec => []CallbackIsSubscribed
<1>1. Init => CallbackIsSubscribed
  BY DEF Init, CallbackIsSubscribed
<1>2. Base /\ LockHeld /\ CallbackIsSubscribed /\ [Next]_vars
        => (LockHeld /\ CallbackIsSubscribed)'
  BY LockHeldStep, CallbackStep
<1> QED BY <1>1, <1>2, BaseInvariant, LockHeldInit, PTL DEF Spec

-----------------------------------------------------------------------------
(* Waiting callers.  CallerWaits alone is not inductive: two nodes of one    *)
(* caller would let the first wake it with the second still queued.          *)

Waiting(job) == job.kind \in {"drain", "sync"}
InWait(t) == t \in Threads /\ pc[t] = "wait" /\ ~done[t]
\* The dispatcher has yet to read, or to leave, the payload of its node.
Handling == loop \in {"invoke", "deliver", "callback", "sync"}

Waiters ==
  /\ \A i \in 1 .. Len(fifo) : Waiting(fifo[i]) => InWait(fifo[i].by)
  /\ \A i, j \in 1 .. Len(fifo) :
       i # j /\ Waiting(fifo[i]) /\ Waiting(fifo[j]) => fifo[i].by # fifo[j].by
  /\ Handling /\ Waiting(running) =>
       /\ InWait(running.by)
       /\ \A i \in 1 .. Len(fifo) : Waiting(fifo[i]) => fifo[i].by # running.by
  /\ \A t \in Threads : done[t] => pc[t] = "wait"

LEMMA WaitersInit == Init => Waiters
  BY DEF Init, Waiters, Handling

LEMMA WaitersWait ==
  ASSUME Base, Waiters
  PROVE  CallerWaits
<1> SUFFICES ASSUME NEW job \in Pending, Waiting(job)
             PROVE  InWait(job.by)
  BY DEF CallerWaits, Waiting, InWait
<1>1. CASE job \in Queued
  BY <1>1, LenProperties DEF Queued, Waiters, Base, Typed
<1>2. CASE job = running /\ loop # "release"
  <2>1. loop \notin {"get", "finish", "ended"}
    BY <1>2 DEF Base, HasJob, Waiting, NoJob, Job
  <2>2. Handling
    BY <1>2, <2>1 DEF Handling, Base, Typed
  <2> QED BY <1>2, <2>2 DEF Waiters
<1> QED BY <1>1, <1>2 DEF Pending

\* A step of a thread that is not in k_sem_take() disturbs no waiting caller.
LEMMA WaitersOther ==
  ASSUME Base, Waiters, NEW t \in Threads, ~InWait(t),
         \A u \in Threads \ {t} : pc'[u] = pc[u] /\ done'[u] = done[u],
         done'[t] => pc'[t] = "wait",
         UNCHANGED <<fifo, running, loop>>
  PROVE  Waiters'
<1>1. \A u : InWait(u) => InWait(u)'
  BY DEF InWait
<1> QED BY <1>1 DEF Waiters, Handling, Waiting

LEMMA WaitersThread ==
  ASSUME Base, Waiters, NEW t \in Threads, ThreadStep(t) \/ TimesOut(t)
  PROVE  Waiters'
<1> USE DEF Base, Typed
<1> DEFINE NowWaits(u) == u \in Threads /\ pc'[u] = "wait" /\ ~done'[u]
<1>0. UNCHANGED <<loop, running, call>>
  BY ThreadFrame
<1>1. CASE Wake(t)
  BY <1>0, <1>1, WaitersOther DEF Wake, Goto, queue, InWait
<1>2. CASE Put(t)
  <2>1. ~InWait(t) /\ ~done[t] /\ UNCHANGED done
    BY <1>2 DEF Put, InWait, Waiters
  <2>2. \A u \in Threads \ {t} : pc'[u] = pc[u]
    BY <1>2 DEF Put, Goto
  <2>3. \A u : InWait(u) => NowWaits(u) /\ u # t
    BY <2>1, <2>2 DEF InWait
  <2>4. call[t] \in {"drain", "sync"} => NowWaits(t)
    BY <1>2, <2>1 DEF Put, Goto
  <2>5. Job(call[t], t) \in Jobs /\ Job(call[t], t).kind = call[t] /\ Job(call[t], t).by = t
    BY <1>2 DEF Put, Calling, Job, Jobs, JobKinds
  <2>6. /\ Len(fifo') = Len(fifo) + 1 /\ Len(fifo) \in Nat
        /\ fifo'[Len(fifo) + 1] = Job(call[t], t)
        /\ \A i \in 1 .. Len(fifo) : fifo'[i] = fifo[i]
    BY <1>2, <2>5, AppendProperties, LenProperties DEF Put
  <2> DEFINE n == Len(fifo) + 1
  <2>7. \A i \in 1 .. Len(fifo') : \/ i \in 1 .. Len(fifo) /\ fifo'[i] = fifo[i]
                                   \/ i = n /\ fifo'[i] = Job(call[t], t)
    BY <2>6
  <2>8. \A i \in 1 .. Len(fifo) : Waiting(fifo[i]) => InWait(fifo[i].by)
    BY DEF Waiters
  <2>9. \A i, j \in 1 .. Len(fifo) :
          i # j /\ Waiting(fifo[i]) /\ Waiting(fifo[j]) => fifo[i].by # fifo[j].by
    BY DEF Waiters
  <2>10. \A i \in 1 .. Len(fifo') : Waiting(fifo'[i]) => NowWaits(fifo'[i].by)
    <3> TAKE i \in 1 .. Len(fifo')
    <3>1. CASE i \in 1 .. Len(fifo) /\ fifo'[i] = fifo[i]
      BY <2>3, <2>8, <3>1
    <3>2. CASE fifo'[i] = Job(call[t], t)
      BY <2>4, <2>5, <3>2 DEF Waiting
    <3> QED BY <2>7, <3>1, <3>2
  <2>11. \A i, j \in 1 .. Len(fifo') :
          i # j /\ Waiting(fifo'[i]) /\ Waiting(fifo'[j]) => fifo'[i].by # fifo'[j].by
    <3>1. ASSUME NEW i \in 1 .. Len(fifo), Waiting(fifo[i])
          PROVE  fifo[i].by # Job(call[t], t).by
      BY <2>3, <2>5, <2>8, <3>1
    <3> QED BY <2>7, <2>9, <3>1
  <2>12. Handling /\ Waiting(running) =>
           /\ NowWaits(running.by)
           /\ \A i \in 1 .. Len(fifo') : Waiting(fifo'[i]) => fifo'[i].by # running.by
    <3> SUFFICES ASSUME Handling, Waiting(running)
                 PROVE  /\ NowWaits(running.by)
                        /\ \A i \in 1 .. Len(fifo') :
                             Waiting(fifo'[i]) => fifo'[i].by # running.by
      OBVIOUS
    <3>1. /\ InWait(running.by)
          /\ \A i \in 1 .. Len(fifo) : Waiting(fifo[i]) => fifo[i].by # running.by
      BY DEF Waiters
    <3>2. running.by # Job(call[t], t).by
      BY <2>3, <2>5, <3>1
    <3> QED BY <2>3, <2>7, <3>1, <3>2
  <2>13. \A u \in Threads : done'[u] => pc'[u] = "wait"
    BY <2>1, <2>2 DEF Waiters
  <2> QED BY <1>0, <2>10, <2>11, <2>12, <2>13 DEF Waiters, Handling, Waiting, InWait
<1>3. CASE UNCHANGED <<fifo, done>> /\ pc[t] # "wait" /\ \E l : Goto(t, l)
  <2>1. ~InWait(t) /\ ~done'[t]
    BY <1>3 DEF InWait, Waiters
  <2>2. \A u \in Threads \ {t} : pc'[u] = pc[u]
    BY <1>3 DEF Goto
  <2> QED BY <1>0, <1>3, <2>1, <2>2, WaitersOther
<1>4. CASE \/ Allocate(t) \/ NoWaitEmpty(t) \/ TimesOut(t) \/ Check(t) \/ Lock(t)
           \/ Recheck(t) \/ Recount(t) \/ Register(t) \/ Unregister(t)
  <2>1. UNCHANGED <<fifo, done>> /\ pc[t] # "wait"
    BY <1>4 DEF Allocate, NoWaitEmpty, TimesOut, PoolEmpty, Check, Lock, Recheck, Recount,
       Register, Unregister, queue
  <2>2. \E l : Goto(t, l)
    BY <1>4 DEF Allocate, NoWaitEmpty, TimesOut, PoolEmpty, Abandon, Check, Lock, Recheck,
       Recount, Register, Unregister
  <2> QED BY <1>3, <2>1, <2>2
<1> QED BY <1>1, <1>2, <1>4 DEF ThreadStep

\* The dispatcher wakes the caller of the node it handles, and is done with it.
LEMMA WaitersWoken ==
  ASSUME Base, Waiters, Handling, Waiting(running),
         done' = [done EXCEPT ![running.by] = TRUE], loop' = "release",
         UNCHANGED <<fifo, running, pc>>
  PROVE  Waiters'
<1>1. InWait(running.by)
  BY DEF Waiters
<1>2. \A u : InWait(u) /\ u # running.by => InWait(u)'
  BY DEF InWait, Base, Typed
<1>3. \A t \in Threads : done'[t] => pc'[t] = "wait"
  BY <1>1 DEF Waiters, InWait, Base, Typed
<1> QED BY <1>2, <1>3 DEF Waiters, Handling, Waiting

LEMMA WaitersDispatcher ==
  ASSUME Base, Waiters, DispatcherStep \/ PublishSync
  PROVE  Waiters'
<1> USE DEF Base, Typed
<1>1. CASE UNCHANGED <<fifo, running, pc, done>> /\ (Handling' => Handling)
  BY <1>1 DEF Waiters, Waiting, InWait
<1>2. CASE Get
  <2>1. /\ UNCHANGED <<pc, done>> /\ fifo # <<>> /\ fifo' = Tail(fifo) /\ loop' = "invoke"
        /\ running' = fifo[1]
    BY <1>2 DEF Get, threads
  <2>2. /\ 1 \in 1 .. Len(fifo) /\ Len(fifo') = Len(fifo) - 1
        /\ \A i \in 1 .. Len(fifo') : i + 1 \in 1 .. Len(fifo) /\ fifo'[i] = fifo[i + 1]
    BY <2>1, HeadTailProperties, EmptySeq
  <2>3. /\ \A i \in 1 .. Len(fifo) : Waiting(fifo[i]) => InWait(fifo[i].by)
        /\ \A i, j \in 1 .. Len(fifo) :
             i # j /\ Waiting(fifo[i]) /\ Waiting(fifo[j]) => fifo[i].by # fifo[j].by
    BY DEF Waiters
  <2>4. \A i \in 1 .. Len(fifo') : Waiting(fifo'[i]) => InWait(fifo'[i].by)
    BY <2>2, <2>3
  <2>5. \A i, j \in 1 .. Len(fifo') :
          i # j /\ Waiting(fifo'[i]) /\ Waiting(fifo'[j]) => fifo'[i].by # fifo'[j].by
    <3> SUFFICES ASSUME NEW i \in 1 .. Len(fifo'), NEW j \in 1 .. Len(fifo'), i # j,
                        Waiting(fifo'[i]), Waiting(fifo'[j])
                 PROVE  fifo'[i].by # fifo'[j].by
      OBVIOUS
    <3>1. /\ i + 1 \in 1 .. Len(fifo) /\ j + 1 \in 1 .. Len(fifo) /\ i + 1 # j + 1
          /\ fifo'[i] = fifo[i + 1] /\ fifo'[j] = fifo[j + 1]
      BY <2>2
    <3> HIDE <2>2
    <3> QED BY <2>3, <3>1
  <2>6. Waiting(running') =>
          /\ InWait(running'.by)
          /\ \A i \in 1 .. Len(fifo') : Waiting(fifo'[i]) => fifo'[i].by # running'.by
    <3>1. \A i \in 1 .. Len(fifo') : i + 1 # 1
      OBVIOUS
    <3> QED BY <2>1, <2>2, <2>3, <3>1
  <2>7. \A t \in Threads : done'[t] => pc'[t] = "wait"
    BY <2>1 DEF Waiters
  <2> QED BY <2>1, <2>4, <2>5, <2>6, <2>7 DEF Waiters, Waiting, InWait
<1>3. CASE Invoke
  <2>1. running \in Jobs /\ Handling /\ UNCHANGED <<fifo, running, pc>>
    BY <1>3 DEF Invoke, HasJob, Handling, queue
  <2>2. CASE running.kind = "drain"
    BY <1>3, <2>1, <2>2, WaitersWoken DEF Invoke, Waiting
  <2>3. CASE running.kind # "drain"
    <3>1. UNCHANGED done
      BY <1>3, <2>1, <2>3 DEF Invoke, Jobs, JobKinds
    <3> QED BY <1>1, <2>1, <3>1
  <2> QED BY <2>2, <2>3
<1>4. CASE Deliver \/ CallbackReturns \/ EndLoop \/ PublishSync
  <2>1. UNCHANGED <<fifo, running, pc, done>> /\ Handling
    BY <1>4 DEF Deliver, CallbackReturns, EndLoop, PublishSync, Handling, queue, threads
  <2> QED BY <1>1, <2>1
<1>5. CASE SyncReturns
  <2>1. Waiting(running) /\ Handling /\ UNCHANGED <<fifo, running, pc>>
    BY <1>5 DEF SyncReturns, HasJob, Waiting, Handling, queue
  <2> QED BY <1>5, <2>1, WaitersWoken DEF SyncReturns
<1>6. CASE Release \/ Finish
  <2>1. UNCHANGED <<fifo, pc, done>> /\ ~Handling'
    BY <1>6 DEF Release, Finish, Handling, queue, threads
  <2> HIDE DEF Base
  <2>2. \A t : InWait(t)' <=> InWait(t)
    BY <2>1 DEF InWait
  <2>3. /\ \A i \in 1 .. Len(fifo) : Waiting(fifo[i]) => InWait(fifo[i].by)
        /\ \A i, j \in 1 .. Len(fifo) :
             i # j /\ Waiting(fifo[i]) /\ Waiting(fifo[j]) => fifo[i].by # fifo[j].by
        /\ \A t \in Threads : done[t] => pc[t] = "wait"
    BY DEF Waiters
  <2> QED BY <2>1, <2>2, <2>3 DEF Waiters
<1> QED BY <1>2, <1>3, <1>4, <1>5, <1>6 DEF DispatcherStep

LEMMA WaitersStep ==
  ASSUME Base, Waiters, [Next]_vars
  PROVE  Waiters'
<1> USE DEF Base, Typed
<1>1. CASE \E t \in Threads : ThreadStep(t) \/ TimesOut(t)
  BY <1>1, WaitersThread
<1>2. CASE DispatcherStep \/ PublishSync
  BY <1>2, WaitersDispatcher
<1>3. CASE RequestStop \/ UNCHANGED vars
  <2>1. UNCHANGED <<fifo, loop, running, pc, done>>
    BY <1>3 DEF RequestStop, vars, queue, dispatch, threads
  <2> QED BY <2>1 DEF Waiters, Waiting, InWait, Handling
<1>4. CASE WakeUp
  <2>1. Job("noop", Owner) \in Jobs
    BY DEF Job, Jobs, JobKinds
  <2>2. /\ Len(fifo') = Len(fifo) + 1 /\ Len(fifo) \in Nat
        /\ fifo'[Len(fifo) + 1] = Job("noop", Owner)
        /\ \A i \in 1 .. Len(fifo) : fifo'[i] = fifo[i]
    BY <1>4, <2>1, AppendProperties, LenProperties DEF WakeUp
  <2>3. \A i \in 1 .. Len(fifo') : Waiting(fifo'[i]) =>
          i \in 1 .. Len(fifo) /\ fifo'[i] = fifo[i]
    <3>1. ~Waiting(Job("noop", Owner))
      BY DEF Waiting, Job
    <3>2. \A i \in 1 .. Len(fifo') : i \in 1 .. Len(fifo) \/ i = Len(fifo) + 1
      BY <2>2
    <3> QED BY <2>2, <3>1, <3>2
  <2>4. UNCHANGED <<loop, running, pc, done>>
    BY <1>4 DEF WakeUp, dispatch, threads
  <2>5. \A i \in 1 .. Len(fifo) : Waiting(fifo[i]) => InWait(fifo[i].by)
    BY DEF Waiters
  <2>6. \A i, j \in 1 .. Len(fifo) :
          i # j /\ Waiting(fifo[i]) /\ Waiting(fifo[j]) => fifo[i].by # fifo[j].by
    BY DEF Waiters
  <2>7. \A i \in 1 .. Len(fifo') : Waiting(fifo'[i]) => InWait(fifo'[i].by)
    BY <2>3, <2>5
  <2>8. \A i, j \in 1 .. Len(fifo') :
          i # j /\ Waiting(fifo'[i]) /\ Waiting(fifo'[j]) => fifo'[i].by # fifo'[j].by
    BY <2>3, <2>6
  <2>9. Handling /\ Waiting(running) =>
          /\ InWait(running.by)
          /\ \A i \in 1 .. Len(fifo') : Waiting(fifo'[i]) => fifo'[i].by # running.by
    BY <2>3 DEF Waiters
  <2>10. \A t \in Threads : done'[t] => pc'[t] = "wait"
    BY <2>4 DEF Waiters
  <2> QED BY <2>4, <2>7, <2>8, <2>9, <2>10 DEF Waiters, Waiting, InWait, Handling
<1>5. ASSUME NEW t \in Threads,
             \/ \E kind \in {"publish", "drain", "sync"} : t \in Clients /\ Call(t, kind)
             \/ \E replay \in BOOLEAN : Subscribe(t, replay)
             \/ \E id \in SubscriberIds : Unsubscribe(t, id)
      PROVE  Waiters'
  <2>1. /\ UNCHANGED <<fifo, running, loop, done>> /\ pc[t] = "idle"
        /\ \A u \in Threads \ {t} : pc'[u] = pc[u]
    BY <1>5 DEF Call, Subscribe, Unsubscribe, NewCall, Goto, queue, dispatch
  <2>2. ~InWait(t) /\ ~done'[t]
    BY <2>1 DEF InWait, Waiters
  <2> QED BY <2>1, <2>2, WaitersOther
<1> QED
  BY <1>1, <1>2, <1>3, <1>4, <1>5 DEF Next, Choice, Threads

\* drain() and dispatch_sync() do not return while the dispatcher still has a
\* node that points into their stack.
THEOREM CallersWait == Spec => []CallerWaits
<1>1. Base /\ Waiters /\ [Next]_vars => Waiters'
  BY WaitersStep
<1>2. Base /\ Waiters => CallerWaits
  BY WaitersWait
<1> QED BY <1>1, <1>2, BaseInvariant, WaitersInit, PTL DEF Spec

-----------------------------------------------------------------------------
(* The nodes of the slab.                                                    *)

LEMMA HoldersFinite == IsFiniteSet(Holders)
<1>1. IsFiniteSet(Threads)
  BY ClientsAssumption, FS_AddElement DEF Threads
<1> QED BY <1>1, FS_Subset DEF Holders

\* A thread's step takes one node, gives one up, or neither.
LEMMA HoldersMove ==
  ASSUME Typed, NEW t \in Threads, NEW l, pc' = [pc EXCEPT ![t] = l]
  PROVE  /\ Cardinality(Holders) \in Nat
         /\ ~HoldsNode(t) /\ l \in {"check", "lock"} =>
              Cardinality(Holders)' = Cardinality(Holders) + 1
         /\ HoldsNode(t) /\ l \in {"idle", "wait"} =>
              Cardinality(Holders)' = Cardinality(Holders) - 1
         /\ HoldsNode(t) /\ l \in {"lock", "recheck", "put"} =>
              Cardinality(Holders)' = Cardinality(Holders)
         /\ ~HoldsNode(t) /\ l \in {"idle", "allocate", "wait", "recount", "register",
                                    "unregister"} =>
              Cardinality(Holders)' = Cardinality(Holders)
<1> USE DEF Typed
<1>1. \A u \in Threads \ {t} : HoldsNode(u)' <=> HoldsNode(u)
  BY DEF HoldsNode
<1>2. Cardinality(Holders) \in Nat
  BY HoldersFinite, FS_CardinalityType
<1>3. CASE ~HoldsNode(t) /\ l \in {"check", "lock"}
  <2>1. Holders' = Holders \cup {t} /\ t \notin Holders
    BY <1>1, <1>3 DEF Holders, HoldsNode
  <2>2. Cardinality(Holders \cup {t}) = Cardinality(Holders) + 1
    BY <2>1, HoldersFinite, FS_AddElement
  <2> QED BY <1>2, <1>3, <2>1, <2>2 DEF HoldsNode
<1>4. CASE HoldsNode(t) /\ l \in {"idle", "wait"}
  <2>1. Holders' = Holders \ {t} /\ t \in Holders
    BY <1>1, <1>4 DEF Holders, HoldsNode
  <2>2. Cardinality(Holders \ {t}) = Cardinality(Holders) - 1
    BY <2>1, HoldersFinite, FS_RemoveElement
  <2> QED BY <1>2, <1>4, <2>1, <2>2 DEF HoldsNode
<1>5. CASE \/ HoldsNode(t) /\ l \in {"lock", "recheck", "put"}
           \/ ~HoldsNode(t) /\ l \notin {"check", "lock", "recheck", "put"}
  <2>1. Holders' = Holders
    BY <1>1, <1>5 DEF Holders, HoldsNode
  <2> QED BY <1>2, <1>5, <2>1
<1> QED BY <1>2, <1>3, <1>4, <1>5

LEMMA NodesInit == Init => NodesConserved
<1> SUFFICES ASSUME Init PROVE NodesConserved
  OBVIOUS
<1>1. Holders = {}
  BY DEF Init, Holders, HoldsNode
<1> QED BY <1>1, FS_EmptySet, EmptySeq, ClientsAssumption DEF Init, NodesConserved

LEMMA NodesThread ==
  ASSUME Base, NodesConserved, NEW t \in Threads, ThreadStep(t) \/ TimesOut(t)
  PROVE  NodesConserved'
<1> USE DEF Base, Typed
<1>0. UNCHANGED running /\ Len(fifo) \in Nat
  BY ThreadFrame, LenProperties
<1>1. CASE Allocate(t)
  <2>1. PICK l \in {"check", "lock"} : pc' = [pc EXCEPT ![t] = l]
    BY <1>1 DEF Allocate, Goto
  <2>2. Cardinality(Holders)' = Cardinality(Holders) + 1 /\ Cardinality(Holders) \in Nat
    BY <1>1, <2>1, HoldersMove DEF Allocate, HoldsNode
  <2> QED BY <1>0, <1>1, <2>2 DEF Allocate, NodesConserved
<1>2. CASE (Check(t) \/ Recheck(t)) /\ ~Running
  <2>1. pc' = [pc EXCEPT ![t] = "idle"] /\ free' = free + 1 /\ UNCHANGED fifo
    BY <1>2 DEF Check, Recheck, Abandon, Goto, GiveBack
  <2>2. Cardinality(Holders)' = Cardinality(Holders) - 1 /\ Cardinality(Holders) \in Nat
    BY <1>2, <2>1, HoldersMove DEF Check, Recheck, HoldsNode
  <2> QED BY <1>0, <2>1, <2>2 DEF NodesConserved
<1>3. CASE Put(t)
  <2>1. PICK l \in {"idle", "wait"} : pc' = [pc EXCEPT ![t] = l]
    BY <1>3 DEF Put, Goto
  <2>2. Cardinality(Holders)' = Cardinality(Holders) - 1 /\ Cardinality(Holders) \in Nat
    BY <1>3, <2>1, HoldersMove DEF Put, HoldsNode
  <2>3. Job(call[t], t) \in Jobs
    BY <1>3 DEF Put, Calling, Job, Jobs, JobKinds
  <2>4. Len(fifo') = Len(fifo) + 1 /\ UNCHANGED free
    BY <1>3, <2>3, AppendProperties DEF Put
  <2> QED BY <1>0, <2>2, <2>4 DEF NodesConserved
<1>4. CASE /\ UNCHANGED <<fifo, free>>
           /\ \/ HoldsNode(t) /\ \E l \in {"lock", "recheck", "put"} : Goto(t, l)
              \/ ~HoldsNode(t) /\ \E l \in {"idle", "allocate", "wait", "recount", "register",
                                           "unregister"} : Goto(t, l)
  <2>1. Cardinality(Holders)' = Cardinality(Holders)
    BY <1>4, HoldersMove DEF Goto
  <2> QED BY <1>0, <1>4, <2>1 DEF NodesConserved
<1>5. CASE (Check(t) \/ Recheck(t)) /\ Running
  BY <1>4, <1>5 DEF Check, Recheck, HoldsNode
<1>6. CASE Lock(t)
  BY <1>4, <1>6 DEF Lock, HoldsNode
<1>7. CASE \/ NoWaitEmpty(t) \/ TimesOut(t) \/ Wake(t) \/ Recount(t) \/ Register(t)
           \/ Unregister(t)
  <2>1. ~HoldsNode(t) /\ UNCHANGED <<fifo, free>>
    BY <1>7 DEF NoWaitEmpty, TimesOut, PoolEmpty, Wake, Recount, Register, Unregister,
       HoldsNode, queue
  <2>2. \E l \in {"idle", "allocate", "wait", "recount", "register", "unregister"} : Goto(t, l)
    BY <1>7 DEF NoWaitEmpty, TimesOut, PoolEmpty, Abandon, Wake, Recount, Register, Unregister
  <2> QED BY <1>4, <2>1, <2>2
<1> QED BY <1>1, <1>2, <1>3, <1>5, <1>6, <1>7 DEF ThreadStep

LEMMA NodesStep ==
  ASSUME Base, NodesConserved, [Next]_vars
  PROVE  NodesConserved'
<1> USE DEF Base, Typed
<1>0. Len(fifo) \in Nat /\ Cardinality(Holders) \in Nat
  BY LenProperties, HoldersFinite, FS_CardinalityType
<1>1. CASE \E t \in Threads : ThreadStep(t) \/ TimesOut(t)
  BY <1>1, NodesThread
<1>2. CASE UNCHANGED <<free, fifo, running, pc>>
  <2>1. Holders' = Holders
    BY <1>2 DEF Holders, HoldsNode
  <2> QED BY <1>2, <2>1 DEF NodesConserved
<1>3. CASE Get
  <2>1. Holders' = Holders
    BY <1>3 DEF Get, threads, Holders, HoldsNode
  <2>2. running = NoJob /\ running' # NoJob /\ Len(fifo') = Len(fifo) - 1 /\ UNCHANGED free
    BY <1>3, HeadTailProperties, NoJobKind DEF Get, HasJob
  <2> QED BY <1>0, <2>1, <2>2 DEF NodesConserved
<1>4. CASE Release
  <2>1. Holders' = Holders
    BY <1>4 DEF Release, threads, Holders, HoldsNode
  <2>2. running # NoJob /\ running' = NoJob /\ free' = free + 1 /\ UNCHANGED fifo
    BY <1>4 DEF Release, HasJob
  <2> QED BY <1>0, <2>1, <2>2 DEF NodesConserved
<1>5. CASE WakeUp
  <2>1. Holders' = Holders
    BY <1>5 DEF WakeUp, threads, Holders, HoldsNode
  <2>2. Job("noop", Owner) \in Jobs
    BY DEF Job, Jobs, JobKinds
  <2>3. Len(fifo') = Len(fifo) + 1 /\ free' = free - 1 /\ UNCHANGED running
    BY <1>5, <2>2, AppendProperties DEF WakeUp, dispatch
  <2> QED BY <1>0, <2>1, <2>3 DEF NodesConserved
<1>6. ASSUME NEW t \in Threads,
             \/ \E kind \in {"publish", "drain", "sync"} : t \in Clients /\ Call(t, kind)
             \/ \E replay \in BOOLEAN : Subscribe(t, replay)
             \/ \E id \in SubscriberIds : Unsubscribe(t, id)
      PROVE  NodesConserved'
  <2>1. ~HoldsNode(t) /\ UNCHANGED <<free, fifo, running>>
    BY <1>6 DEF Call, Subscribe, Unsubscribe, NewCall, HoldsNode, queue, dispatch
  <2>2. PICK l \in {"allocate", "register", "unregister"} : pc' = [pc EXCEPT ![t] = l]
    BY <1>6 DEF Call, Subscribe, Unsubscribe, Goto
  <2>3. Cardinality(Holders)' = Cardinality(Holders)
    BY <2>1, <2>2, HoldersMove
  <2> QED BY <2>1, <2>3 DEF NodesConserved
<1>7. CASE DispatcherStep /\ ~Get /\ ~Release
  BY <1>2, <1>7 DEF DispatcherStep, Invoke, Deliver, CallbackReturns, EndLoop, SyncReturns,
     Finish, queue, threads
<1>8. CASE PublishSync \/ RequestStop \/ UNCHANGED vars
  BY <1>2, <1>8 DEF PublishSync, RequestStop, vars, queue, dispatch, threads
<1> QED
  BY <1>1, <1>3, <1>4, <1>5, <1>6, <1>7, <1>8 DEF Next, Choice, Threads

\* Every node of the slab is free, queued, held by one thread or handled by the
\* dispatcher: release() runs exactly once for each, on every path of a call.
THEOREM NodesAreConserved == Spec => []NodesConserved
<1>1. Base /\ NodesConserved /\ [Next]_vars => NodesConserved'
  BY NodesStep
<1> QED BY <1>1, BaseInvariant, NodesInit, PTL DEF Spec

\* Every variable keeps its type, and the slab never has more free nodes than
\* nodes.
THEOREM TypeCorrect == Spec => []TypeOK
<1>1. Base /\ NodesConserved => TypeOK
  <2> SUFFICES ASSUME Base, NodesConserved PROVE TypeOK
    OBVIOUS
  <2>1. Len(fifo) \in Nat /\ Cardinality(Holders) \in Nat
    BY LenProperties, HoldersFinite, FS_CardinalityType DEF Base, Typed
  <2> QED BY <2>1, ClientsAssumption DEF Base, Typed, TypeOK, NodesConserved
<1> QED BY <1>1, BaseInvariant, NodesAreConserved, PTL

-----------------------------------------------------------------------------
(* drain().  A caller whose barrier met no newer work: the barrier is in the *)
(* FIFO with nothing counted behind it, or it is the dispatcher's node and   *)
(* the FIFO has nothing counted, or it is done and nothing counted is left.  *)

Uncounted(i) == ~Counted(fifo[i].kind)
NothingQueued == \A i \in 1 .. Len(fifo) : Uncounted(i)
BarrierQueued(t) ==
  \E k \in 1 .. Len(fifo) :
    /\ fifo[k].kind = "drain" /\ fifo[k].by = t
    /\ \A i \in 1 .. Len(fifo) : i >= k => Uncounted(i)
BarrierRuns(t) ==
  loop = "invoke" /\ running.kind = "drain" /\ running.by = t /\ NothingQueued
Drained == NothingQueued /\ (Handling => ~Counted(running.kind))

InDrain(t) == call[t] = "drain" /\ pc[t] \in {"wait", "recount"}
Barriers ==
  \A t \in Threads : InDrain(t) =>
    /\ before[t] <= generation
    /\ before[t] = generation => BarrierQueued(t) \/ BarrierRuns(t) \/ Drained

LEMMA BarriersInit == Init => Barriers
  BY DEF Init, Barriers, InDrain

\* A thread that has been woken, or is in recount, has no barrier left.
LEMMA BarrierDone ==
  ASSUME Base, Waiters, Barriers, NEW t \in Threads, InDrain(t), ~InWait(t),
         before[t] = generation
  PROVE  Drained
<1>1. ~BarrierQueued(t)
  BY DEF BarrierQueued, Waiters, Waiting
<1>2. ~BarrierRuns(t)
  BY DEF BarrierRuns, Waiters, Waiting, Handling
<1> QED BY <1>1, <1>2 DEF Barriers

\* A step that leaves the queue and the dispatcher alone.
LEMMA BarriersKept ==
  ASSUME Base, Barriers, UNCHANGED <<fifo, loop, running, generation, before>>,
         \A t \in Threads : InDrain(t)' => InDrain(t)
  PROVE  Barriers'
  BY DEF Barriers, BarrierQueued, BarrierRuns, Drained, NothingQueued, Uncounted, Handling

LEMMA BarriersPut ==
  ASSUME Base, Waiters, Barriers, NEW t \in Threads, Put(t)
  PROVE  Barriers'
<1> USE DEF Base, Typed
<1>1. Job(call[t], t) \in Jobs /\ Job(call[t], t).kind = call[t] /\ Job(call[t], t).by = t
  BY DEF Put, Calling, Job, Jobs, JobKinds
<1>2. /\ Len(fifo') = Len(fifo) + 1 /\ Len(fifo) \in Nat
      /\ fifo'[Len(fifo) + 1] = Job(call[t], t)
      /\ \A i \in 1 .. Len(fifo) : fifo'[i] = fifo[i]
  BY <1>1, AppendProperties, LenProperties DEF Put
<1> DEFINE n == Len(fifo) + 1
<1>3. /\ n \in 1 .. Len(fifo') /\ n \in Nat
      /\ \A i \in 1 .. Len(fifo') : \/ i \in 1 .. Len(fifo) /\ i < n
                                    \/ i = n
  BY <1>2
<1>4. UNCHANGED <<loop, running, call>> /\ \A u \in Threads \ {t} : pc'[u] = pc[u]
  BY DEF Put, Goto, dispatch
<1> SUFFICES ASSUME NEW u \in Threads, InDrain(u)'
             PROVE  /\ before'[u] <= generation'
                    /\ before'[u] = generation' =>
                         (BarrierQueued(u) \/ BarrierRuns(u) \/ Drained)'
  BY DEF Barriers
<1>5. CASE u = t
  <2>1. call[t] = "drain" /\ before'[t] = generation /\ generation' = generation
    BY <1>4, <1>5 DEF InDrain, Put, Counted
  <2>2. fifo'[n].kind = "drain" /\ fifo'[n].by = t
    BY <1>1, <1>2, <2>1
  <2>3. BarrierQueued(t)'
    <3>1. ~Counted(fifo'[n].kind)
      BY <2>2 DEF Counted
    <3>2. ASSUME NEW i \in 1 .. Len(fifo'), i >= n  PROVE  ~Counted(fifo'[i].kind)
      <4>1. i = n
        <5> HIDE DEF Base, Typed
        <5> QED BY <1>3, <3>2
      <4> QED BY <3>1, <4>1
    <3> HIDE DEF Base, Typed
    <3> QED BY <1>3, <2>2, <3>2 DEF BarrierQueued, Uncounted
  <2> QED BY <1>5, <2>1, <2>3
<1>6. CASE u # t
  <2>1. InDrain(u) /\ before'[u] = before[u]
    BY <1>4, <1>6 DEF InDrain, Put
  <2>2. CASE Counted(call[t])
    <3>1. before[u] <= generation /\ generation' = generation + 1
      BY <2>1, <2>2 DEF Barriers, Put
    <3>2. before[u] \in Nat /\ generation \in Nat
      OBVIOUS
    <3> QED
      <4> HIDE DEF Base, Typed
      <4> QED BY <2>1, <3>1, <3>2
  <2>3. CASE ~Counted(call[t])
    <3>1. generation' = generation /\ before'[u] <= generation'
      BY <2>1, <2>3 DEF Put, Barriers
    <3>2. ~Counted(fifo'[n].kind)
      BY <1>1, <1>2, <2>3
    <3>3. \A i \in 1 .. Len(fifo') : \/ i \in 1 .. Len(fifo) /\ fifo'[i] = fifo[i]
                                     \/ ~Counted(fifo'[i].kind)
      BY <1>2, <1>3, <3>2
    <3>4. BarrierQueued(u) => BarrierQueued(u)'
      <4> SUFFICES ASSUME BarrierQueued(u)  PROVE  BarrierQueued(u)'
        OBVIOUS
      <4>1. PICK k \in 1 .. Len(fifo) :
              /\ fifo[k].kind = "drain" /\ fifo[k].by = u
              /\ \A i \in 1 .. Len(fifo) : i >= k => Uncounted(i)
        BY DEF BarrierQueued
      <4>2. k \in 1 .. Len(fifo') /\ fifo'[k] = fifo[k]
        BY <1>2
      <4>3. \A i \in 1 .. Len(fifo') : i >= k => ~Counted(fifo'[i].kind)
        BY <3>3, <4>1 DEF Uncounted
      <4> HIDE DEF Base, Typed
      <4> QED BY <4>1, <4>2, <4>3 DEF BarrierQueued, Uncounted
    <3>5. NothingQueued => NothingQueued'
      BY <3>3 DEF NothingQueued, Uncounted
    <3>6. (BarrierRuns(u) => BarrierRuns(u)') /\ (Drained => Drained')
      BY <1>4, <3>5 DEF BarrierRuns, Drained, Handling
    <3> QED BY <2>1, <3>1, <3>4, <3>6 DEF Barriers
  <2> QED BY <2>2, <2>3
<1> QED BY <1>5, <1>6

LEMMA BarriersThread ==
  ASSUME Base, Waiters, Barriers, NEW t \in Threads, ThreadStep(t) \/ TimesOut(t)
  PROVE  Barriers'
<1> USE DEF Base, Typed
<1>1. CASE Put(t)
  BY <1>1, BarriersPut
<1>2. CASE ~Put(t)
  <2>1. UNCHANGED <<fifo, loop, running, generation, before, call>>
    BY <1>2, ThreadFrame DEF ThreadStep, TimesOut, Allocate, NoWaitEmpty, PoolEmpty, Check,
       Lock, Recheck, Wake, Recount, Register, Unregister, queue
  <2>2. \A u \in Threads \ {t} : pc'[u] = pc[u]
    BY <1>2 DEF ThreadStep, TimesOut, Allocate, NoWaitEmpty, PoolEmpty, Abandon, Check,
       Lock, Recheck, Wake, Recount, Register, Unregister, Goto
  <2>3. pc'[t] \in {"wait", "recount"} => pc[t] = "wait"
    BY <1>2 DEF ThreadStep, TimesOut, Allocate, NoWaitEmpty, PoolEmpty, Abandon, Check,
       Lock, Recheck, Wake, Recount, Register, Unregister, Goto
  <2> QED BY <2>1, <2>2, <2>3, BarriersKept DEF InDrain
<1> QED BY <1>1, <1>2

LEMMA BarriersDispatcher ==
  ASSUME Base, Waiters, Barriers, DispatcherStep \/ PublishSync
  PROVE  Barriers'
<1> USE DEF Base, Typed
<1>0. UNCHANGED <<pc, call, before, generation>>
  BY DEF DispatcherStep, Get, Invoke, Deliver, CallbackReturns, EndLoop, SyncReturns,
         Release, Finish, PublishSync, queue, threads
<1> SUFFICES ASSUME NEW t \in Threads, InDrain(t), before[t] = generation
             PROVE  (BarrierQueued(t) \/ BarrierRuns(t) \/ Drained)'
  BY <1>0 DEF Barriers, InDrain
<1>1. BarrierQueued(t) \/ BarrierRuns(t) \/ Drained
  BY DEF Barriers
<1>2. CASE Get
  <2>1. fifo # <<>> /\ fifo' = Tail(fifo) /\ loop' = "invoke" /\ running' = fifo[1]
        /\ ~Handling
    BY <1>2 DEF Get, Handling
  <2>2. /\ 1 \in 1 .. Len(fifo) /\ Len(fifo') = Len(fifo) - 1 /\ Len(fifo) \in Nat
        /\ \A i \in 1 .. Len(fifo') : i + 1 \in 1 .. Len(fifo) /\ fifo'[i] = fifo[i + 1]
    BY <2>1, HeadTailProperties, EmptySeq
  <2>3. CASE BarrierQueued(t)
    <3>1. PICK k \in 1 .. Len(fifo) :
            /\ fifo[k].kind = "drain" /\ fifo[k].by = t
            /\ \A i \in 1 .. Len(fifo) : i >= k => ~Counted(fifo[i].kind)
      BY <2>3 DEF BarrierQueued, Uncounted
    <3>2. \A i \in 1 .. Len(fifo') : i + 1 >= k => ~Counted(fifo'[i].kind)
      BY <2>2, <3>1
    <3>3. CASE k = 1
      BY <2>1, <3>1, <3>2, <3>3 DEF BarrierRuns, NothingQueued, Uncounted
    <3>4. CASE k > 1
      <4>1. k - 1 \in 1 .. Len(fifo') /\ (k - 1) + 1 = k
        <5> HIDE DEF Base, Typed
        <5>1. Len(fifo') = Len(fifo) - 1 /\ Len(fifo) \in Nat
          BY <2>2
        <5> QED BY <3>4, <5>1
      <4>3. fifo'[k - 1] = fifo[k]
        BY <2>2, <4>1
      <4>2. \A i \in 1 .. Len(fifo') : i >= k - 1 => ~Counted(fifo'[i].kind)
        BY <3>2
      <4> QED BY <3>1, <4>1, <4>2, <4>3 DEF BarrierQueued, Uncounted
    <3> QED BY <3>3, <3>4
  <2>4. CASE Drained
    BY <2>1, <2>2, <2>4 DEF Drained, NothingQueued, Uncounted
  <2> QED BY <1>1, <2>1, <2>3, <2>4 DEF BarrierRuns, Handling
<1>3. CASE UNCHANGED <<fifo, running>> /\ loop # "invoke" /\ (Handling' => Handling)
  BY <1>1, <1>3 DEF BarrierQueued, BarrierRuns, Drained, NothingQueued, Uncounted
<1>4. CASE Invoke
  <2>1. /\ UNCHANGED <<fifo, running>> /\ running \in Jobs /\ Handling
        /\ running.kind = "drain" => loop' = "release"
    BY <1>4 DEF Invoke, HasJob, Handling, queue
  <2>2. BarrierRuns(t) => Drained'
    BY <2>1 DEF BarrierRuns, Drained, NothingQueued, Uncounted, Handling
  <2> QED BY <1>1, <2>1, <2>2 DEF BarrierQueued, Drained, NothingQueued, Uncounted
<1>5. CASE Deliver \/ CallbackReturns \/ EndLoop \/ PublishSync \/ SyncReturns
  <2>1. UNCHANGED <<fifo, running>> /\ loop # "invoke" /\ Handling
    BY <1>5 DEF Deliver, CallbackReturns, EndLoop, PublishSync, SyncReturns, Handling, queue
  <2> QED BY <1>3, <2>1
<1>6. CASE Release \/ Finish
  <2>1. UNCHANGED fifo /\ loop # "invoke" /\ ~Handling'
    BY <1>6 DEF Release, Finish, Handling, queue
  <2> QED BY <1>1, <2>1 DEF BarrierQueued, BarrierRuns, Drained, NothingQueued, Uncounted
<1> QED BY <1>2, <1>4, <1>5, <1>6 DEF DispatcherStep

LEMMA BarriersStep ==
  ASSUME Base, Waiters, Barriers, [Next]_vars
  PROVE  Barriers'
<1> USE DEF Base, Typed
<1>1. CASE \E t \in Threads : ThreadStep(t) \/ TimesOut(t)
  BY <1>1, BarriersThread
<1>2. CASE DispatcherStep \/ PublishSync
  BY <1>2, BarriersDispatcher
<1>3. CASE RequestStop \/ UNCHANGED vars
  BY <1>3, BarriersKept DEF InDrain, RequestStop, vars, queue, dispatch, threads
<1>4. CASE WakeUp
  <2>1. Job("noop", Owner) \in Jobs /\ ~Counted(Job("noop", Owner).kind)
    BY DEF Job, Jobs, JobKinds, Counted
  <2>2. /\ Len(fifo') = Len(fifo) + 1 /\ Len(fifo) \in Nat
        /\ fifo'[Len(fifo) + 1] = Job("noop", Owner)
        /\ \A i \in 1 .. Len(fifo) : fifo'[i] = fifo[i]
    BY <1>4, <2>1, AppendProperties, LenProperties DEF WakeUp
  <2>3. /\ \A i \in 1 .. Len(fifo) : i \in 1 .. Len(fifo')
        /\ \A i \in 1 .. Len(fifo') : \/ i \in 1 .. Len(fifo) /\ fifo'[i] = fifo[i]
                                      \/ ~Counted(fifo'[i].kind)
    <3>1. Len(fifo') = Len(fifo) + 1 /\ Len(fifo) \in Nat
      BY <2>2
    <3>2. /\ \A i \in 1 .. Len(fifo) : i \in 1 .. Len(fifo')
          /\ \A i \in 1 .. Len(fifo') : i \in 1 .. Len(fifo) \/ i = Len(fifo) + 1
      <4> HIDE DEF Base, Typed
      <4> QED BY <3>1
    <3> QED BY <2>1, <2>2, <3>2
  <2>4. UNCHANGED <<loop, running, pc, call, before, generation>>
    BY <1>4 DEF WakeUp, dispatch, threads
  <2>5. \A t \in Threads : BarrierQueued(t) => BarrierQueued(t)'
    BY <2>2, <2>3 DEF BarrierQueued, Uncounted
  <2>6. NothingQueued => NothingQueued'
    BY <2>3 DEF NothingQueued, Uncounted
  <2>7. \A t \in Threads : (BarrierRuns(t) => BarrierRuns(t)') /\ (Drained => Drained')
    BY <2>4, <2>6 DEF BarrierRuns, Drained, Handling
  <2> QED BY <2>4, <2>5, <2>7 DEF Barriers, InDrain
<1>5. ASSUME NEW t \in Threads,
             \/ \E kind \in {"publish", "drain", "sync"} : t \in Clients /\ Call(t, kind)
             \/ \E replay \in BOOLEAN : Subscribe(t, replay)
             \/ \E id \in SubscriberIds : Unsubscribe(t, id)
      PROVE  Barriers'
  <2>1. UNCHANGED <<fifo, loop, running, generation, before>>
    BY <1>5 DEF Call, Subscribe, Unsubscribe, queue, dispatch
  <2>2. /\ \A u \in Threads \ {t} : pc'[u] = pc[u] /\ call'[u] = call[u]
        /\ pc'[t] \notin {"wait", "recount"}
    BY <1>5 DEF Call, Subscribe, Unsubscribe, NewCall, Goto
  <2> QED BY <2>1, <2>2, BarriersKept DEF InDrain
<1> QED
  BY <1>1, <1>2, <1>3, <1>4, <1>5 DEF Next, Choice, Threads

\* Returning from drain() is a step of its caller, with both generations equal.
LEMMA RecountStep ==
  ASSUME Base, [Next]_vars, NEW t \in Threads, pc[t] = "recount", pc'[t] = "idle"
  PROVE  before[t] = generation
<1> USE DEF Base, Typed
<1>1. \E u \in Threads : ThreadStep(u) \/ TimesOut(u)
  <2>1. ASSUME NEW u \in Threads,
               \/ \E kind \in {"publish", "drain", "sync"} : u \in Clients /\ Call(u, kind)
               \/ \E replay \in BOOLEAN : Subscribe(u, replay)
               \/ \E id \in SubscriberIds : Unsubscribe(u, id)
        PROVE  FALSE
    BY <2>1 DEF Call, Subscribe, Unsubscribe, NewCall, Goto
  <2>2. CASE UNCHANGED pc
    BY <2>2
  <2> QED
    BY <2>1, <2>2
    DEF Next, Choice, Threads, DispatcherStep, Get, Invoke, Deliver, CallbackReturns, EndLoop,
        SyncReturns, Release, Finish, PublishSync, RequestStop, WakeUp, vars, threads
<1>2. PICK u \in Threads : ThreadStep(u) \/ TimesOut(u)
  BY <1>1
<1>3. \E l : pc' = [pc EXCEPT ![u] = l]
  BY <1>2 DEF ThreadStep, TimesOut, Allocate, NoWaitEmpty, PoolEmpty, Abandon, Check, Lock,
     Recheck, Put, Wake, Recount, Register, Unregister, Goto
<1>4. u = t
  BY <1>3
<1> QED
  BY <1>2, <1>4 DEF ThreadStep, TimesOut, Allocate, NoWaitEmpty, PoolEmpty, Check, Lock,
     Recheck, Put, Wake, Recount, Register, Unregister, Goto

\* When drain() returns true no published signal, replay or dispatch_sync()
\* callback is left in the FIFO or running.
THEOREM DrainDrains == Spec => DrainLeavesNothing
<1> DEFINE Leaves ==
      \A t \in Clients :
        pc[t] = "recount" /\ pc'[t] = "idle" =>
          \A job \in Pending : ~(job.kind \in {"publish", "sync", "replay"})
<1>1. Base /\ Waiters /\ Barriers /\ [Next]_vars => Leaves
  <2> SUFFICES ASSUME Base, Waiters, Barriers, [Next]_vars,
                      NEW t \in Clients, pc[t] = "recount", pc'[t] = "idle"
               PROVE  \A job \in Pending : ~Counted(job.kind)
    BY DEF Counted
  <2>1. InDrain(t) /\ ~InWait(t) /\ t \in Threads
    BY DEF Base, Calling, InDrain, InWait, Threads
  <2>2. before[t] = generation
    BY <2>1, RecountStep
  <2>3. Drained
    BY <2>1, <2>2, BarrierDone
  <2>4. \A job \in Queued : ~Counted(job.kind)
    BY <2>3, LenProperties DEF Drained, NothingQueued, Uncounted, Queued, Base, Typed
  <2>5. loop # "release" => ~Counted(running.kind)
    <3>1. CASE Handling
      BY <2>3, <3>1 DEF Drained
    <3>2. CASE loop \in {"get", "finish", "ended"}
      BY <3>2 DEF Base, HasJob, NoJob, Job, Counted
    <3> QED BY <3>1, <3>2 DEF Base, Typed, Handling
  <2> QED BY <2>4, <2>5 DEF Pending
<1>2. Base /\ Waiters /\ Barriers /\ [Next]_vars => (Waiters /\ Barriers)'
  BY WaitersStep, BarriersStep
<1> QED
  BY <1>1, <1>2, BaseInvariant, WaitersInit, BarriersInit, PTL DEF Spec, DrainLeavesNothing

-----------------------------------------------------------------------------
(* What a channel's subscribers receive: every signal once, and the replay   *)
(* they were promised.                                                       *)

\* The position from which a running loop still has to look at the subscribers:
\* behind the one whose callback runs.
Resume(d) ==
  IF d < Len(frames) \/ loop = "callback" THEN frames[d].pos + 1 ELSE frames[d].pos

\* The published signals whose loops have not come to position i yet.
Coming(i) ==
  {frames[d].signal : d \in {e \in DOMAIN frames : ~frames[e].replay /\ Resume(e) <= i}}

\* The loops: a replay is the outermost one, every publish has its own signal.
Loops ==
  /\ \A d \in DOMAIN frames :
       /\ frames[d].replay => d = 1
       /\ ~frames[d].replay => frames[d].signal <= lastSignal
  /\ \A d, e \in DOMAIN frames :
       ~frames[d].replay /\ ~frames[e].replay /\ d # e => frames[d].signal # frames[e].signal

Received(s) == {s.got[j] : j \in DOMAIN s.got}

\* A subscriber between signals: what was published since it joined it has
\* received or has coming, never both, and a replay can only be its first.
InStep(s, coming, last) ==
  /\ s.joined <= last
  /\ Cardinality(Received(s)) = Len(s.got)
  /\ Received(s) \subseteq s.joined .. last
  /\ s.joined \in Received(s) => s.got[1] = s.joined
  /\ coming \subseteq s.joined + 1 .. last
  /\ coming \cap Received(s) = {}
  /\ s.joined + 1 .. last \subseteq Received(s) \cup coming
  /\ s.needsReplay => s.got = <<>>

AllInStep ==
  \A i \in DOMAIN subscribers : InStep(subscribers[i], Coming(i), lastSignal)

\* Where the replay of a new subscriber is, until it has run or was refused.
ReplayUnderWay(i) ==
  \/ i = Len(subscribers) /\ \E t \in Threads : Replaying(t)
  \/ \E k \in DOMAIN fifo : fifo[k].kind = "replay"
  \/ loop = "invoke" /\ running.kind = "replay"
  \/ frames # <<>> /\ frames[1].replay /\ Resume(1) <= i

ReplaysUnderWay ==
  \A i \in DOMAIN subscribers :
    subscribers[i].needsReplay /\ ~subscribers[i].dropped => ReplayUnderWay(i)

-----------------------------------------------------------------------------
(* What one more signal makes of a slot.                                     *)

LEMMA SlotReceives ==
  ASSUME NEW s \in Slots, NEW u \in Slots, NEW x \in Nat, u.got = Append(s.got, x)
  PROVE  /\ Received(u) = Received(s) \cup {x}
         /\ Len(u.got) = Len(s.got) + 1 /\ Len(s.got) \in Nat
         /\ s.got # <<>> => u.got[1] = s.got[1]
         /\ s.got = <<>> => u.got[1] = x /\ Received(s) = {}
<1>1. s.got \in Seq(Nat) /\ u.got \in Seq(Nat)
  BY DEF Slots
<1>2. /\ Len(u.got) = Len(s.got) + 1 /\ Len(s.got) \in Nat
      /\ \A j \in 1 .. Len(s.got) : u.got[j] = s.got[j]
      /\ u.got[Len(s.got) + 1] = x
  BY <1>1, AppendProperties, LenProperties
<1>3. /\ DOMAIN s.got = 1 .. Len(s.got) /\ DOMAIN u.got = 1 .. Len(u.got)
      /\ s.got = <<>> <=> Len(s.got) = 0
  BY <1>1, LenProperties, EmptySeq
<1>4. 1 .. Len(u.got) = (1 .. Len(s.got)) \cup {Len(s.got) + 1}
  BY <1>2
<1>5. Received(u) = Received(s) \cup {x}
  BY <1>2, <1>3, <1>4 DEF Received
<1>6. s.got # <<>> => 1 \in 1 .. Len(s.got)
  BY <1>2, <1>3
<1> QED BY <1>2, <1>3, <1>5, <1>6 DEF Received

\* The number of signals goes with their set.
LEMMA OneMoreReceived ==
  ASSUME NEW s \in Slots, NEW u \in Slots, NEW x \in Nat, u.got = Append(s.got, x),
         NEW last \in Nat, x \notin Received(s),
         Received(s) \subseteq s.joined .. last, Cardinality(Received(s)) = Len(s.got)
  PROVE  Cardinality(Received(u)) = Len(u.got)
<1>1. s.joined \in Int /\ last \in Int
  BY DEF Slots
<1>2. IsFiniteSet(Received(s))
  BY <1>1, FS_Interval, FS_Subset
<1>3. Cardinality(Received(s) \cup {x}) = Cardinality(Received(s)) + 1
  BY <1>2, FS_AddElement
<1>4. Received(u) = Received(s) \cup {x} /\ Len(u.got) = Len(s.got) + 1
  BY SlotReceives
<1> QED BY <1>3, <1>4

\* A publish comes to a slot.
LEMMA PublishReaches ==
  ASSUME NEW s \in Slots, NEW coming, NEW last \in Nat, InStep(s, coming, last),
         NEW u \in Slots, NEW x \in coming,
         u.got = Append(s.got, x), u.joined = s.joined, ~u.needsReplay
  PROVE  InStep(u, coming \ {x}, last)
<1>1. s.joined \in Nat
  BY DEF Slots
<1>2. x \in s.joined + 1 .. last /\ x \notin Received(s)
  BY DEF InStep
<1>3. x \in Nat /\ x # s.joined /\ x \in s.joined .. last
  BY <1>1, <1>2
<1>4. /\ Received(u) = Received(s) \cup {x}
      /\ s.got # <<>> => u.got[1] = s.got[1]
      /\ s.got = <<>> => Received(s) = {}
  BY <1>3, SlotReceives
<1>5. Cardinality(Received(u)) = Len(u.got)
  BY <1>2, <1>3, OneMoreReceived DEF InStep
<1>6. u.joined \in Received(u) => u.got[1] = u.joined
  BY <1>3, <1>4 DEF InStep
<1> QED BY <1>2, <1>3, <1>4, <1>5, <1>6 DEF InStep

\* A replay comes to a slot that nothing has come to.
LEMMA ReplayReaches ==
  ASSUME NEW s \in Slots, NEW last \in Nat, InStep(s, {}, last), s.needsReplay,
         NEW u \in Slots,
         u.got = Append(s.got, last), u.joined = s.joined, ~u.needsReplay
  PROVE  InStep(u, {}, last)
<1>1. s.joined \in Nat /\ s.got = <<>> /\ s.joined <= last
  BY DEF Slots, InStep
<1>2. /\ Received(u) = {last} /\ Received(s) = {} /\ u.got[1] = last
  <2>1. /\ Received(u) = Received(s) \cup {last}
        /\ s.got = <<>> => u.got[1] = last /\ Received(s) = {}
    BY SlotReceives
  <2> QED BY <1>1, <2>1
<1>3. last = s.joined
  <2>1. s.joined + 1 .. last = {}
    BY <1>2 DEF InStep
  <2>2. last \notin s.joined + 1 .. last
    BY <2>1
  <2> QED BY <1>1, <2>2
<1>4. Cardinality(Received(u)) = Len(u.got)
  BY <1>1, <1>2, OneMoreReceived DEF InStep
<1>5. s.joined + 1 .. last = {} /\ last \in s.joined .. last
  BY <1>1, <1>3
<1> QED BY <1>2, <1>3, <1>4, <1>5 DEF InStep

\* A new signal is coming to every slot.
LEMMA SignalComes ==
  ASSUME NEW s \in Slots, NEW coming, NEW last \in Nat, InStep(s, coming, last)
  PROVE  InStep(s, coming \cup {last + 1}, last + 1)
<1>1. s.joined \in Nat /\ s.joined <= last
  BY DEF Slots, InStep
<1>2. /\ s.joined + 1 .. last + 1 = (s.joined + 1 .. last) \cup {last + 1}
      /\ s.joined .. last \subseteq s.joined .. last + 1
      /\ last + 1 \notin s.joined .. last /\ s.joined <= last + 1
  BY <1>1
<1> QED BY <1>2 DEF InStep

\* Only these parts of a slot matter.
LEMMA SameStep ==
  ASSUME NEW s, NEW u, NEW coming, NEW last, InStep(s, coming, last),
         u.joined = s.joined, u.got = s.got, u.needsReplay = s.needsReplay
  PROVE  InStep(u, coming, last)
  BY DEF InStep, Received

-----------------------------------------------------------------------------
(* What a step makes of the running loops.                                   *)

LEMMA ComingIs ==
  ASSUME Typed, NEW i, NEW x
  PROVE  x \in Coming(i) <=>
           \E d \in 1 .. Len(frames) :
             ~frames[d].replay /\ Resume(d) <= i /\ x = frames[d].signal
<1>1. DOMAIN frames = 1 .. Len(frames)
  BY LenProperties DEF Typed
<1> QED BY <1>1 DEF Coming

LEMMA NoLoopComing ==
  ASSUME Typed, frames = <<>>, NEW i
  PROVE  Coming(i) = {}
<1>1. Len(frames) = 0
  BY EmptySeq
<1>2. 1 .. Len(frames) = {}
  BY <1>1
<1> QED BY <1>2, ComingIs

LEMMA FrameFields ==
  ASSUME Typed
  PROVE  /\ Len(frames) \in Nat /\ DOMAIN frames = 1 .. Len(frames)
         /\ \A d \in 1 .. Len(frames) :
              /\ frames[d].replay \in BOOLEAN /\ frames[d].signal \in Nat
              /\ frames[d].pos \in Nat /\ Resume(d) \in Nat
<1>1. Len(frames) \in Nat /\ DOMAIN frames = 1 .. Len(frames)
  BY LenProperties DEF Typed
<1>2. \A d \in 1 .. Len(frames) :
        frames[d].replay \in BOOLEAN /\ frames[d].signal \in Nat /\ frames[d].pos \in Nat
  <2>1. \A d \in 1 .. Len(frames) : frames[d] \in Frames
    BY ElementOfSeq DEF Typed
  <2> QED BY <2>1 DEF Frames
<1>3. \A d \in 1 .. Len(frames) : Resume(d) \in Nat
  BY <1>1, <1>2 DEF Resume
<1> QED BY <1>1, <1>2, <1>3

\* The innermost loop moves on.
LEMMA TopMoves ==
  ASSUME Typed, frames # <<>>, NEW p \in Nat, NEW n \in Nat,
         frames' = [frames EXCEPT ![Depth].pos = p, ![Depth].id = n]
  PROVE  /\ Len(frames') = Len(frames) /\ Depth \in 1 .. Len(frames)
         /\ \A d \in 1 .. Len(frames) :
              frames'[d].replay = frames[d].replay /\ frames'[d].signal = frames[d].signal
         /\ \A d \in 1 .. Len(frames) \ {Depth} : frames'[d].pos = frames[d].pos
         /\ frames'[Depth].pos = p
<1> DEFINE f == [Top EXCEPT !.pos = p, !.id = n]
<1>1. Depth \in 1 .. Len(frames) /\ Top \in Frames
  BY TopTyped
<1>2. f \in Frames /\ f.replay = Top.replay /\ f.signal = Top.signal /\ f.pos = p
  BY <1>1 DEF Frames
<1>3. frames' = [frames EXCEPT ![Depth] = f]
  BY <1>1, LenProperties DEF Typed, Top
<1> HIDE DEF f
<1>4. DOMAIN frames = 1 .. Len(frames) /\ Len(frames') = Len(frames)
  BY <1>1, <1>2, <1>3, LenProperties, ExceptSeq DEF Typed
<1>5. /\ \A d \in 1 .. Len(frames) \ {Depth} : frames'[d] = frames[d]
      /\ frames'[Depth] = f
  BY <1>1, <1>3, <1>4
<1> QED BY <1>1, <1>2, <1>4, <1>5 DEF Top

\* A new loop.
LEMMA LoopOpens ==
  ASSUME Typed, NEW r \in BOOLEAN, NEW n \in Nat, frames' = Append(frames, Frame(r, n))
  PROVE  /\ Len(frames') = Len(frames) + 1
         /\ \A d \in 1 .. Len(frames) : frames'[d] = frames[d]
         /\ frames'[Len(frames) + 1].replay = r
         /\ frames'[Len(frames) + 1].signal = n
         /\ frames'[Len(frames) + 1].pos = 1
<1>1. Frame(r, n) \in Frames /\ frames \in Seq(Frames)
  BY DEF Frame, Frames, Typed
<1>2. /\ Len(frames') = Len(frames) + 1
      /\ \A d \in 1 .. Len(frames) : frames'[d] = frames[d]
      /\ frames'[Len(frames) + 1] = Frame(r, n)
  BY <1>1, AppendProperties
<1> QED BY <1>2 DEF Frame

\* The innermost loop is over.
LEMMA LoopCloses ==
  ASSUME Typed, frames # <<>>, frames' = SubSeq(frames, 1, Depth - 1)
  PROVE  /\ Len(frames') = Len(frames) - 1 /\ Depth \in 1 .. Len(frames)
         /\ \A d \in 1 .. Len(frames') : frames'[d] = frames[d]
<1>1. Depth \in 1 .. Len(frames) /\ Len(frames) \in Nat /\ Depth = Len(frames)
  BY TopTyped, LenProperties DEF Typed, Depth
<1>2. \A d \in 1 .. Depth - 1 : frames[d] \in Frames
  <2>1. 1 .. Depth - 1 \subseteq 1 .. Len(frames)
    BY <1>1
  <2> QED BY <2>1, ElementOfSeq DEF Typed
<1>3. /\ Len(frames') = (IF 1 <= Depth - 1 THEN Depth - 1 - 1 + 1 ELSE 0)
      /\ \A d \in 1 .. Depth - 1 - 1 + 1 : frames'[d] = frames[1 + d - 1]
  BY <1>1, <1>2, SubSeqProperties DEF Typed
<1>4. Len(frames') = Depth - 1 /\ Depth - 1 - 1 + 1 = Depth - 1
  BY <1>1, <1>3
<1>5. \A d \in 1 .. Depth - 1 : 1 + d - 1 = d
  BY <1>1
<1> QED BY <1>1, <1>3, <1>4, <1>5

-----------------------------------------------------------------------------
(* What a step of the dispatcher makes of the signals that are coming.       *)

\* A publish inside a callback, or outside every loop.
LEMMA PublishOpens ==
  ASSUME Typed, Loops, OpenPublish, frames = <<>> \/ loop = "callback"
  PROVE  /\ Loops'
         /\ \A i \in Nat \ {0} : Coming(i)' = Coming(i) \cup {lastSignal + 1}
         /\ frames' # <<>>
         /\ \A d \in 1 .. Len(frames) : frames'[d] = frames[d] /\ Resume(d)' = Resume(d)
<1>0. PICK n \in Nat : n = Len(frames) + 1
  <2>1. Len(frames) + 1 \in Nat
    BY FrameFields
  <2> QED BY <2>1
<1>1. /\ Len(frames') = n
      /\ \A d \in 1 .. Len(frames) : frames'[d] = frames[d]
      /\ ~frames'[n].replay /\ frames'[n].signal = lastSignal + 1 /\ frames'[n].pos = 1
  <2>1. lastSignal + 1 \in Nat /\ FALSE \in BOOLEAN
    BY DEF Typed
  <2> QED BY <1>0, <2>1, LoopOpens DEF OpenPublish
<1>2. lastSignal' = lastSignal + 1 /\ loop' = "deliver" /\ lastSignal \in Nat
  BY DEF OpenPublish, Typed
<1>3. /\ Len(frames) \in Nat /\ DOMAIN frames = 1 .. Len(frames)
      /\ \A d \in 1 .. Len(frames) :
           frames[d].replay \in BOOLEAN /\ frames[d].signal \in Nat /\ frames[d].pos \in Nat
  BY FrameFields
<1>4. DOMAIN frames' = 1 .. n
  <2>1. frames' \in Seq(Frames)
    BY OpenPublishTyped
  <2> QED BY <1>1, <2>1, LenProperties
<1>5. /\ \A d \in 1 .. n : d \in 1 .. Len(frames) \/ d = n
      /\ \A d \in 1 .. Len(frames) : d \in 1 .. n /\ d < n
      /\ n \in 1 .. n
  BY <1>0, <1>3
<1>6. Loops'
  <2>1. ASSUME NEW d \in 1 .. n
        PROVE  /\ frames'[d].replay => d = 1
               /\ ~frames'[d].replay => frames'[d].signal <= lastSignal'
    <3>1. CASE d \in 1 .. Len(frames)
      BY <1>1, <1>2, <1>3, <3>1 DEF Loops
    <3>2. CASE d = n
      BY <1>1, <1>2, <3>2
    <3> QED BY <1>5, <3>1, <3>2
  <2>2. \A d \in 1 .. Len(frames) :
          ~frames'[d].replay => frames'[d].signal # frames'[n].signal
    BY <1>1, <1>2, <1>3 DEF Loops
  <2>3. \A d, e \in 1 .. Len(frames) :
          ~frames'[d].replay /\ ~frames'[e].replay /\ d # e
            => frames'[d].signal # frames'[e].signal
    BY <1>1, <1>3 DEF Loops
  <2> QED BY <1>4, <1>5, <2>1, <2>2, <2>3 DEF Loops
<1>8. \A d \in 1 .. Len(frames) : Resume(d)' = Resume(d)
  <2>1. \A d \in 1 .. Len(frames) : d < Len(frames') /\ loop = "callback"
    BY <1>1, <1>3, <1>5, EmptySeq
  <2> QED BY <1>1, <2>1 DEF Resume
<1>9. frames' # <<>>
  <2>1. frames' \in Seq(Frames)
    BY OpenPublishTyped
  <2> QED BY <1>0, <1>1, <1>3, <2>1, EmptySeq
<1>7. ASSUME NEW i \in Nat \ {0}  PROVE Coming(i)' = Coming(i) \cup {lastSignal + 1}
  <2>1. \A d \in 1 .. Len(frames) : Resume(d)' = Resume(d)
    BY <1>8
  <2>2. Resume(n)' = 1
    BY <1>1, <1>2, <1>3 DEF Resume
  <2>3. \A x : x \in Coming(i)' <=>
          \E d \in 1 .. n : ~frames'[d].replay /\ Resume(d)' <= i /\ x = frames'[d].signal
    BY <1>4 DEF Coming
  <2>4. \A x : x \in Coming(i)' <=>
          \/ \E d \in 1 .. Len(frames) :
               ~frames[d].replay /\ Resume(d) <= i /\ x = frames[d].signal
          \/ x = lastSignal + 1
    <3>1. Resume(n)' <= i
      BY <2>2
    <3>2. ASSUME NEW x, x \in Coming(i)'
          PROVE  \/ \E d \in 1 .. Len(frames) :
                      ~frames[d].replay /\ Resume(d) <= i /\ x = frames[d].signal
                 \/ x = lastSignal + 1
      <4>1. PICK d \in 1 .. n :
              ~frames'[d].replay /\ Resume(d)' <= i /\ x = frames'[d].signal
        BY <2>3, <3>2
      <4>2. CASE d \in 1 .. Len(frames)
        BY <1>1, <2>1, <4>1, <4>2
      <4>3. CASE d = n
        BY <1>1, <4>1, <4>3
      <4> QED BY <1>5, <4>2, <4>3
    <3>3. ASSUME NEW d \in 1 .. Len(frames), ~frames[d].replay, Resume(d) <= i
          PROVE  frames[d].signal \in Coming(i)'
      BY <1>1, <1>5, <2>1, <2>3, <3>3
    <3>4. lastSignal + 1 \in Coming(i)'
      BY <1>1, <1>5, <2>3, <3>1
    <3> QED BY <3>2, <3>3, <3>4
  <2> QED BY <2>4, ComingIs
<1> QED BY <1>1, <1>6, <1>7, <1>8, <1>9

\* A replay brings no signal that was still coming.
LEMMA ReplayOpens ==
  ASSUME Typed, frames = <<>>, OpenReplay
  PROVE  /\ Loops'
         /\ \A i : Coming(i)' = {} /\ Coming(i) = {}
         /\ frames' # <<>> /\ frames'[1].replay /\ Resume(1)' = 1
<1>0. Len(frames) = 0
  BY EmptySeq
<1>1. Len(frames') = 1 /\ frames'[1].replay /\ frames'[1].pos = 1
  <2>1. /\ Len(frames') = Len(frames) + 1
        /\ frames'[Len(frames) + 1].replay = TRUE
        /\ frames'[Len(frames) + 1].pos = 1
    <3>1. 0 \in Nat /\ TRUE \in BOOLEAN /\ frames' = Append(frames, Frame(TRUE, 0))
      BY DEF OpenReplay
    <3> QED BY <3>1, LoopOpens
  <2>2. Len(frames) + 1 = 1
    BY <1>0
  <2> QED BY <2>1, <2>2
<1>2. DOMAIN frames' = 1 .. 1 /\ frames' # <<>>
  <2>1. frames' \in Seq(Frames)
    <3>1. 0 \in Nat /\ TRUE \in BOOLEAN
      OBVIOUS
    <3> QED BY <3>1, FrameTyped DEF OpenReplay
  <2>2. DOMAIN frames' = 1 .. Len(frames')
    BY <2>1, LenProperties
  <2>3. frames' # <<>>
    BY <1>1, EmptySeq
  <2> QED BY <1>1, <2>2, <2>3
<1>3. \A d \in 1 .. 1 : d = 1
  OBVIOUS
<1>4. Loops'
  BY <1>1, <1>2, <1>3 DEF Loops
<1>5. Resume(1)' = 1
  <2>1. ~(1 < Len(frames')) /\ loop' # "callback"
    BY <1>1 DEF OpenReplay
  <2> QED BY <1>1, <2>1 DEF Resume
<1>6. \A i : Coming(i)' = {}
  BY <1>1, <1>2, <1>3 DEF Coming
<1> QED BY <1>1, <1>2, <1>4, <1>5, <1>6, NoLoopComing

\* The same loops, some further on.
LEMMA LoopsMove ==
  ASSUME Typed, Loops, frames' \in Seq(Frames), lastSignal' = lastSignal,
         Len(frames') <= Len(frames),
         \A d \in 1 .. Len(frames') :
           frames'[d].replay = frames[d].replay /\ frames'[d].signal = frames[d].signal
  PROVE  Loops'
<1>1. DOMAIN frames = 1 .. Len(frames) /\ DOMAIN frames' = 1 .. Len(frames')
      /\ Len(frames) \in Nat /\ Len(frames') \in Nat
  BY LenProperties DEF Typed
<1>2. \A d \in DOMAIN frames' : d \in DOMAIN frames
  BY <1>1
<1> QED BY <1>1, <1>2 DEF Loops

LEMMA CallbackEnds ==
  ASSUME Typed, Typed', Loops, frames # <<>>, CallbackReturns
  PROVE  /\ Loops'
         /\ \A d \in 1 .. Len(frames) : Resume(d)' = Resume(d)
         /\ \A i : Coming(i)' = Coming(i)
<1>1. Depth \in 1 .. Len(frames) /\ Top.pos \in Nat /\ Len(frames) \in Nat
  <2>1. Depth \in 1 .. Len(frames)
    BY TopTyped
  <2> QED BY <2>1, FrameFields DEF Top
<1>2. frames' = [frames EXCEPT ![Depth].pos = Top.pos + 1, ![Depth].id = 0]
  BY <1>1, FrameFields DEF CallbackReturns, Top
<1>3. /\ Len(frames') = Len(frames)
      /\ \A d \in 1 .. Len(frames) :
           frames'[d].replay = frames[d].replay /\ frames'[d].signal = frames[d].signal
      /\ \A d \in 1 .. Len(frames) \ {Depth} : frames'[d].pos = frames[d].pos
      /\ frames'[Depth].pos = Top.pos + 1
  <2>1. Top.pos + 1 \in Nat /\ 0 \in Nat
    BY <1>1
  <2> QED BY <1>2, <2>1, TopMoves
<1>4. Loops'
  BY <1>1, <1>3, LoopsMove DEF CallbackReturns, Typed
<1>5. ASSUME NEW d \in 1 .. Len(frames) PROVE Resume(d)' = Resume(d)
  <2>1. CASE d = Depth
    BY <1>3, <2>1 DEF Resume, Depth, Top, CallbackReturns
  <2>2. CASE d # Depth
    <3>1. d < Len(frames)
      BY <1>1, <2>2 DEF Depth
    <3> QED BY <1>3, <2>2, <3>1 DEF Resume
  <2> QED BY <2>1, <2>2
<1>6. ASSUME NEW i PROVE Coming(i)' = Coming(i)
  <2>1. DOMAIN frames' = 1 .. Len(frames)
    BY <1>3, LenProperties DEF Typed
  <2>2. \A x : x \in Coming(i)' <=>
          \E d \in 1 .. Len(frames) :
            ~frames'[d].replay /\ Resume(d)' <= i /\ x = frames'[d].signal
    BY <2>1 DEF Coming
  <2>3. \A x : x \in Coming(i) <=>
          \E d \in 1 .. Len(frames) :
            ~frames[d].replay /\ Resume(d) <= i /\ x = frames[d].signal
    BY ComingIs
  <2>4. \A x : x \in Coming(i)' <=> x \in Coming(i)
    BY <1>3, <1>5, <2>2, <2>3
  <2> QED BY <2>4
<1> QED BY <1>4, <1>5, <1>6

LEMMA LoopEnds ==
  ASSUME Typed, Typed', Loops, frames # <<>>, EndLoop
  PROVE  /\ Loops'
         /\ Len(frames') = Len(frames) - 1
         /\ \A d \in 1 .. Len(frames') : frames'[d] = frames[d] /\ Resume(d)' = Resume(d)
         /\ \A i \in DOMAIN subscribers : Coming(i)' = Coming(i)
<1>1. /\ Len(frames') = Len(frames) - 1 /\ Depth \in 1 .. Len(frames)
      /\ \A d \in 1 .. Len(frames') : frames'[d] = frames[d]
  BY LoopCloses DEF EndLoop
<1>2. Len(frames) \in Nat /\ Depth = Len(frames)
  BY FrameFields DEF Depth
<1>3. /\ \A d \in 1 .. Len(frames) : d \in 1 .. Len(frames') \/ d = Depth
      /\ \A d \in 1 .. Len(frames') : d \in 1 .. Len(frames) /\ d < Len(frames) /\ Depth > 1
  BY <1>1, <1>2
<1>4. Loops'
  <2>1. Len(frames') <= Len(frames)
    BY <1>1, <1>2
  <2> QED BY <1>1, <2>1, LoopsMove DEF EndLoop, Typed
<1>5. ASSUME NEW d \in 1 .. Len(frames') PROVE Resume(d)' = Resume(d)
  <2>1. Depth > 1 /\ Depth # 1
    BY <1>1, <1>2, <1>3
  <2>2. loop' = "callback"
    BY <2>1 DEF EndLoop
  <2> QED BY <1>1, <1>3, <2>2 DEF Resume
<1>6. ASSUME NEW i \in DOMAIN subscribers, ~Top.replay PROVE ~(Resume(Depth) <= i)
  <2>1. i \notin Due
    BY DEF EndLoop
  <2>2. i \in Nat /\ Top.pos \in Nat
    <3>1. i \in 1 .. Len(subscribers)
      BY LenProperties DEF Typed
    <3> QED BY <1>1, <3>1, FrameFields DEF Top
  <2>3. ~(i >= Top.pos)
    BY <1>6, <2>1 DEF Due
  <2>4. Resume(Depth) = Top.pos
    BY <1>2 DEF Resume, Top, EndLoop
  <2> QED BY <2>2, <2>3, <2>4
<1>7. ASSUME NEW i \in DOMAIN subscribers PROVE Coming(i)' = Coming(i)
  <2>1. DOMAIN frames' = 1 .. Len(frames')
    BY LenProperties DEF Typed
  <2>2. \A x : x \in Coming(i)' <=>
          \E d \in 1 .. Len(frames') :
            ~frames'[d].replay /\ Resume(d)' <= i /\ x = frames'[d].signal
    BY <2>1 DEF Coming
  <2>3. \A x : x \in Coming(i) <=>
          \E d \in 1 .. Len(frames) :
            ~frames[d].replay /\ Resume(d) <= i /\ x = frames[d].signal
    BY ComingIs
  <2>4. \A d \in 1 .. Len(frames) :
          ~frames[d].replay /\ Resume(d) <= i => d \in 1 .. Len(frames')
    BY <1>3, <1>6 DEF Top
  <2>5. \A d \in 1 .. Len(frames') :
          d \in 1 .. Len(frames) /\ frames'[d] = frames[d] /\ Resume(d)' = Resume(d)
    BY <1>1, <1>3, <1>5
  <2>6. \A x : x \in Coming(i)' => x \in Coming(i)
    BY <2>2, <2>3, <2>5
  <2>7. \A x : x \in Coming(i) => x \in Coming(i)'
    BY <2>2, <2>3, <2>4, <2>5
  <2> QED BY <2>6, <2>7
<1> QED BY <1>1, <1>4, <1>5, <1>7

\* The first subscriber that is due is called: of a publish nothing is due
\* before it, a replay is the only loop.
LEMMA LoopDelivers ==
  ASSUME Typed, Typed', Loops, frames # <<>>, Deliver
  PROVE  \E k \in DOMAIN subscribers :
           /\ k \in Due /\ \A j \in Due : k <= j
           /\ subscribers' = [subscribers EXCEPT ![k] = Called(@)]
           /\ Loops'
           /\ Len(frames') = Len(frames)
           /\ \A d \in 1 .. Len(frames) : frames'[d].replay = frames[d].replay
           /\ \A d \in 1 .. Len(frames) : d # Depth => Resume(d)' = Resume(d)
           /\ \A d \in 1 .. Len(frames) : d = Depth => Resume(d)' = k + 1
           /\ \A i \in DOMAIN subscribers : i # k => Coming(i)' = Coming(i)
           /\ ~Top.replay => /\ Top.signal \in Coming(k)
                             /\ Coming(k)' = Coming(k) \ {Top.signal}
           /\ Top.replay => Depth = 1 /\ Coming(k) = {} /\ Coming(k)' = {}
<1> DEFINE i0 == CHOOSE i \in Due : \A j \in Due : i <= j
<1>0. i0 \in Due /\ i0 \in 1 .. Len(subscribers) /\ \A j \in Due : i0 <= j
  BY FirstDue DEF Deliver
<1>1. PICK k \in DOMAIN subscribers : k = i0
  BY <1>0, LenProperties DEF Typed
<1>2. /\ k \in Due /\ \A j \in Due : k <= j
      /\ k \in 1 .. Len(subscribers) /\ k \in Nat
  BY <1>0, <1>1
<1>3. /\ subscribers' = [subscribers EXCEPT ![k] = Called(@)]
      /\ frames' = [frames EXCEPT ![Depth].pos = k, ![Depth].id = subscribers[k].id]
  BY <1>1 DEF Deliver
<1> HIDE DEF i0
<1>4. /\ Depth \in 1 .. Len(frames) /\ Depth = Len(frames) /\ Len(frames) \in Nat
      /\ Top.pos \in Nat /\ Top.signal \in Nat
  <2>1. Depth \in 1 .. Len(frames)
    BY TopTyped
  <2> QED BY <2>1, FrameFields DEF Top, Depth
<1>5. /\ Len(frames') = Len(frames)
      /\ \A d \in 1 .. Len(frames) :
           frames'[d].replay = frames[d].replay /\ frames'[d].signal = frames[d].signal
      /\ \A d \in 1 .. Len(frames) \ {Depth} : frames'[d].pos = frames[d].pos
      /\ frames'[Depth].pos = k
  <2>1. subscribers[k].id \in Nat
    <3>1. subscribers[k] \in Slots
      BY <1>2, ElementOfSeq DEF Typed
    <3> QED BY <3>1 DEF Slots
  <2> QED BY <1>2, <1>3, <2>1, TopMoves
<1>6. Loops'
  <2>1. frames' \in Seq(Frames)
    BY DEF Typed
  <2>2. lastSignal' = lastSignal
    BY DEF Deliver
  <2>3. /\ Len(frames') <= Len(frames)
        /\ \A d \in 1 .. Len(frames') :
             frames'[d].replay = frames[d].replay /\ frames'[d].signal = frames[d].signal
    BY <1>4, <1>5
  <2> QED BY <2>1, <2>2, <2>3, LoopsMove
<1>7. ASSUME NEW d \in 1 .. Len(frames)
      PROVE  /\ d # Depth => Resume(d)' = Resume(d)
             /\ d = Depth => Resume(d)' = k + 1 /\ Resume(d) = Top.pos
  <2>1. CASE d = Depth
    <3>1. loop = "deliver" /\ loop' = "callback" /\ ~(Depth < Len(frames))
      BY <1>4 DEF Deliver
    <3>2. Resume(d) = Top.pos
      BY <2>1, <3>1 DEF Resume, Top
    <3>3. Resume(d)' = frames'[d].pos + 1
      BY <3>1 DEF Resume
    <3> QED BY <1>5, <2>1, <3>2, <3>3
  <2>2. CASE d # Depth
    <3>1. d < Len(frames)
      BY <1>4, <2>2
    <3> QED BY <1>5, <2>2, <3>1 DEF Resume
  <2> QED BY <2>1, <2>2
<1>8. \A i, x : x \in Coming(i)' <=>
        \E d \in 1 .. Len(frames) :
          ~frames[d].replay /\ Resume(d)' <= i /\ x = frames[d].signal
  <2>1. DOMAIN frames' = 1 .. Len(frames)
    BY <1>5, LenProperties DEF Typed
  <2> QED BY <1>5, <2>1 DEF Coming
<1>9. \A i, x : x \in Coming(i) <=>
        \E d \in 1 .. Len(frames) :
          ~frames[d].replay /\ Resume(d) <= i /\ x = frames[d].signal
  BY ComingIs
<1>10. CASE Top.replay
  <2>1. Depth = 1
    BY <1>4, FrameFields, <1>10 DEF Loops, Top
  <2>2. \A d \in 1 .. Len(frames) : frames[d].replay
    BY <1>4, <1>10, <2>1 DEF Top
  <2>3. \A i : Coming(i)' = {} /\ Coming(i) = {}
    BY <1>8, <1>9, <2>2
  <2> QED BY <1>2, <1>3, <1>5, <1>6, <1>7, <1>10, <2>1, <2>3
<1>11. CASE ~Top.replay
  <2>1. \A i \in DOMAIN subscribers : i \in Nat /\ (i >= Top.pos => k <= i)
    <3>0. DOMAIN subscribers = 1 .. Len(subscribers)
      BY LenProperties DEF Typed
    <3>1. \A i \in DOMAIN subscribers : i \in Nat
      BY <3>0
    <3> QED BY <1>2, <1>11, <3>1 DEF Due
  <2>2. k >= Top.pos /\ ~(k + 1 <= k)
    BY <1>2 DEF Due
  <2>3. ASSUME NEW i \in DOMAIN subscribers, i # k PROVE Coming(i)' = Coming(i)
    <3>1. k + 1 <= i <=> Top.pos <= i
      BY <1>2, <1>4, <2>1, <2>2, <2>3
    <3>2. \A d \in 1 .. Len(frames) : Resume(d)' <= i <=> Resume(d) <= i
      BY <1>7, <3>1
    <3>3. \A x : x \in Coming(i)' <=> x \in Coming(i)
      BY <1>8, <1>9, <3>2
    <3> QED BY <3>3
  <2>4. Top.signal \in Coming(k)
    <3>1. Resume(Depth) <= k
      BY <1>2, <1>4, <1>7, <2>2
    <3> QED BY <1>4, <1>9, <1>11, <3>1 DEF Top
  <2>5. \A d \in 1 .. Len(frames) :
          ~frames[d].replay /\ d # Depth => frames[d].signal # Top.signal
    BY <1>4, <1>11, FrameFields DEF Loops, Top
  <2>6. \A x : x \in Coming(k)' <=> x \in Coming(k) /\ x # Top.signal
    <3>1. ASSUME NEW x, x \in Coming(k)' PROVE x \in Coming(k) /\ x # Top.signal
      <4>1. PICK d \in 1 .. Len(frames) :
              ~frames[d].replay /\ Resume(d)' <= k /\ x = frames[d].signal
        BY <1>8, <3>1
      <4>2. d # Depth
        BY <1>7, <2>2, <4>1
      <4> QED BY <1>7, <1>9, <2>5, <4>1, <4>2
    <3>2. ASSUME NEW x \in Coming(k), x # Top.signal PROVE x \in Coming(k)'
      <4>1. PICK d \in 1 .. Len(frames) :
              ~frames[d].replay /\ Resume(d) <= k /\ x = frames[d].signal
        BY <1>9
      <4>2. d # Depth
        BY <3>2, <4>1 DEF Top
      <4> QED BY <1>7, <1>8, <4>1, <4>2
    <3> QED BY <3>1, <3>2
  <2>7. Coming(k)' = Coming(k) \ {Top.signal}
    BY <2>6
  <2> QED BY <1>2, <1>3, <1>5, <1>6, <1>7, <1>11, <2>3, <2>4, <2>7
<1> QED BY <1>10, <1>11

-----------------------------------------------------------------------------
(* Every subscriber is in step.                                              *)

LEMMA InStepInit == Init => Loops /\ AllInStep
<1> SUFFICES ASSUME Init PROVE Loops /\ AllInStep
  OBVIOUS
<1>1. DOMAIN frames = {} /\ DOMAIN subscribers = {}
  BY DEF Init
<1> QED BY <1>1 DEF Loops, AllInStep

\* Erasing a slot makes no new one.
LEMMA WithoutSlotIs ==
  ASSUME Typed, NEW k \in DOMAIN subscribers, NEW i \in DOMAIN WithoutSlot(k)
  PROVE  \E j \in DOMAIN subscribers : WithoutSlot(k)[i] = subscribers[j]
<1> DEFINE n == Len(subscribers)
           a == SubSeq(subscribers, 1, k - 1)
           b == SubSeq(subscribers, k + 1, n)
<1>1. n \in Nat /\ DOMAIN subscribers = 1 .. n /\ k \in 1 .. n
  BY LenProperties DEF Typed
<1>2. /\ \A j \in 1 .. k - 1 : j \in 1 .. n
      /\ \A j \in k + 1 .. n : j \in 1 .. n
      /\ \A j \in 1 .. n : subscribers[j] \in Slots
  <2>1. \A j \in 1 .. n : subscribers[j] \in Slots
    BY ElementOfSeq DEF Typed
  <2> QED BY <1>1, <2>1
<1>3. /\ a \in Seq(Slots) /\ Len(a) = (IF 1 <= k - 1 THEN k - 1 - 1 + 1 ELSE 0)
      /\ \A j \in 1 .. k - 1 - 1 + 1 : a[j] = subscribers[1 + j - 1]
  BY <1>1, <1>2, SubSeqProperties
<1>4. /\ b \in Seq(Slots) /\ Len(b) = (IF k + 1 <= n THEN n - (k + 1) + 1 ELSE 0)
      /\ \A j \in 1 .. n - (k + 1) + 1 : b[j] = subscribers[k + 1 + j - 1]
  BY <1>1, <1>2, SubSeqProperties
<1>5. Len(a) = k - 1 /\ Len(b) = n - k
  BY <1>1, <1>3, <1>4
<1> HIDE DEF a, b
<1>6. /\ a \o b \in Seq(Slots) /\ Len(a \o b) = n - 1
      /\ \A j \in 1 .. Len(a) + Len(b) :
           (a \o b)[j] = IF j <= Len(a) THEN a[j] ELSE b[j - Len(a)]
  <2>1. Len(a) + Len(b) = n - 1
    BY <1>1, <1>5
  <2> QED BY <1>3, <1>4, <2>1, ConcatProperties
<1>7. WithoutSlot(k) = a \o b
  BY DEF WithoutSlot, a, b
<1>8. i \in 1 .. n - 1
  BY <1>6, <1>7, LenProperties
<1>9. CASE i <= k - 1
  <2>1. i \in 1 .. n /\ i \in 1 .. k - 1 - 1 + 1 /\ 1 + i - 1 = i /\ i \in 1 .. Len(a) + Len(b)
    BY <1>1, <1>5, <1>8, <1>9
  <2>2. WithoutSlot(k)[i] = subscribers[i]
    BY <1>3, <1>5, <1>6, <1>7, <1>9, <2>1
  <2> QED BY <1>1, <2>1, <2>2
<1>10. CASE ~(i <= k - 1)
  <2>1. /\ i - (k - 1) \in 1 .. n - (k + 1) + 1 /\ k + 1 + (i - (k - 1)) - 1 = i + 1
        /\ i + 1 \in 1 .. n /\ i \in 1 .. Len(a) + Len(b)
    <3>1. k \in Int /\ i \in Int /\ n \in Int /\ 1 <= k /\ k <= n /\ k <= i /\ i <= n - 1
      BY <1>1, <1>8, <1>10
    <3>2. Len(a) + Len(b) = n - 1
      BY <1>5, <3>1
    <3> QED BY <3>1, <3>2
  <2>2. WithoutSlot(k)[i] = subscribers[i + 1]
    BY <1>4, <1>5, <1>6, <1>7, <1>10, <2>1
  <2> QED BY <1>1, <2>1, <2>2
<1> QED BY <1>9, <1>10

\* A refused call touches nothing of a slot but what it tells its subscriber.
LEMMA AbandonSlots ==
  ASSUME Typed, NEW t \in Threads, Abandon(t)
  PROVE  /\ DOMAIN subscribers' = DOMAIN subscribers
         /\ Len(subscribers') = Len(subscribers)
         /\ \A i \in DOMAIN subscribers :
              /\ subscribers'[i].joined = subscribers[i].joined
              /\ subscribers'[i].got = subscribers[i].got
              /\ subscribers'[i].needsReplay = subscribers[i].needsReplay
              /\ subscribers[i].dropped => subscribers'[i].dropped
              /\ call[t] = "replay" /\ i = Len(subscribers) => subscribers'[i].dropped
<1> DEFINE n == Len(subscribers)
           u == [subscribers[n] EXCEPT !.dropped = TRUE]
<1>1. n \in Nat /\ DOMAIN subscribers = 1 .. n
  BY LenProperties DEF Typed
<1>2. CASE call[t] # "replay"
  BY <1>2 DEF Abandon
<1>3. CASE call[t] = "replay"
  <2>1. subscribers' = [subscribers EXCEPT ![n] = u]
    BY <1>3 DEF Abandon
  <2>2. CASE n \in 1 .. n
    <3>1. subscribers[n] \in Slots
      BY <2>2, ElementOfSeq DEF Typed
    <3>2. /\ u \in Slots /\ u.joined = subscribers[n].joined /\ u.got = subscribers[n].got
          /\ u.needsReplay = subscribers[n].needsReplay /\ u.dropped
      BY <3>1 DEF Slots
    <3> HIDE DEF u
    <3>3. Len(subscribers') = n /\ DOMAIN subscribers' = 1 .. n
      BY <2>1, <2>2, <3>2, ExceptSeq, LenProperties DEF Typed
    <3>4. /\ \A i \in 1 .. n : i # n => subscribers'[i] = subscribers[i]
          /\ subscribers'[n] = u
      BY <1>1, <2>1, <2>2
    <3> QED BY <1>1, <3>2, <3>3, <3>4
  <2>3. CASE n \notin 1 .. n
    <3>1. 1 .. n = {}
      BY <1>1, <2>3
    <3>2. subscribers' = subscribers
      <4>1. subscribers \in Seq(Slots)
        BY DEF Typed
      <4>2. [subscribers EXCEPT ![n].dropped = TRUE] = subscribers
        BY <1>1, <2>3, <4>1
      <4> QED BY <2>1, <4>2
    <3> QED BY <1>1, <3>1, <3>2
  <2> QED BY <2>2, <2>3
<1> QED BY <1>2, <1>3

\* A step that leaves the loops alone.
LEMMA LoopsKept ==
  ASSUME Loops, UNCHANGED <<frames, lastSignal>>,
         UNCHANGED loop \/ frames = <<>>
  PROVE  Loops' /\ \A i : Coming(i)' = Coming(i)
<1>1. Loops'
  BY DEF Loops
<1>2. CASE UNCHANGED loop
  BY <1>1, <1>2 DEF Coming, Resume
<1>3. CASE frames = <<>>
  <2>1. DOMAIN frames = {} /\ DOMAIN frames' = {}
    BY <1>3
  <2> QED BY <1>1, <2>1 DEF Coming
<1> QED BY <1>2, <1>3

\* A step that leaves alone what a slot has to do with the signals.
LEMMA InStepKept ==
  ASSUME Loops, AllInStep, UNCHANGED <<frames, lastSignal>>,
         UNCHANGED loop \/ frames = <<>>,
         DOMAIN subscribers' = DOMAIN subscribers,
         \A i \in DOMAIN subscribers :
           /\ subscribers'[i].joined = subscribers[i].joined
           /\ subscribers'[i].got = subscribers[i].got
           /\ subscribers'[i].needsReplay = subscribers[i].needsReplay
  PROVE  (Loops /\ AllInStep)'
<1>1. Loops' /\ \A i : Coming(i)' = Coming(i)
  BY LoopsKept
<1>2. ASSUME NEW i \in DOMAIN subscribers
      PROVE  InStep(subscribers'[i], Coming(i)', lastSignal')
  <2>1. InStep(subscribers[i], Coming(i)', lastSignal')
    BY <1>1 DEF AllInStep
  <2> QED BY <2>1, SameStep
<1> QED BY <1>1, <1>2 DEF AllInStep

\* A new subscriber has received nothing, and nothing is coming.
LEMMA NewSlotInStep ==
  ASSUME Typed, NEW t \in Threads, Register(t)
  PROVE  \E u \in Slots :
           /\ subscribers' = Append(subscribers, u) /\ InStep(u, {}, lastSignal)
           /\ u.needsReplay = (call[t] = "replay" /\ lastSignal > 0)
           /\ u.dropped = (u.needsReplay /\ ~Running)
<1> DEFINE r == call[t] = "replay" /\ lastSignal > 0
           u == [id |-> nextId + 1, needsReplay |-> r,
                 joined |-> lastSignal, got |-> <<>>, dropped |-> r /\ ~Running]
<1>1. subscribers' = Append(subscribers, u)
  BY DEF Register
<1>2. u \in Slots
  <2>1. r \in BOOLEAN /\ (r /\ ~Running) \in BOOLEAN /\ nextId + 1 \in Nat /\ lastSignal \in Nat
    BY DEF Typed
  <2>2. <<>> \in Seq(Nat)
    BY EmptySeq
  <2> HIDE DEF r
  <2> QED BY <2>1, <2>2 DEF Slots
<1>3. u.joined = lastSignal /\ u.got = <<>> /\ u.needsReplay = r
      /\ u.dropped = (r /\ ~Running)
  OBVIOUS
<1> HIDE DEF u
<1>4. InStep(u, {}, lastSignal)
  <2>1. Received(u) = {}
    BY <1>3 DEF Received
  <2>2. Cardinality(Received(u)) = 0 /\ Len(u.got) = 0
    BY <1>3, <2>1, FS_EmptySet, EmptySeq
  <2>3. lastSignal + 1 .. lastSignal = {} /\ lastSignal <= lastSignal
    BY DEF Typed
  <2> QED BY <1>3, <2>1, <2>2, <2>3 DEF InStep
<1> QED BY <1>1, <1>2, <1>3, <1>4

LEMMA InStepThread ==
  ASSUME Base, LockHeld, Loops, AllInStep, NEW t \in Threads, ThreadStep(t) \/ TimesOut(t)
  PROVE  (Loops /\ AllInStep)'
<1> USE DEF Base
<1>0. UNCHANGED <<frames, loop, lastSignal>>
  <2>1. UNCHANGED <<frames, loop>>
    BY ThreadFrame
  <2>2. UNCHANGED lastSignal
    BY DEF ThreadStep, TimesOut, Allocate, NoWaitEmpty, PoolEmpty, Abandon, Check, Lock,
           Recheck, Put, Wake, Recount, Register, Unregister, channel
  <2> QED BY <2>1, <2>2
<1>1. CASE UNCHANGED subscribers
  BY <1>0, <1>1, InStepKept
<1>2. CASE Abandon(t)
  BY <1>0, <1>2, AbandonSlots, InStepKept
<1>3. CASE Register(t) \/ Unregister(t)
  <2>1. frames = <<>>
    BY <1>3, ClientsAssumption DEF Register, Unregister, LockHeld, Dispatcher, None
  <2>2. Loops' /\ \A i : Coming(i) = {} /\ Coming(i)' = {}
    BY <1>0, <2>1, LoopsKept, NoLoopComing
  <2>3. Len(subscribers) \in Nat /\ DOMAIN subscribers = 1 .. Len(subscribers)
    BY LenProperties DEF Typed
  <2>4. CASE Register(t)
    <3>1. PICK u \in Slots : subscribers' = Append(subscribers, u) /\ InStep(u, {}, lastSignal)
      BY <2>4, NewSlotInStep
    <3>2. /\ DOMAIN subscribers' = 1 .. Len(subscribers) + 1
          /\ \A i \in 1 .. Len(subscribers) : subscribers'[i] = subscribers[i]
          /\ subscribers'[Len(subscribers) + 1] = u
      BY <3>1, AppendProperties, LenProperties DEF Typed
    <3>3. \A i \in 1 .. Len(subscribers) + 1 :
            i \in 1 .. Len(subscribers) \/ i = Len(subscribers) + 1
      <4> HIDE DEF Base
      <4> QED BY <2>3
    <3> QED BY <1>0, <2>2, <2>3, <3>1, <3>2, <3>3 DEF AllInStep
  <2>5. CASE Unregister(t)
    <3>1. PICK k \in DOMAIN subscribers : subscribers' = WithoutSlot(k)
      BY <2>5 DEF Unregister
    <3>2. \A i \in DOMAIN subscribers' :
            \E j \in DOMAIN subscribers : subscribers'[i] = subscribers[j]
      BY <3>1, WithoutSlotIs
    <3> QED BY <1>0, <2>2, <3>2 DEF AllInStep
  <2> QED BY <1>3, <2>4, <2>5
<1> QED
  BY <1>1, <1>2, <1>3 DEF ThreadStep, TimesOut, Allocate, NoWaitEmpty, PoolEmpty, Check,
     Lock, Recheck, Put, Wake, Recount, channel

LEMMA InStepOpens ==
  ASSUME Base, Loops, AllInStep, OpenPublish, frames = <<>> \/ loop = "callback"
  PROVE  (Loops /\ AllInStep)'
<1> USE DEF Base
<1>1. Loops' /\ \A i \in Nat \ {0} : Coming(i)' = Coming(i) \cup {lastSignal + 1}
  BY PublishOpens
<1>2. /\ subscribers' = subscribers /\ lastSignal' = lastSignal + 1 /\ lastSignal \in Nat
      /\ DOMAIN subscribers = 1 .. Len(subscribers)
  BY LenProperties DEF OpenPublish, Typed
<1>3. ASSUME NEW i \in DOMAIN subscribers
      PROVE  InStep(subscribers[i], Coming(i)', lastSignal')
  <2>1. subscribers[i] \in Slots
    BY <1>2, ElementOfSeq DEF Typed
  <2>2. InStep(subscribers[i], Coming(i) \cup {lastSignal + 1}, lastSignal + 1)
    BY <1>2, <2>1, SignalComes DEF AllInStep
  <2>3. i \in Nat \ {0}
    BY <1>2
  <2>4. Coming(i)' = Coming(i) \cup {lastSignal + 1}
    BY <1>1, <2>3
  <2> QED BY <1>2, <2>2, <2>4
<1> QED BY <1>1, <1>2, <1>3 DEF AllInStep

LEMMA InStepDeliver ==
  ASSUME Base, Typed', Loops, AllInStep, Deliver
  PROVE  (Loops /\ AllInStep)'
<1> USE DEF Base
<1>0. frames # <<>> /\ UNCHANGED lastSignal
  BY DEF Deliver, HasJob
<1>1. PICK k \in DOMAIN subscribers :
        /\ k \in Due
        /\ subscribers' = [subscribers EXCEPT ![k] = Called(@)]
        /\ Loops'
        /\ \A i \in DOMAIN subscribers : i # k => Coming(i)' = Coming(i)
        /\ ~Top.replay => Top.signal \in Coming(k) /\ Coming(k)' = Coming(k) \ {Top.signal}
        /\ Top.replay => Coming(k) = {} /\ Coming(k)' = {}
  BY <1>0, LoopDelivers
<1> DEFINE s == subscribers[k]
           u == Called(s)
           x == IF Top.replay THEN lastSignal ELSE Top.signal
<1>2. /\ DOMAIN subscribers = 1 .. Len(subscribers) /\ s \in Slots
      /\ DOMAIN subscribers' = DOMAIN subscribers
  BY <1>1, LenProperties, ElementOfSeq DEF Typed
<1>3. subscribers'[k] = u /\ \A i \in DOMAIN subscribers : i # k => subscribers'[i] = subscribers[i]
  BY <1>1
<1>4. u \in Slots
  <2>1. subscribers'[k] \in Slots
    BY <1>2, ElementOfSeq, LenProperties DEF Typed
  <2> QED BY <1>3, <2>1
<1>5. u.got = Append(s.got, x) /\ u.joined = s.joined /\ ~u.needsReplay
  BY <1>2 DEF Called, Slots
<1>6. InStep(s, Coming(k), lastSignal) /\ lastSignal \in Nat
  BY DEF AllInStep, Typed
<1> HIDE DEF u, s
<1>7. InStep(u, Coming(k)', lastSignal)
  <2>1. CASE Top.replay
    <3>1. s.needsReplay
      BY <1>1, <2>1 DEF Due, s
    <3> QED BY <1>1, <1>2, <1>4, <1>5, <1>6, <2>1, <3>1, ReplayReaches
  <2>2. CASE ~Top.replay
    <3>1. Top.signal \in Coming(k) /\ Coming(k)' = Coming(k) \ {Top.signal}
      BY <1>1, <2>2
    <3>2. InStep(u, Coming(k) \ {Top.signal}, lastSignal)
      BY <1>2, <1>4, <1>5, <1>6, <2>2, <3>1, PublishReaches
    <3> QED BY <3>1, <3>2
  <2> QED BY <2>1, <2>2
<1>8. ASSUME NEW i \in DOMAIN subscribers'
      PROVE  InStep(subscribers'[i], Coming(i)', lastSignal')
  <2>1. CASE i = k
    BY <1>0, <1>3, <1>7, <2>1
  <2>2. CASE i # k
    BY <1>0, <1>1, <1>2, <1>3, <2>2 DEF AllInStep
  <2> QED BY <2>1, <2>2
<1> QED BY <1>1, <1>8 DEF AllInStep

\* Neither the slots nor what is coming to them changes.
LEMMA InStepSame ==
  ASSUME Loops', AllInStep, UNCHANGED <<subscribers, lastSignal>>,
         \A i \in DOMAIN subscribers : Coming(i)' = Coming(i)
  PROVE  (Loops /\ AllInStep)'
  BY DEF AllInStep

LEMMA InStepDispatcher ==
  ASSUME Base, Typed', Loops, AllInStep, DispatcherStep \/ PublishSync
  PROVE  (Loops /\ AllInStep)'
<1> USE DEF Base
<1>1. CASE Get \/ SyncReturns \/ Release \/ Finish
  <2>1. UNCHANGED channel /\ frames = <<>>
    BY <1>1 DEF Get, SyncReturns, Release, Finish, HasJob
  <2> QED BY <2>1, InStepKept DEF channel
<1>2. CASE Invoke
  <2>1. frames = <<>> /\ running \in Jobs
    BY <1>2 DEF Invoke, HasJob, Typed
  <2>2. CASE running.kind = "publish"
    <3>1. OpenPublish
      BY <1>2, <2>2 DEF Invoke
    <3> QED BY <2>1, <3>1, InStepOpens
  <2>3. CASE running.kind = "replay"
    <3>1. OpenReplay
      BY <1>2, <2>3 DEF Invoke
    <3>2. Loops' /\ \A i : Coming(i)' = {} /\ Coming(i) = {}
      BY <2>1, <3>1, ReplayOpens
    <3>3. \A i \in DOMAIN subscribers : Coming(i)' = Coming(i)
      BY <3>2
    <3> QED BY <3>1, <3>2, <3>3, InStepSame DEF OpenReplay
  <2>4. CASE running.kind \in {"sync", "drain", "noop"}
    <3>1. UNCHANGED channel
      BY <1>2, <2>4 DEF Invoke
    <3> QED BY <2>1, <3>1, InStepKept DEF channel
  <2> QED BY <2>1, <2>2, <2>3, <2>4 DEF Jobs, JobKinds
<1>3. CASE Deliver
  BY <1>3, InStepDeliver
<1>4. CASE CallbackReturns
  <2>1. frames # <<>> /\ UNCHANGED <<subscribers, lastSignal>>
    BY <1>4 DEF CallbackReturns, HasJob
  <2>2. Loops' /\ \A i : Coming(i)' = Coming(i)
    BY <1>4, <2>1, CallbackEnds
  <2> QED BY <2>1, <2>2, InStepSame
<1>5. CASE EndLoop
  <2>1. frames # <<>> /\ UNCHANGED <<subscribers, lastSignal>>
    BY <1>5 DEF EndLoop, HasJob
  <2>2. Loops' /\ \A i \in DOMAIN subscribers : Coming(i)' = Coming(i)
    BY <1>5, <2>1, LoopEnds
  <2> QED BY <2>1, <2>2, InStepSame
<1>6. CASE PublishSync
  <2>1. OpenPublish /\ (frames = <<>> \/ loop = "callback")
    BY <1>6 DEF PublishSync, HasJob
  <2> QED BY <2>1, InStepOpens
<1> QED BY <1>1, <1>2, <1>3, <1>4, <1>5, <1>6 DEF DispatcherStep

LEMMA InStepStep ==
  ASSUME Base, Typed', LockHeld, Loops, AllInStep, [Next]_vars
  PROVE  (Loops /\ AllInStep)'
<1>1. CASE \E t \in Threads : ThreadStep(t) \/ TimesOut(t)
  BY <1>1, InStepThread
<1>2. CASE DispatcherStep \/ PublishSync
  BY <1>2, InStepDispatcher
<1>3. CASE UNCHANGED <<channel, loop>>
  <2>1. UNCHANGED <<frames, lastSignal, loop, subscribers>>
    BY <1>3 DEF channel
  <2> QED BY <2>1, InStepKept
<1> QED
  BY <1>1, <1>2, <1>3 DEF Next, Choice, Threads, Call, Subscribe, Unsubscribe, RequestStop,
     WakeUp, vars, dispatch

\* Every subscriber gets every signal published since it subscribed exactly
\* once, however deep callbacks publish, and a replay comes first.
THEOREM SubscribersGetEachSignalOnce == Spec => []EachSignalOnce
<1>1. Base /\ Loops /\ AllInStep => EachSignalOnce
  <2> SUFFICES ASSUME Base, AllInStep, NEW i \in DOMAIN subscribers
               PROVE  LET s == subscribers[i]
                          received == Received(s)
                      IN /\ Cardinality(received) = Len(s.got)
                         /\ received \subseteq s.joined .. lastSignal
                         /\ s.joined \in received => s.got[1] = s.joined
                         /\ frames = <<>> => s.joined + 1 .. lastSignal \subseteq received
    BY DEF EachSignalOnce, Received
  <2>1. InStep(subscribers[i], Coming(i), lastSignal)
    BY DEF AllInStep
  <2>2. frames = <<>> => Coming(i) = {}
    BY NoLoopComing DEF Base
  <2> QED BY <2>1, <2>2 DEF InStep
<1>2. Base /\ Base' /\ LockHeld /\ Loops /\ AllInStep /\ [Next]_vars => (Loops /\ AllInStep)'
  BY InStepStep DEF Base
<1>3. Base /\ LockHeld /\ [Next]_vars => LockHeld'
  BY LockHeldStep
<1> QED
  BY <1>1, <1>2, <1>3, BaseInvariant, LockHeldInit, InStepInit, PTL DEF Spec

-----------------------------------------------------------------------------
(* No replay is lost.                                                        *)

LEMMA ReplaysInit == Init => ReplaysUnderWay
<1> SUFFICES ASSUME Init PROVE ReplaysUnderWay
  OBVIOUS
<1>1. DOMAIN subscribers = {}
  BY DEF Init
<1> QED BY <1>1 DEF ReplaysUnderWay

\* A job in the FIFO stays there when others are put behind it.
LEMMA QueuedStays ==
  ASSUME Typed, NEW job \in Jobs, fifo' = Append(fifo, job),
         NEW k \in DOMAIN fifo
  PROVE  /\ k \in DOMAIN fifo' /\ fifo'[k] = fifo[k]
         /\ \E j \in DOMAIN fifo' : fifo'[j] = job
<1>1. /\ Len(fifo') = Len(fifo) + 1 /\ Len(fifo) \in Nat /\ DOMAIN fifo = 1 .. Len(fifo)
      /\ DOMAIN fifo' = 1 .. Len(fifo')
      /\ \A i \in 1 .. Len(fifo) : fifo'[i] = fifo[i]
      /\ fifo'[Len(fifo) + 1] = job
  BY AppendProperties, LenProperties DEF Typed
<1>2. /\ Len(fifo) + 1 \in 1 .. Len(fifo')
      /\ \A i \in 1 .. Len(fifo) : i \in 1 .. Len(fifo')
  BY <1>1
<1> QED BY <1>1, <1>2

LEMMA QueuedNow ==
  ASSUME Typed, NEW job \in Jobs, fifo' = Append(fifo, job)
  PROVE  \E j \in DOMAIN fifo' : fifo'[j] = job
<1>1. /\ Len(fifo') = Len(fifo) + 1 /\ Len(fifo) \in Nat
      /\ DOMAIN fifo' = 1 .. Len(fifo')
      /\ fifo'[Len(fifo) + 1] = job
  BY AppendProperties, LenProperties DEF Typed
<1>2. Len(fifo) + 1 \in 1 .. Len(fifo')
  BY <1>1
<1> QED BY <1>1, <1>2

\* What a step of a call does to the work of the call, the FIFO and the slots.
LEMMA ThreadMoves ==
  ASSUME Base, NEW t \in Threads, ThreadStep(t) \/ TimesOut(t)
  PROVE  /\ UNCHANGED <<loop, running, frames, call>>
         /\ \A u \in Threads \ {t} : pc'[u] = pc[u]
         /\ \/ UNCHANGED fifo
            \/ Put(t)
         /\ \/ UNCHANGED subscribers /\ (Replaying(t) => Replaying(t)')
            \/ UNCHANGED subscribers /\ Put(t)
            \/ Abandon(t) /\ UNCHANGED fifo
            \/ Register(t) \/ Unregister(t)
<1> USE DEF Base, Typed
<1>1. UNCHANGED <<loop, running, frames, call>>
  BY ThreadFrame
<1>2. \E l : pc' = [pc EXCEPT ![t] = l]
  BY DEF ThreadStep, TimesOut, Allocate, NoWaitEmpty, PoolEmpty, Abandon, Check, Lock,
         Recheck, Put, Wake, Recount, Register, Unregister, Goto
<1>3. \/ UNCHANGED fifo
      \/ Put(t)
  BY DEF ThreadStep, TimesOut, Allocate, NoWaitEmpty, PoolEmpty, Check, Lock, Recheck, Wake,
         Recount, Register, Unregister, queue
<1>4. CASE Allocate(t) \/ Lock(t) \/ Wake(t) \/ Recount(t)
  <2>1. UNCHANGED subscribers
    BY <1>4 DEF Allocate, Lock, Wake, Recount, channel
  <2>2. Replaying(t) => Replaying(t)'
    BY <1>1, <1>4 DEF Replaying, Allocate, Lock, Wake, Recount, Goto
  <2> QED BY <1>1, <1>2, <1>3, <2>1, <2>2
<1>5. CASE Check(t) \/ Recheck(t)
  <2>1. CASE Running
    <3>1. UNCHANGED subscribers
      BY <1>5, <2>1 DEF Check, Recheck, channel
    <3>2. Replaying(t) => Replaying(t)'
      BY <1>1, <1>5, <2>1 DEF Replaying, Check, Recheck, Goto
    <3> QED BY <1>1, <1>2, <1>3, <3>1, <3>2
  <2>2. CASE ~Running
    <3>1. Abandon(t) /\ UNCHANGED fifo
      BY <1>5, <2>2 DEF Check, Recheck
    <3> QED BY <1>1, <1>2, <3>1
  <2> QED BY <2>1, <2>2
<1>6. CASE NoWaitEmpty(t) \/ TimesOut(t)
  <2>1. Abandon(t) /\ UNCHANGED fifo
    BY <1>6 DEF NoWaitEmpty, TimesOut, PoolEmpty, queue
  <2> QED BY <1>1, <1>2, <2>1
<1>7. CASE Put(t)
  <2>1. UNCHANGED subscribers
    BY <1>7 DEF Put
  <2> QED BY <1>1, <1>2, <1>7, <2>1
<1>8. CASE Register(t) \/ Unregister(t)
  BY <1>1, <1>2, <1>3, <1>8
<1> QED BY <1>4, <1>5, <1>6, <1>7, <1>8 DEF ThreadStep

LEMMA ReplaysThread ==
  ASSUME Base, LockHeld, ReplaysUnderWay, NEW t \in Threads, ThreadStep(t) \/ TimesOut(t)
  PROVE  ReplaysUnderWay'
<1>1. /\ UNCHANGED <<loop, running, frames, call>>
      /\ \A u \in Threads \ {t} : pc'[u] = pc[u]
      /\ UNCHANGED fifo \/ Put(t)
      /\ \/ UNCHANGED subscribers /\ (Replaying(t) => Replaying(t)')
         \/ UNCHANGED subscribers /\ Put(t)
         \/ Abandon(t) /\ UNCHANGED fifo
         \/ Register(t) \/ Unregister(t)
  BY ThreadMoves
<1>2. \A u \in Threads \ {t} : Replaying(u) => Replaying(u)'
  BY <1>1 DEF Replaying
<1>3. \A i : Resume(i)' = Resume(i)
  BY <1>1 DEF Resume
<1>4. (\E k \in DOMAIN fifo : fifo[k].kind = "replay")
        => \E k \in DOMAIN fifo' : fifo'[k].kind = "replay"
  <2>1. CASE UNCHANGED fifo
    BY <2>1
  <2>2. CASE Put(t)
    <3>1. fifo' = Append(fifo, Job(call[t], t)) /\ Job(call[t], t) \in Jobs
      BY <2>2 DEF Put, Base, Calling, Job, Jobs, JobKinds
    <3> QED BY <3>1, QueuedStays DEF Base
  <2> QED BY <1>1, <2>1, <2>2
<1>5. CASE UNCHANGED subscribers /\ (Replaying(t) => Replaying(t)')
  <2>1. \A u \in Threads : Replaying(u) => Replaying(u)'
    BY <1>2, <1>5
  <2> QED BY <1>1, <1>3, <1>4, <1>5, <2>1 DEF ReplaysUnderWay, ReplayUnderWay
<1>6. CASE UNCHANGED subscribers /\ Put(t)
  <2>1. Replaying(t) => \E k \in DOMAIN fifo' : fifo'[k].kind = "replay"
    <3>1. fifo' = Append(fifo, Job(call[t], t)) /\ Job(call[t], t) \in Jobs
          /\ Job(call[t], t).kind = call[t]
      BY <1>6 DEF Put, Base, Calling, Job, Jobs, JobKinds
    <3> QED BY <3>1, QueuedNow DEF Base, Replaying
  <2> QED BY <1>1, <1>2, <1>3, <1>4, <1>6, <2>1 DEF ReplaysUnderWay, ReplayUnderWay
<1>7. CASE Abandon(t) /\ UNCHANGED fifo
  <2>1. /\ DOMAIN subscribers' = DOMAIN subscribers
        /\ Len(subscribers') = Len(subscribers)
        /\ \A i \in DOMAIN subscribers :
             /\ subscribers'[i].needsReplay = subscribers[i].needsReplay
             /\ subscribers[i].dropped => subscribers'[i].dropped
             /\ call[t] = "replay" /\ i = Len(subscribers) => subscribers'[i].dropped
    BY <1>7, AbandonSlots DEF Base
  <2> SUFFICES ASSUME NEW i \in DOMAIN subscribers,
                      subscribers'[i].needsReplay, ~subscribers'[i].dropped
               PROVE  ReplayUnderWay(i)'
    BY <2>1 DEF ReplaysUnderWay
  <2>2. ReplayUnderWay(i)
    BY <2>1 DEF ReplaysUnderWay
  <2>3. i = Len(subscribers) => ~Replaying(t)
    BY <2>1 DEF Replaying
  <2> QED BY <1>1, <1>2, <1>3, <1>4, <2>1, <2>2, <2>3 DEF ReplayUnderWay
<1>8. CASE Register(t) \/ Unregister(t)
  <2>1. frames = <<>> /\ \A u \in Threads : ~Replaying(u)
    BY <1>8, ClientsAssumption DEF Register, Unregister, LockHeld, Dispatcher, None, Threads
  <2>2. \A i \in DOMAIN subscribers : \A j :
          subscribers[i].needsReplay /\ ~subscribers[i].dropped => ReplayUnderWay(j)'
    BY <1>1, <1>4, <2>1 DEF ReplaysUnderWay, ReplayUnderWay
  <2>3. CASE Register(t)
    <3>1. PICK u \in Slots :
            /\ subscribers' = Append(subscribers, u)
            /\ u.needsReplay = (call[t] = "replay" /\ lastSignal > 0)
            /\ u.dropped = (u.needsReplay /\ ~Running)
      BY <2>3, NewSlotInStep DEF Base
    <3>2. /\ Len(subscribers) \in Nat /\ Len(subscribers') = Len(subscribers) + 1
          /\ DOMAIN subscribers' = 1 .. Len(subscribers) + 1
          /\ DOMAIN subscribers = 1 .. Len(subscribers)
          /\ \A i \in 1 .. Len(subscribers) : subscribers'[i] = subscribers[i]
          /\ subscribers'[Len(subscribers) + 1] = u
      BY <3>1, AppendProperties, LenProperties DEF Base, Typed
    <3>3. \A i \in 1 .. Len(subscribers) + 1 :
            i \in 1 .. Len(subscribers) \/ i = Len(subscribers')
      BY <3>2
    <3>4. u.needsReplay /\ ~u.dropped => Replaying(t)'
      BY <1>1, <2>3, <3>1 DEF Base, Typed, Register, Replaying, Goto
    <3>6. ASSUME NEW i \in DOMAIN subscribers',
                 subscribers'[i].needsReplay, ~subscribers'[i].dropped
          PROVE  ReplayUnderWay(i)'
      <4>1. CASE i \in 1 .. Len(subscribers)
        BY <2>2, <3>2, <3>6, <4>1
      <4>2. CASE i = Len(subscribers')
        BY <3>2, <3>4, <3>6, <4>2 DEF ReplayUnderWay
      <4> QED BY <3>2, <3>3, <4>1, <4>2
    <3> QED BY <3>6 DEF ReplaysUnderWay
  <2>4. CASE Unregister(t)
    <3>1. PICK k \in DOMAIN subscribers : subscribers' = WithoutSlot(k)
      BY <2>4 DEF Unregister
    <3>2. \A i \in DOMAIN subscribers' :
            \E j \in DOMAIN subscribers : subscribers'[i] = subscribers[j]
      BY <3>1, WithoutSlotIs DEF Base
    <3> QED BY <2>2, <3>2 DEF ReplaysUnderWay
  <2> QED BY <1>8, <2>3, <2>4
<1> QED BY <1>1, <1>5, <1>6, <1>7, <1>8

\* The slots and the calls stay, and so does where every replay is.
LEMMA ReplaysKept ==
  ASSUME ReplaysUnderWay, UNCHANGED <<subscribers, pc, call>>,
         \A i \in DOMAIN subscribers :
           ReplayUnderWay(i) /\ ~(i = Len(subscribers) /\ \E t \in Threads : Replaying(t)) =>
             \/ \E k \in DOMAIN fifo' : fifo'[k].kind = "replay"
             \/ loop' = "invoke" /\ running'.kind = "replay"
             \/ frames' # <<>> /\ frames'[1].replay /\ Resume(1)' <= i
  PROVE  ReplaysUnderWay'
<1>1. \A t \in Threads : Replaying(t)' <=> Replaying(t)
  BY DEF Replaying
<1> SUFFICES ASSUME NEW i \in DOMAIN subscribers,
                    subscribers[i].needsReplay, ~subscribers[i].dropped
             PROVE  ReplayUnderWay(i)'
  BY DEF ReplaysUnderWay
<1>2. ReplayUnderWay(i)
  BY DEF ReplaysUnderWay
<1>3. CASE i = Len(subscribers) /\ \E t \in Threads : Replaying(t)
  BY <1>1, <1>3 DEF ReplayUnderWay
<1>4. CASE ~(i = Len(subscribers) /\ \E t \in Threads : Replaying(t))
  BY <1>2, <1>4 DEF ReplayUnderWay
<1> QED BY <1>2, <1>3, <1>4

LEMMA ReplaysGet ==
  ASSUME Base, ReplaysUnderWay, Get
  PROVE  ReplaysUnderWay'
<1> USE DEF Base, Typed
<1>1. /\ fifo # <<>> /\ running' = fifo[1] /\ fifo' = Tail(fifo) /\ loop' = "invoke"
      /\ loop # "invoke" /\ frames = <<>> /\ UNCHANGED <<subscribers, pc, call>>
  BY DEF Get, HasJob, channel, threads
<1>2. /\ Len(fifo) \in Nat /\ Len(fifo') = Len(fifo) - 1
      /\ DOMAIN fifo = 1 .. Len(fifo) /\ DOMAIN fifo' = 1 .. Len(fifo')
      /\ \A j \in 1 .. Len(fifo') : fifo'[j] = fifo[j + 1]
  <2>1. fifo' \in Seq(Jobs)
    BY <1>1, HeadTailProperties
  <2> QED BY <1>1, <2>1, HeadTailProperties, LenProperties
<1>3. \A k \in 1 .. Len(fifo) : k = 1 \/ (k - 1 \in 1 .. Len(fifo') /\ k - 1 + 1 = k)
  <2> HIDE DEF Base, Typed
  <2> QED BY <1>2
<1>4. ASSUME NEW k \in DOMAIN fifo, fifo[k].kind = "replay"
      PROVE  \/ \E j \in DOMAIN fifo' : fifo'[j].kind = "replay"
             \/ loop' = "invoke" /\ running'.kind = "replay"
  <2> HIDE DEF Base, Typed
  <2>1. CASE k = 1
    BY <1>1, <1>4, <2>1
  <2>2. CASE k - 1 \in 1 .. Len(fifo') /\ k - 1 + 1 = k
    BY <1>2, <1>4, <2>2
  <2> QED BY <1>2, <1>3, <2>1, <2>2
<1> QED BY <1>1, <1>4, ReplaysKept DEF ReplayUnderWay

LEMMA ReplaysDeliver ==
  ASSUME Base, Typed', Loops, ReplaysUnderWay, Deliver
  PROVE  ReplaysUnderWay'
<1> USE DEF Base
<1>0. /\ frames # <<>> /\ UNCHANGED <<fifo, running, pc, call>>
      /\ loop = "deliver" /\ loop' = "callback"
  BY DEF Deliver, HasJob, queue, threads
<1>1. PICK k \in DOMAIN subscribers :
        /\ k \in Due /\ \A j \in Due : k <= j
        /\ subscribers' = [subscribers EXCEPT ![k] = Called(@)]
        /\ Len(frames') = Len(frames)
        /\ \A d \in 1 .. Len(frames) : frames'[d].replay = frames[d].replay
        /\ \A d \in 1 .. Len(frames) : d # Depth => Resume(d)' = Resume(d)
        /\ \A d \in 1 .. Len(frames) : d = Depth => Resume(d)' = k + 1
        /\ Top.replay => Depth = 1
  BY <1>0, LoopDelivers
<1>2. /\ DOMAIN subscribers = 1 .. Len(subscribers) /\ subscribers[k] \in Slots
      /\ DOMAIN subscribers' = DOMAIN subscribers /\ Len(subscribers') = Len(subscribers)
  BY <1>1, LenProperties, ElementOfSeq DEF Typed
<1>3. /\ subscribers'[k] = Called(subscribers[k])
      /\ \A i \in DOMAIN subscribers : i # k => subscribers'[i] = subscribers[i]
  BY <1>1
<1>4. ~subscribers'[k].needsReplay
  BY <1>2, <1>3 DEF Called, Slots
<1>5. /\ Depth \in 1 .. Len(frames) /\ Depth = Len(frames) /\ Len(frames) \in Nat
      /\ 1 \in 1 .. Len(frames) /\ Top.pos \in Nat
  <2>1. Depth \in 1 .. Len(frames) /\ Depth = Len(frames)
    BY <1>0, TopTyped DEF Depth
  <2>2. Len(frames) \in Nat /\ Top.pos \in Nat
    BY <2>1, FrameFields DEF Top
  <2>3. 1 \in 1 .. Len(frames)
    <3> HIDE DEF Base
    <3> QED BY <2>1, <2>2
  <2> QED BY <2>1, <2>2, <2>3
<1>6. frames' # <<>>
  <2>1. Len(frames') # 0
    <3> HIDE DEF Base
    <3> QED BY <1>1, <1>5
  <2> QED BY <2>1, EmptySeq
<1> SUFFICES ASSUME NEW i \in DOMAIN subscribers, i # k,
                    subscribers[i].needsReplay, ~subscribers[i].dropped
             PROVE  ReplayUnderWay(i)'
  BY <1>2, <1>3, <1>4 DEF ReplaysUnderWay
<1>7. ReplayUnderWay(i)
  BY DEF ReplaysUnderWay
<1>8. CASE \/ i = Len(subscribers) /\ \E t \in Threads : Replaying(t)
           \/ \E j \in DOMAIN fifo : fifo[j].kind = "replay"
  BY <1>0, <1>2, <1>8 DEF ReplayUnderWay, Replaying
<1>9. CASE frames[1].replay /\ Resume(1) <= i
  <2>1. frames'[1].replay /\ (Depth # 1 => Resume(1)' = Resume(1))
    BY <1>1, <1>5, <1>9
  <2>2. CASE Depth # 1
    BY <1>6, <1>9, <2>1, <2>2 DEF ReplayUnderWay
  <2>3. CASE Depth = 1
    <3>1. Resume(1) = Top.pos
      BY <1>0, <1>5, <2>3 DEF Resume, Top
    <3>2. i \in Due /\ i \in Nat /\ k \in Nat
      <4>1. i \in Nat /\ k \in Nat
        <5> HIDE DEF Base
        <5> QED BY <1>2
      <4> QED BY <1>5, <1>9, <3>1, <4>1 DEF Due
    <3>3. Resume(1)' <= i
      <4>1. Resume(1)' = k + 1 /\ k <= i
        BY <1>1, <1>5, <2>3, <3>2
      <4> HIDE DEF Base
      <4> QED BY <3>2, <4>1
    <3> QED BY <1>6, <2>1, <3>3 DEF ReplayUnderWay
  <2> QED BY <2>2, <2>3
<1> QED BY <1>0, <1>7, <1>8, <1>9 DEF ReplayUnderWay

LEMMA ReplaysDispatcher ==
  ASSUME Base, Typed', Loops, ReplaysUnderWay, DispatcherStep \/ PublishSync
  PROVE  ReplaysUnderWay'
<1> USE DEF Base
<1>0. frames # <<>> => 1 \in 1 .. Len(frames)
  <2>1. frames # <<>> => Len(frames) \in Nat /\ Len(frames) # 0
    BY FrameFields, EmptySeq DEF Typed
  <2> HIDE DEF Base
  <2> QED BY <2>1
<1>1. CASE Get
  BY <1>1, ReplaysGet
<1>2. CASE SyncReturns \/ Release \/ Finish
  <2>1. /\ UNCHANGED <<subscribers, pc, call, fifo>>
        /\ loop # "invoke" /\ frames = <<>>
    BY <1>2 DEF SyncReturns, Release, Finish, HasJob, channel, threads, queue
  <2> QED BY <2>1, ReplaysKept DEF ReplayUnderWay
<1>3. CASE Invoke
  <2>1. /\ UNCHANGED <<subscribers, pc, call, fifo, running>> /\ frames = <<>>
        /\ running.kind = "replay" => OpenReplay
    BY <1>3 DEF Invoke, HasJob, Jobs, JobKinds, Typed, OpenPublish, OpenReplay, channel, queue
  <2>2. running.kind = "replay" =>
          frames' # <<>> /\ frames'[1].replay /\ Resume(1)' = 1
    BY <2>1, ReplayOpens
  <2>3. \A i \in DOMAIN subscribers : 1 <= i
    <3>1. DOMAIN subscribers = 1 .. Len(subscribers)
      BY LenProperties DEF Typed
    <3> QED BY <3>1
  <2> QED BY <2>1, <2>2, <2>3, ReplaysKept DEF ReplayUnderWay
<1>4. CASE Deliver
  BY <1>4, ReplaysDeliver
<1>5. CASE CallbackReturns
  <2>1. frames # <<>> /\ UNCHANGED <<subscribers, pc, call, fifo>> /\ loop # "invoke"
    BY <1>5 DEF CallbackReturns, HasJob, queue, threads
  <2>2. Resume(1)' = Resume(1)
    BY <1>0, <1>5, <2>1, CallbackEnds
  <2>3. frames' # <<>> /\ (frames[1].replay => frames'[1].replay)
    <3>1. Top.pos + 1 \in Nat /\ 0 \in Nat
      <4>1. Top.pos \in Nat
        BY <2>1, TopTyped, FrameFields DEF Top
      <4> QED BY <4>1
    <3>2. frames' = [frames EXCEPT ![Depth].pos = Top.pos + 1, ![Depth].id = 0]
      BY <1>5, <2>1, TopTyped, FrameFields DEF CallbackReturns, Top
    <3>3. /\ Len(frames') = Len(frames)
          /\ \A d \in 1 .. Len(frames) : frames'[d].replay = frames[d].replay
      BY <2>1, <3>1, <3>2, TopMoves
    <3> QED BY <1>0, <2>1, <3>3, EmptySeq DEF Typed
  <2> QED BY <2>1, <2>2, <2>3, ReplaysKept DEF ReplayUnderWay
<1>6. CASE EndLoop
  <2>1. /\ frames # <<>> /\ UNCHANGED <<subscribers, pc, call, fifo>> /\ loop = "deliver"
        /\ Due = {}
    BY <1>6 DEF EndLoop, HasJob, queue, threads
  <2>2. /\ Len(frames') = Len(frames) - 1 /\ Len(frames) \in Nat /\ Len(frames) # 0
        /\ \A d \in 1 .. Len(frames') : frames'[d] = frames[d] /\ Resume(d)' = Resume(d)
    BY <1>6, <2>1, LoopEnds, FrameFields, EmptySeq DEF Typed
  <2>3. CASE Len(frames) = 1
    <3>1. ASSUME frames[1].replay, NEW i \in DOMAIN subscribers, subscribers[i].needsReplay,
                 Resume(1) <= i
          PROVE  FALSE
      <4>1. Top = frames[1] /\ Resume(1) = Top.pos
        BY <2>1, <2>3 DEF Top, Depth, Resume
      <4>2. Top.pos \in Nat /\ i \in Nat
        <5>1. DOMAIN subscribers = 1 .. Len(subscribers)
          BY LenProperties DEF Typed
        <5>2. Top.pos \in Nat
          BY <1>0, <2>1, <4>1, FrameFields
        <5> QED BY <5>1, <5>2
      <4> QED BY <2>1, <3>1, <4>1, <4>2 DEF Due
    <3>2. \A t \in Threads : Replaying(t)' <=> Replaying(t)
      BY <2>1 DEF Replaying
    <3> QED BY <2>1, <3>1, <3>2 DEF ReplaysUnderWay, ReplayUnderWay
  <2>4. CASE Len(frames) # 1
    <3>1. 1 \in 1 .. Len(frames') /\ Len(frames') # 0
      <4> HIDE DEF Base
      <4> QED BY <2>2, <2>4
    <3>2. frames' # <<>> /\ frames'[1] = frames[1] /\ Resume(1)' = Resume(1)
      BY <2>2, <3>1, EmptySeq
    <3> QED BY <2>1, <3>2, ReplaysKept DEF ReplayUnderWay
  <2> QED BY <2>3, <2>4
<1>7. CASE PublishSync
  <2>1. /\ OpenPublish /\ (frames = <<>> \/ loop = "callback") /\ loop # "invoke"
        /\ UNCHANGED <<subscribers, pc, call, fifo>>
    BY <1>7 DEF PublishSync, OpenPublish, HasJob, queue, threads
  <2>2. /\ frames' # <<>>
        /\ frames # <<>> => frames'[1] = frames[1] /\ Resume(1)' = Resume(1)
    BY <1>0, <2>1, PublishOpens
  <2> QED BY <2>1, <2>2, ReplaysKept DEF ReplayUnderWay
<1> QED BY <1>1, <1>2, <1>3, <1>4, <1>5, <1>6, <1>7 DEF DispatcherStep

LEMMA ReplaysStep ==
  ASSUME Base, Typed', LockHeld, Loops, ReplaysUnderWay, [Next]_vars
  PROVE  ReplaysUnderWay'
<1> USE DEF Base
<1>1. CASE \E t \in Threads : ThreadStep(t) \/ TimesOut(t)
  BY <1>1, ReplaysThread
<1>2. CASE DispatcherStep \/ PublishSync
  BY <1>2, ReplaysDispatcher
<1>3. CASE RequestStop \/ UNCHANGED vars
  <2>1. UNCHANGED <<subscribers, pc, call, fifo, loop, running, frames>>
    BY <1>3 DEF RequestStop, vars, queue, channel, dispatch, threads
  <2> QED BY <2>1 DEF ReplaysUnderWay, ReplayUnderWay, Replaying, Resume
<1>4. CASE WakeUp
  <2>1. /\ UNCHANGED <<subscribers, pc, call, loop, running, frames>>
        /\ fifo' = Append(fifo, Job("noop", Owner)) /\ Job("noop", Owner) \in Jobs
    BY <1>4 DEF WakeUp, channel, dispatch, threads, Job, Jobs, JobKinds
  <2>2. \A k \in DOMAIN fifo : k \in DOMAIN fifo' /\ fifo'[k] = fifo[k]
    BY <2>1, QueuedStays
  <2> QED BY <2>1, <2>2 DEF ReplaysUnderWay, ReplayUnderWay, Replaying, Resume
<1>5. ASSUME NEW t \in Threads,
             \/ \E kind \in {"publish", "drain", "sync"} : t \in Clients /\ Call(t, kind)
             \/ \E replay \in BOOLEAN : Subscribe(t, replay)
             \/ \E id \in SubscriberIds : Unsubscribe(t, id)
      PROVE  ReplaysUnderWay'
  <2>1. /\ UNCHANGED <<subscribers, fifo, loop, running, frames>>
        /\ \A u \in Threads \ {t} : pc'[u] = pc[u] /\ call'[u] = call[u]
        /\ pc[t] = "idle"
    BY <1>5 DEF Typed, Call, Subscribe, Unsubscribe, NewCall, Goto, queue, channel, dispatch
  <2>2. \A u \in Threads : Replaying(u) => Replaying(u)'
    BY <2>1 DEF Replaying
  <2> QED BY <2>1, <2>2 DEF ReplaysUnderWay, ReplayUnderWay, Resume
<1> QED
  BY <1>1, <1>2, <1>3, <1>4, <1>5 DEF Next, Choice, Threads

\* When nothing is left to run, every subscriber that asked for the latest
\* signal has received one or was told that its replay was dropped.
THEOREM ReplaysAreKept == Spec => []NoReplayLost
<1>1. Base /\ ReplaysUnderWay => NoReplayLost
  <2> SUFFICES ASSUME Base, ReplaysUnderWay, fifo = <<>>, loop = "get",
                      \A t \in Threads : pc[t] = "idle",
                      NEW i \in DOMAIN subscribers, subscribers[i].needsReplay,
                      ~subscribers[i].dropped
               PROVE  FALSE
    BY DEF NoReplayLost
  <2>1. ReplayUnderWay(i)
    BY DEF ReplaysUnderWay
  <2>2. frames = <<>> /\ DOMAIN fifo = {}
    BY DEF Base, HasJob
  <2> QED BY <2>1, <2>2 DEF ReplayUnderWay, Replaying
<1>2. Base /\ Base' /\ LockHeld /\ Loops /\ ReplaysUnderWay /\ [Next]_vars => ReplaysUnderWay'
  BY ReplaysStep DEF Base
<1>3. Base /\ Base' /\ LockHeld /\ Loops /\ AllInStep /\ [Next]_vars => (Loops /\ AllInStep)'
  BY InStepStep DEF Base
<1>4. Base /\ LockHeld /\ [Next]_vars => LockHeld'
  BY LockHeldStep
<1> QED
  BY <1>1, <1>2, <1>3, <1>4, BaseInvariant, LockHeldInit, InStepInit, ReplaysInit, PTL DEF Spec
=============================================================================
