--------------------------- MODULE ScenarioProofs ---------------------------
(***************************************************************************)
(* Proofs about SimulationScenario, and about ImmediateNetwork under it,   *)
(* for any nodes, frames, devices, waypoints and steps.                    *)
(***************************************************************************)
EXTENDS SimulationScenario, EventQueueProofs

(* Where a thread is in transmit or processUntil, and what it has in hand  *)
(* there.                                                                  *)
At == {"out", "stamped", "pushed", "looping", "popped", "delivering", "calling", "leaving"}
ThreadState ==
    [at : At, frame : Frames \cup {NoFrame}, time : Nat, until : Nat,
     left : SUBSET NodeIds, to : NodeIds \cup {Driver}]
Event == [time : Nat, priority : {2}, frame : Frames]
(* The life of a manager, a node as the scenario keeps it, and the history *)
(* of how far it has moved at one speed.                                   *)
Managers == {"new", "running", "stopping", "stopped", "ending", "freed"}
Subseconds == 0 .. 999
Location ==
    [lat : Int, lon : Int, speed_cm_s : Nat, heading_cdeg : Headings, timestamp_s : Nat,
     moved_lat : Int, subsecond_ms : Subseconds]
Runtime ==
    [device : DeviceConfig, waypoints : Seq(WaypointConfig), next_waypoint_idx : Nat,
     location : Location, manager : Managers]
Leg == [since : Nat, steps : Nat]

(* The types of the variables, in groups that steps change together.       *)
ThreadsTyped == thread \in [Threads -> ThreadState]
QueueTyped == event_queue \in Seq(Event)
TimeTyped == now_us \in Nat
ClockTyped ==
    /\ clock \in 0 .. MaxTime /\ delta_ms \in Nat
    /\ phase = "draining" => clock + delta_ms <= MaxTime
    /\ phase \in {"advancing", "steering"} => delta_ms <= clock
    /\ phase \in {"configuring", "loading"} => clock = 0
CountsTyped == attempts \in Nat /\ outcomes \in Nat /\ carried \in Nat
HistoriesTyped ==
    /\ called \subseteq Frames /\ IsFiniteSet(called)
    /\ handed \in [Frames -> [NodeIds -> Nat]]
NodesTyped ==
    /\ Ids \subseteq NodeIds /\ nodes = Ids
    /\ runtime \in [Ids -> Runtime]
    /\ \A n \in Ids : runtime[n].next_waypoint_idx <= Len(runtime[n].waypoints)
    /\ Ids \subseteq DOMAIN leg /\ leg \in [DOMAIN leg -> Leg]
    /\ phase \in {"configuring", "loading", "gone"} => Ids = {}
LoopsTyped ==
    /\ phase \in Phases /\ started \in BOOLEAN /\ todo \subseteq Ids
    /\ phase \in {"idle", "draining", "arriving", "finishing", "destroying"} => todo = Ids
Typed ==
    /\ ThreadsTyped /\ QueueTyped /\ TimeTyped /\ ClockTyped /\ CountsTyped
    /\ HistoriesTyped /\ NodesTyped /\ LoopsTyped

(* No two events of the queue are for one frame.                           *)
Separate(queue) ==
    \A i, k \in 1 .. Len(queue) : i # k => queue[i].frame # queue[k].frame

(* Where a thread has no frame in hand.                                    *)
Empty == {"out", "pushed", "looping", "leaving"}

(* A thread has a frame, receivers still to serve, and a receiver whose    *)
(* handler it has copied, exactly where the code has them.                 *)
Threaded ==
    \A t \in Threads :
        /\ thread[t].frame = NoFrame <=> thread[t].at \in Empty
        /\ thread[t].at \notin {"delivering", "calling"} => thread[t].left = {}
        /\ thread[t].to # Driver <=> thread[t].at = "calling"

(* A frame that transmit was called with is in one place at most: with one *)
(* thread, or in the queue, once.                                          *)
Whereabouts ==
    /\ \A t, u \in Threads :
          t # u /\ thread[t].frame = thread[u].frame => thread[t].frame = NoFrame
    /\ Separate(event_queue)
    /\ \A t \in Threads : thread[t].frame # NoFrame =>
          thread[t].frame \in called /\ thread[t].frame \notin Queued
    /\ Queued \subseteq called

(* The receivers that a thread still has to serve have not been handed its *)
(* frame, by whatever thread.                                              *)
UnservedBy(t) ==
    /\ thread[t].at \in {"stamped", "popped"} =>
          \A n \in NodeIds : handed[thread[t].frame][n] = 0
    /\ \A n \in Held(t) : handed[thread[t].frame][n] = 0 /\ n # Source[thread[t].frame]
    /\ thread[t].to \notin thread[t].left

(* A frame that is queued, or that transmit was not called with yet, was   *)
(* handed to nobody.                                                       *)
Unserved ==
    /\ HandedOnce
    /\ \A f \in Frames : f \notin called \/ f \in Queued => \A n \in NodeIds : handed[f][n] = 0
    /\ \A t \in Threads : UnservedBy(t)

(* Whose threads can be in the network: those of a manager that runs or is *)
(* told to stop, and the driver's while it sends or steps. A manager that  *)
(* is being freed has no handler in a link any more, and no thread has a   *)
(* node in hand that is gone.                                              *)
Life ==
    /\ ~Is(Driver, "out") => phase \in {"idle", "draining", "finishing"}
    /\ thread[Driver].at \in {"stamped", "pushed"} => phase = "idle"
    /\ \A n \in NodeIds : ~Is(n, "out") => n \in Ids /\ runtime[n].manager \in {"running", "stopping"}
    /\ ~started /\ phase \notin {"starting", "stopping", "closing"} =>
          \A n \in Ids : runtime[n].manager \notin {"running", "stopping"}
    /\ phase = "destroying" => ~started
    /\ phase \in {"stopping", "closing"} => \A n \in Ids \ todo : runtime[n].manager = "stopped"
    /\ \A n \in Ids : runtime[n].manager \in {"ending", "freed"} =>
          phase = "destroying" /\ n \notin handler
    /\ handler \subseteq Ids
    /\ \A t \in Threads : Held(t) \subseteq Ids

(* No stamp and no horizon is ahead of the scenario's clock.               *)
Timely ==
    /\ now_us <= 1000 * clock
    /\ \A t \in Threads : thread[t].time <= 1000 * clock /\ thread[t].until <= 1000 * clock
    /\ \A e \in Members(event_queue) : e.time <= 1000 * clock

(* While the driver drains the network before the clock moves on, it is    *)
(* still at it, with the present as its horizon, unless the backlog has    *)
(* left the queue; so it has left when the nodes move.                     *)
Drained ==
    /\ backlog \subseteq called
    /\ \A t \in Threads : Is(t, "stamped") => thread[t].frame \notin backlog
    /\ phase = "draining" =>
          \/ ~Is(Driver, "out") /\ ~Is(Driver, "leaving") /\ thread[Driver].until = 1000 * clock
          \/ backlog \cap Queued = {}
    /\ phase \in {"advancing", "steering", "arriving", "finishing"} => backlog \cap Queued = {}

(* The time up to which advance, and the waypoints, have taken a node: the *)
(* loop over the nodes reaches one after the other, after the clock has    *)
(* moved on.                                                               *)
Moved_to(n) == IF phase = "advancing" /\ n \in todo THEN clock - delta_ms ELSE clock
Steered_to(n) ==
    IF phase = "advancing" \/ (phase = "steering" /\ n \in todo) THEN clock - delta_ms ELSE clock

(* A node's own clock is behind by less than a second, which a waypoint    *)
(* can cost; each step at one speed costs a truncation and a rounding, so  *)
(* the gap between the way north and what was moved stays within as many   *)
(* times that as there were steps.                                         *)
Way(c, v, d) == c * v * d
Within(c, gap, steps) == gap \in steps * LeastGap(c) .. steps * MostGap(c)
Short(c, way, moved, steps) == Within(c, way - North(moved), steps)
UnderASecond(ms) == ms \in 0 .. 999
OnTime(t, at) == UnderASecond(t - LocalMs(at))
OnTrack(t, at, l) ==
    LET c == Cosine[at.heading_cdeg]
    IN  Short(c, Way(c, at.speed_cm_s, t - l.since), at.moved_lat, l.steps)
Clocks == \A n \in Ids : OnTime(Moved_to(n), runtime[n].location)
Travels == \A n \in Ids : OnTrack(Moved_to(n), runtime[n].location, leg[n])

(* A node's waypoints in order, those that are in the past, and the node   *)
(* as the last of them, or else its device, left it.                       *)
Sorted(waypoints) ==
    \A i, j \in 1 .. Len(waypoints) : i < j => waypoints[i].at_s <= waypoints[j].at_s
Past(node, s) == {i \in 1 .. Len(node.waypoints) : node.waypoints[i].at_s <= s}
OnCourse(node) ==
    LET k == node.next_waypoint_idx
        w == IF k = 0 THEN node.device ELSE node.waypoints[k]
    IN  /\ node.location.lat = w.lat /\ node.location.lon = w.lon
        /\ node.location.speed_cm_s = w.speed_cm_s
        /\ node.location.heading_cdeg = w.heading_cdeg
(* Exactly the waypoints up to the next one are in the past, and the node  *)
(* is on the course that the last of them set.                             *)
Follows(node, s) ==
    /\ Past(node, s) = 1 .. node.next_waypoint_idx
    /\ Sorted(node.waypoints)
    /\ OnCourse(node)
Courses == \A n \in Ids : Follows(runtime[n], Seconds(Steered_to(n)))

-----------------------------------------------------------------------------
(* What is assumed, a fact at a time.                                      *)

LEMMA Parameters ==
    /\ Driver \notin NodeIds /\ NoFrame \notin Frames
    /\ \A f \in Frames : Source[f] \in NodeIds
    /\ Deltas \subseteq Nat /\ MaxTime \in Nat
    /\ \A r \in Runnable : /\ r[1] \in Nat /\ 1000 * r[1] <= MaxTime
                           /\ r[2] \in Seq(DeviceConfig)
BY ImmediateAssumption, ScenarioAssumption DEF ImmediateAssumption, ScenarioAssumption

(* A thread's state, in its parts.                                         *)
LEMMA ThreadFields ==
    ASSUME ThreadsTyped, NEW t \in Threads
    PROVE  /\ thread[t] \in ThreadState
           /\ thread[t].at \in At /\ thread[t].frame \in Frames \cup {NoFrame}
           /\ thread[t].time \in Nat /\ thread[t].until \in Nat
           /\ thread[t].left \subseteq NodeIds /\ thread[t].to \in NodeIds \cup {Driver}
BY DEF ThreadsTyped, ThreadState

(* Every operation of the network changes the state of one thread.         *)
LEMMA ThreadUpdate ==
    ASSUME ThreadsTyped, NEW t \in Threads, NEW r \in ThreadState,
           thread' = [thread EXCEPT ![t] = r]
    PROVE  /\ ThreadsTyped' /\ thread'[t] = r
           /\ \A s \in Threads : s # t => thread'[s] = thread[s]
BY DEF ThreadsTyped

(* What each operation does to the thread that runs it.                    *)
LEMMA OutState ==
    /\ Out \in ThreadState
    /\ Out.at = "out" /\ Out.frame = NoFrame /\ Out.time = 0 /\ Out.until = 0
    /\ Out.left = {} /\ Out.to = Driver
BY DEF Out, ThreadState, At

LEMMA LoopingState ==
    ASSUME NEW until \in Nat
    PROVE  /\ Looping(until) \in ThreadState
           /\ Looping(until).at = "looping" /\ Looping(until).frame = NoFrame
           /\ Looping(until).time = 0 /\ Looping(until).until = until
           /\ Looping(until).left = {} /\ Looping(until).to = Driver
<1>1. PICK r : r = [Out EXCEPT !.at = "looping", !.until = until]
  OBVIOUS
<1>2. r \in ThreadState
  BY <1>1, OutState, Zenon DEF ThreadState, At
<1>3. /\ r.at = "looping" /\ r.frame = Out.frame /\ r.time = Out.time
      /\ r.until = until /\ r.left = Out.left /\ r.to = Out.to
  BY <1>1, OutState, Zenon DEF ThreadState
<1> QED BY <1>1, <1>2, <1>3, OutState, Zenon DEF Looping

LEMMA TransmitThread ==
    ASSUME Typed, NEW t \in Threads, NEW f \in Frames, Transmit(t, f)
    PROVE  /\ ThreadsTyped'
           /\ \A s \in Threads : s # t => thread'[s] = thread[s]
           /\ thread'[t].at = "stamped" /\ thread'[t].frame = f
           /\ thread'[t].time = now_us /\ thread'[t].until = 0
           /\ thread'[t].left = {} /\ thread'[t].to = Driver
<1>1. PICK r : r = [Out EXCEPT !.at = "stamped", !.frame = f, !.time = now_us]
  OBVIOUS
<1>2. now_us \in Nat /\ ThreadsTyped
  BY DEF Typed, TimeTyped
<1>3. r \in ThreadState
  BY <1>1, <1>2, OutState, Zenon DEF ThreadState, At
<1>4. /\ r.at = "stamped" /\ r.frame = f /\ r.time = now_us
      /\ r.until = Out.until /\ r.left = Out.left /\ r.to = Out.to
  BY <1>1, OutState, Zenon DEF ThreadState
<1>5. thread' = [thread EXCEPT ![t] = r]
  BY <1>1 DEF Transmit
<1> QED BY <1>2, <1>3, <1>4, <1>5, OutState, ThreadUpdate

LEMMA PushThread ==
    ASSUME Typed, NEW t \in Threads, Push(t)
    PROVE  /\ ThreadsTyped'
           /\ \A s \in Threads : s # t => thread'[s] = thread[s]
           /\ thread'[t].at = "pushed" /\ thread'[t].frame = NoFrame
           /\ thread'[t].time = 0 /\ thread'[t].until = 0
           /\ thread'[t].left = {} /\ thread'[t].to = Driver
<1>1. PICK r : r = [Out EXCEPT !.at = "pushed"]
  OBVIOUS
<1>2. r \in ThreadState
  BY <1>1, OutState, Zenon DEF ThreadState, At
<1>3. /\ r.at = "pushed" /\ r.frame = Out.frame /\ r.time = Out.time
      /\ r.until = Out.until /\ r.left = Out.left /\ r.to = Out.to
  BY <1>1, OutState, Zenon DEF ThreadState
<1>4. thread' = [thread EXCEPT ![t] = r]
  BY <1>1 DEF Push
<1> QED BY <1>2, <1>3, <1>4, OutState, ThreadUpdate DEF Typed

LEMMA PopThread ==
    ASSUME Typed, NEW t \in Threads, Pop(t)
    PROVE  /\ ThreadsTyped'
           /\ \A s \in Threads : s # t => thread'[s] = thread[s]
           /\ thread'[t].at = "popped" /\ thread'[t].frame = Head(event_queue).frame
           /\ thread'[t].time = Head(event_queue).time /\ thread'[t].until = thread[t].until
           /\ thread'[t].left = thread[t].left /\ thread'[t].to = thread[t].to
<1>1. PICK e \in Event : e = Head(event_queue)
  BY PoppedMembers DEF Typed, QueueTyped, Pop, HasDue
<1>2. PICK r : r = [thread[t] EXCEPT !.at = "popped", !.frame = e.frame, !.time = e.time]
  OBVIOUS
<1>3. thread[t] \in ThreadState /\ ThreadsTyped
  BY ThreadFields DEF Typed
<1>4. e.frame \in Frames /\ e.time \in Nat
  BY <1>1 DEF Event
<1>5. r \in ThreadState
  BY <1>2, <1>3, <1>4, Zenon DEF ThreadState, At
<1>6. thread' = [thread EXCEPT ![t] = r]
  BY <1>1, <1>2, Zenon DEF Pop
<1>7. /\ r.at = "popped" /\ r.frame = e.frame /\ r.time = e.time
      /\ r.until = thread[t].until /\ r.left = thread[t].left /\ r.to = thread[t].to
  BY <1>2, <1>3, Zenon DEF ThreadState
<1> QED BY <1>1, <1>3, <1>5, <1>6, <1>7, ThreadUpdate

LEMMA EnterThread ==
    ASSUME Typed, NEW t \in Threads, Enter(t)
    PROVE  /\ ThreadsTyped'
           /\ \A s \in Threads : s # t => thread'[s] = thread[s]
           /\ thread'[t].at = "looping" /\ thread'[t].frame = NoFrame
           /\ thread'[t].time = 0 /\ thread'[t].until = now_us
           /\ thread'[t].left = {} /\ thread'[t].to = Driver
<1>1. now_us \in Nat /\ ThreadsTyped
  BY DEF Typed, TimeTyped
<1>2. PICK until \in Nat : until = now_us
  BY <1>1
<1>3. PICK r : r = Looping(until)
  OBVIOUS
<1>4. thread' = [thread EXCEPT ![t] = r]
  BY <1>2, <1>3 DEF Enter
<1>5. /\ r \in ThreadState /\ r.at = "looping" /\ r.frame = NoFrame /\ r.time = 0
      /\ r.until = until /\ r.left = {} /\ r.to = Driver
  BY <1>3, LoopingState
<1> QED BY <1>1, <1>2, <1>4, <1>5, ThreadUpdate

LEMMA ProcessUntilThread ==
    ASSUME Typed, NEW until \in Nat, ProcessUntil(until)
    PROVE  /\ ThreadsTyped'
           /\ \A s \in Threads : s # Driver => thread'[s] = thread[s]
           /\ thread'[Driver].at = "looping" /\ thread'[Driver].frame = NoFrame
           /\ thread'[Driver].time = 0 /\ thread'[Driver].until = until
           /\ thread'[Driver].left = {} /\ thread'[Driver].to = Driver
<1>1. Driver \in Threads /\ ThreadsTyped
  BY DEF Typed, Threads
<1>2. PICK r : r = Looping(until)
  OBVIOUS
<1>3. thread' = [thread EXCEPT ![Driver] = r]
  BY <1>2 DEF ProcessUntil
<1>4. /\ r \in ThreadState /\ r.at = "looping" /\ r.frame = NoFrame /\ r.time = 0
      /\ r.until = until /\ r.left = {} /\ r.to = Driver
  BY <1>2, LoopingState
<1> QED BY <1>1, <1>3, <1>4, ThreadUpdate

LEMMA PopNothingThread ==
    ASSUME Typed, NEW t \in Threads, PopNothing(t)
    PROVE  /\ ThreadsTyped'
           /\ \A s \in Threads : s # t => thread'[s] = thread[s]
           /\ thread'[t].at = "leaving" /\ thread'[t].frame = thread[t].frame
           /\ thread'[t].time = thread[t].time /\ thread'[t].until = thread[t].until
           /\ thread'[t].left = thread[t].left /\ thread'[t].to = thread[t].to
<1>1. PICK r : r = [thread[t] EXCEPT !.at = "leaving"]
  OBVIOUS
<1>2. thread[t] \in ThreadState /\ ThreadsTyped
  BY ThreadFields DEF Typed
<1>3. r \in ThreadState
  BY <1>1, <1>2, Zenon DEF ThreadState, At
<1>4. thread' = [thread EXCEPT ![t] = r]
  BY <1>1, Zenon DEF PopNothing, Moved
<1>5. /\ r.at = "leaving" /\ r.frame = thread[t].frame /\ r.time = thread[t].time
      /\ r.until = thread[t].until /\ r.left = thread[t].left /\ r.to = thread[t].to
  BY <1>1, <1>2, Zenon DEF ThreadState
<1> QED BY <1>2, <1>3, <1>4, <1>5, ThreadUpdate

(* The receivers are nodes that the network knows.                         *)
LEMMA RecipientsAreNodes ==
    ASSUME NEW f
    PROVE  /\ Recipients(f) \subseteq nodes
           /\ Source[f] \notin Recipients(f)
BY DEF Recipients

LEMMA ExecuteThread ==
    ASSUME Typed, NEW t \in Threads, Execute(t)
    PROVE  /\ ThreadsTyped'
           /\ \A s \in Threads : s # t => thread'[s] = thread[s]
           /\ thread'[t].at = "delivering" /\ thread'[t].frame = thread[t].frame
           /\ thread'[t].time = thread[t].time /\ thread'[t].until = thread[t].until
           /\ thread'[t].left \subseteq Ids /\ Source[thread[t].frame] \notin thread'[t].left
           /\ thread'[t].to = thread[t].to
<1>1. PICK left : left = IF Source[thread[t].frame] \in nodes
                         THEN Recipients(thread[t].frame) ELSE {}
  OBVIOUS
<1>2. PICK f : f = thread[t].frame
  OBVIOUS
<1>3. left \subseteq nodes /\ Source[f] \notin left
  BY <1>1, <1>2, RecipientsAreNodes
<1>4. left \subseteq Ids /\ left \subseteq NodeIds
  BY <1>3 DEF Typed, NodesTyped
<1>5. PICK r : r = [thread[t] EXCEPT !.at = "delivering", !.left = left]
  OBVIOUS
<1>6. thread[t] \in ThreadState /\ ThreadsTyped
  BY ThreadFields DEF Typed
<1>7. r \in ThreadState
  BY <1>4, <1>5, <1>6, Zenon DEF ThreadState, At
<1>8. thread' = [thread EXCEPT ![t] = r]
  BY <1>1, <1>5, Zenon DEF Execute
<1>9. /\ r.at = "delivering" /\ r.frame = thread[t].frame /\ r.time = thread[t].time
      /\ r.until = thread[t].until /\ r.left = left /\ r.to = thread[t].to
  BY <1>5, <1>6, Zenon DEF ThreadState
<1> QED BY <1>2, <1>3, <1>4, <1>6, <1>7, <1>8, <1>9, ThreadUpdate

LEMMA PassOverThread ==
    ASSUME Typed, NEW t \in Threads, NEW n \in NodeIds, PassOver(t, n)
    PROVE  /\ ThreadsTyped'
           /\ \A s \in Threads : s # t => thread'[s] = thread[s]
           /\ thread'[t].at = thread[t].at /\ thread'[t].frame = thread[t].frame
           /\ thread'[t].time = thread[t].time /\ thread'[t].until = thread[t].until
           /\ thread'[t].left = thread[t].left \ {n} /\ thread'[t].to = thread[t].to
<1>1. PICK r : r = [thread[t] EXCEPT !.left = @ \ {n}]
  OBVIOUS
<1>2. thread[t] \in ThreadState /\ ThreadsTyped /\ thread[t].left \subseteq NodeIds
  BY ThreadFields DEF Typed
<1>3. r \in ThreadState
  BY <1>1, <1>2, Zenon DEF ThreadState, At
<1>4. thread' = [thread EXCEPT ![t] = r]
  BY <1>1, Zenon DEF PassOver
<1>5. /\ r.at = thread[t].at /\ r.frame = thread[t].frame /\ r.time = thread[t].time
      /\ r.until = thread[t].until /\ r.left = thread[t].left \ {n} /\ r.to = thread[t].to
  BY <1>1, <1>2, Zenon DEF ThreadState
<1> QED BY <1>2, <1>3, <1>4, <1>5, ThreadUpdate

LEMMA CopyHandlerThread ==
    ASSUME Typed, NEW t \in Threads, NEW n \in NodeIds, CopyHandler(t, n)
    PROVE  /\ ThreadsTyped'
           /\ \A s \in Threads : s # t => thread'[s] = thread[s]
           /\ thread'[t].at = "calling" /\ thread'[t].frame = thread[t].frame
           /\ thread'[t].time = thread[t].time /\ thread'[t].until = thread[t].until
           /\ thread'[t].left = thread[t].left \ {n} /\ thread'[t].to = n
<1>1. PICK r : r = [thread[t] EXCEPT !.at = "calling", !.to = n, !.left = @ \ {n}]
  OBVIOUS
<1>2. thread[t] \in ThreadState /\ ThreadsTyped /\ thread[t].left \subseteq NodeIds
  BY ThreadFields DEF Typed
<1>3. r \in ThreadState
  BY <1>1, <1>2, Zenon DEF ThreadState, At
<1>4. thread' = [thread EXCEPT ![t] = r]
  BY <1>1, Zenon DEF CopyHandler
<1>5. /\ r.at = "calling" /\ r.frame = thread[t].frame /\ r.time = thread[t].time
      /\ r.until = thread[t].until /\ r.left = thread[t].left \ {n} /\ r.to = n
  BY <1>1, <1>2, Zenon DEF ThreadState
<1> QED BY <1>2, <1>3, <1>4, <1>5, ThreadUpdate

LEMMA CallHandlerThread ==
    ASSUME Typed, NEW t \in Threads, CallHandler(t)
    PROVE  /\ ThreadsTyped'
           /\ \A s \in Threads : s # t => thread'[s] = thread[s]
           /\ thread'[t].at = "delivering" /\ thread'[t].frame = thread[t].frame
           /\ thread'[t].time = thread[t].time /\ thread'[t].until = thread[t].until
           /\ thread'[t].left = thread[t].left /\ thread'[t].to = Driver
<1>1. PICK r : r = [thread[t] EXCEPT !.at = "delivering", !.to = Driver]
  OBVIOUS
<1>2. thread[t] \in ThreadState /\ ThreadsTyped
  BY ThreadFields DEF Typed
<1>3. r \in ThreadState
  BY <1>1, <1>2, Zenon DEF ThreadState, At
<1>4. thread' = [thread EXCEPT ![t] = r]
  BY <1>1, Zenon DEF CallHandler
<1>5. /\ r.at = "delivering" /\ r.frame = thread[t].frame /\ r.time = thread[t].time
      /\ r.until = thread[t].until /\ r.left = thread[t].left /\ r.to = Driver
  BY <1>1, <1>2, Zenon DEF ThreadState
<1> QED BY <1>2, <1>3, <1>4, <1>5, ThreadUpdate

LEMMA SettleThread ==
    ASSUME Typed, NEW t \in Threads, Settle(t)
    PROVE  /\ ThreadsTyped'
           /\ \A s \in Threads : s # t => thread'[s] = thread[s]
           /\ thread'[t].at = "looping" /\ thread'[t].frame = NoFrame
           /\ thread'[t].time = 0 /\ thread'[t].until = thread[t].until
           /\ thread'[t].left = {} /\ thread'[t].to = Driver
<1>1. thread[t].until \in Nat /\ ThreadsTyped
  BY ThreadFields DEF Typed
<1>2. PICK until \in Nat : until = thread[t].until
  BY <1>1
<1>3. PICK r : r = Looping(until)
  OBVIOUS
<1>4. thread' = [thread EXCEPT ![t] = r]
  BY <1>2, <1>3, Zenon DEF Settle
<1>5. /\ r \in ThreadState /\ r.at = "looping" /\ r.frame = NoFrame /\ r.time = 0
      /\ r.until = until /\ r.left = {} /\ r.to = Driver
  BY <1>3, LoopingState
<1> QED BY <1>1, <1>2, <1>4, <1>5, ThreadUpdate

LEMMA LeaveThread ==
    ASSUME Typed, NEW t \in Threads, Leave(t)
    PROVE  /\ ThreadsTyped'
           /\ \A s \in Threads : s # t => thread'[s] = thread[s]
           /\ thread'[t].at = "out" /\ thread'[t].frame = NoFrame
           /\ thread'[t].time = 0 /\ thread'[t].until = 0
           /\ thread'[t].left = {} /\ thread'[t].to = Driver
<1>1. thread' = [thread EXCEPT ![t] = Out] /\ ThreadsTyped
  BY DEF Leave, Typed
<1> QED BY <1>1, OutState, ThreadUpdate

-----------------------------------------------------------------------------
(* What a step does to the network: nothing, or one of its operations.     *)

Quiet ==
    /\ UNCHANGED <<thread, event_queue, called, handed>>
    /\ UNCHANGED now_us \/ build
    /\ UNCHANGED <<attempts, outcomes, carried>> \/ resetMetrics

Operated ==
    \/ \E t \in Threads : \E f \in Frames : Transmit(t, f)
    \/ \E t \in Threads : Continue(t)
    \/ \E until \in Nat : until = 1000 * clock /\ ProcessUntil(until)

(* The steps before build. *)
Setting ==
    /\ phase \in {"configuring", "loading"} /\ phase' \in {"configuring", "loading"}
    /\ UNCHANGED <<network, scenario>>

LEMMA ConfigureSteps ==
    ASSUME Configure
    PROVE  Setting \/ build
<1>1. ASSUME NEW line \in Lines, LoadLine(line) PROVE Setting
  BY <1>1 DEF LoadLine, Setting
<1>2. CASE EndLoad
  BY <1>2 DEF EndLoad, Setting
<1>3. ASSUME NEW freq_mhz \in Carriers, setCarrierFrequencyMhz(freq_mhz) PROVE Setting
  BY <1>3 DEF setCarrierFrequencyMhz, Configuring, Setting
<1>4. ASSUME NEW s \in StartTimes, setStartTimeSeconds(s) PROVE Setting
  BY <1>4 DEF setStartTimeSeconds, Configuring, Setting
<1>5. ASSUME NEW cfg \in NetworkConfigs, setNetworkConfig(cfg) PROVE Setting
  BY <1>5 DEF setNetworkConfig, Configuring, Setting
<1>6. ASSUME NEW d \in Devices, addDevice(d) PROVE Setting
  BY <1>6 DEF addDevice, Configuring, Setting
<1>7. ASSUME NEW id \in NodeIds, NEW w \in Waypoints, addWaypoint(id, w) PROVE Setting
  BY <1>7 DEF addWaypoint, Configuring, Setting
<1>8. ASSUME NEW cfg \in Configs, setConfig(cfg) PROVE Setting
  BY <1>8 DEF setConfig, Configuring, Setting
<1> QED BY <1>1, <1>2, <1>3, <1>4, <1>5, <1>6, <1>7, <1>8 DEF Configure

(* A step of the specification is an operation of a thread, or leaves the  *)
(* network as it is.                                                       *)
LEMMA NetworkSteps ==
    ASSUME Typed, [Next]_vars
    PROVE  Quiet \/ (Operated /\ carried' = carried)
<1> USE DEF network, scenario, builder
<1>1. CASE Configure
  <2>1. CASE Setting
    BY <2>1 DEF Setting, Quiet
  <2>2. CASE build
    <3>1. UNCHANGED <<thread, event_queue, called, handed, attempts, outcomes, carried>>
      BY <2>2 DEF build
    <3> QED BY <2>2, <3>1 DEF Quiet
  <2> QED BY <1>1, <2>1, <2>2, ConfigureSteps
<1>2. ASSUME NEW f \in Frames, SendByDriver(f) PROVE Operated /\ carried' = carried
  BY <1>2 DEF SendByDriver, Operated, Threads
<1>3. ASSUME NEW f \in Frames, SendByManager(f) PROVE Operated /\ carried' = carried
  <2>1. Source[f] \in Threads
    BY Parameters DEF Threads
  <2> QED BY <1>3, <2>1 DEF SendByManager, Operated
<1>4. ASSUME NEW t \in Threads, Work(t) PROVE Operated /\ carried' = carried
  BY <1>4 DEF Work, Operated
<1>5. CASE resetMetrics
  BY <1>5 DEF resetMetrics, Quiet
<1>6. CASE BeginStart \/ BeginStop \/ BeginDestroy
  BY <1>6 DEF BeginStart, BeginStop, BeginDestroy, Quiet
<1>7. ASSUME NEW n \in Ids, StartManager(n) PROVE Quiet
  BY <1>7 DEF StartManager, Quiet
<1>8. ASSUME NEW n \in Ids, TellManager(n) \/ JoinManager(n) PROVE Quiet
  BY <1>8 DEF TellManager, JoinManager, Quiet
<1>9. ASSUME NEW n \in Ids, DropHandler(n) \/ FreeManager(n) \/ FreeLink(n) PROVE Quiet
  BY <1>9 DEF DropHandler, FreeManager, FreeLink, Quiet
<1>10. ASSUME NEW d \in Deltas, BeginStep(d) PROVE Operated /\ carried' = carried
  <2>1. PICK s \in Nat : s = 1000 * clock
    BY DEF Typed, ClockTyped
  <2> QED BY <1>10, <2>1 DEF BeginStep, Operated
<1>11. CASE TickClock \/ EndStep
  BY <1>11 DEF TickClock, EndStep, Quiet
<1>12. CASE FinishStep
  <2>1. PICK s \in Nat : s = 1000 * clock
    BY DEF Typed, ClockTyped
  <2> QED BY <1>12, <2>1 DEF FinishStep, Operated
<1>13. ASSUME NEW n \in Ids, AdvanceNode(n) \/ SteerNode(n) PROVE Quiet
  BY <1>13 DEF AdvanceNode, SteerNode, Quiet
<1>14. CASE Gone \/ UNCHANGED vars
  BY <1>14 DEF Gone, vars, Quiet
<1> QED
  BY <1>1, <1>2, <1>3, <1>4, <1>5, <1>6, <1>7, <1>8, <1>9, <1>10, <1>11, <1>12, <1>13, <1>14
  DEF Next, Step, Halt

(* An operation of the network is one of a thread. *)
LEMMA Operations ==
    ASSUME Operated
    PROVE  \/ \E t \in Threads : \E f \in Frames : Transmit(t, f)
           \/ \E t \in Threads :
                 \/ Push(t) \/ Enter(t) \/ Pop(t) \/ PopNothing(t) \/ Execute(t)
                 \/ \E n \in NodeIds : PassOver(t, n) \/ CopyHandler(t, n)
                 \/ CallHandler(t) \/ Settle(t) \/ Leave(t)
           \/ \E until \in Nat : until = 1000 * clock /\ ProcessUntil(until)
BY DEF Operated, Continue

-----------------------------------------------------------------------------
(* Where a thread is says whether it has a frame, receivers and one of     *)
(* them in hand.                                                           *)

LEMMA HeadIsEvent ==
    ASSUME Typed, NEW t \in Threads, Pop(t)
    PROVE  /\ Head(event_queue) \in Event /\ Head(event_queue).frame \in Frames
           /\ Head(event_queue).time \in Nat /\ Head(event_queue).time <= thread[t].until
           /\ event_queue # <<>>
<1>1. /\ event_queue \in Seq(Event) /\ event_queue # <<>>
      /\ Head(event_queue).time <= thread[t].until
  BY DEF Typed, QueueTyped, Pop, HasDue
<1>2. Head(event_queue) \in Event
  BY <1>1, PoppedMembers
<1> QED BY <1>1, <1>2 DEF Event

(* Every step keeps the threads' types and what they have in hand.         *)
LEMMA ThreadedStep ==
    ASSUME Typed, Threaded, Quiet \/ Operated
    PROVE  ThreadsTyped' /\ Threaded'
<1> USE DEF Threaded, Empty
<1>1. CASE Quiet
  BY <1>1 DEF Quiet, Typed, ThreadsTyped
<1>2. ASSUME NEW t \in Threads, NEW f \in Frames, Transmit(t, f)
      PROVE  ThreadsTyped' /\ Threaded'
  BY <1>2, TransmitThread, Parameters
<1>3. ASSUME NEW t \in Threads, Push(t) PROVE ThreadsTyped' /\ Threaded'
  BY <1>3, PushThread
<1>4. ASSUME NEW t \in Threads, Enter(t) PROVE ThreadsTyped' /\ Threaded'
  BY <1>4, EnterThread
<1>5. ASSUME NEW t \in Threads, Pop(t) PROVE ThreadsTyped' /\ Threaded'
  <2>1. Head(event_queue).frame # NoFrame
    BY <1>5, HeadIsEvent, Parameters
  <2>2. thread[t].at = "looping"
    BY <1>5 DEF Pop, Is
  <2> QED BY <1>5, <2>1, <2>2, PopThread
<1>6. ASSUME NEW t \in Threads, PopNothing(t) PROVE ThreadsTyped' /\ Threaded'
  <2>1. thread[t].at = "looping"
    BY <1>6 DEF PopNothing, Is
  <2> QED BY <1>6, <2>1, PopNothingThread
<1>7. ASSUME NEW t \in Threads, Execute(t) PROVE ThreadsTyped' /\ Threaded'
  <2>1. thread[t].at = "popped"
    BY <1>7 DEF Execute, Is
  <2> QED BY <1>7, <2>1, ExecuteThread
<1>8. ASSUME NEW t \in Threads, NEW n \in NodeIds, PassOver(t, n)
      PROVE  ThreadsTyped' /\ Threaded'
  <2>1. thread[t].at = "delivering"
    BY <1>8 DEF PassOver, Is
  <2> QED BY <1>8, <2>1, PassOverThread
<1>9. ASSUME NEW t \in Threads, NEW n \in NodeIds, CopyHandler(t, n)
      PROVE  ThreadsTyped' /\ Threaded'
  <2>1. thread[t].at = "delivering"
    BY <1>9 DEF CopyHandler, Is
  <2> QED BY <1>9, <2>1, CopyHandlerThread, Parameters
<1>10. ASSUME NEW t \in Threads, CallHandler(t) PROVE ThreadsTyped' /\ Threaded'
  <2>1. thread[t].at = "calling"
    BY <1>10 DEF CallHandler, Is
  <2> QED BY <1>10, <2>1, CallHandlerThread
<1>11. ASSUME NEW t \in Threads, Settle(t) PROVE ThreadsTyped' /\ Threaded'
  BY <1>11, SettleThread
<1>12. ASSUME NEW t \in Threads, Leave(t) PROVE ThreadsTyped' /\ Threaded'
  BY <1>12, LeaveThread
<1>13. ASSUME NEW d \in Nat, ProcessUntil(d) PROVE ThreadsTyped' /\ Threaded'
  BY <1>13, ProcessUntilThread DEF Threads
<1> QED
  BY <1>1, <1>2, <1>3, <1>4, <1>5, <1>6, <1>7, <1>8, <1>9, <1>10, <1>11, <1>12, <1>13, Operations

(* The other variables of the network, typed.                              *)
LEMMA NetworkTyped ==
    ASSUME Typed, Threaded, Quiet \/ Operated
    PROVE  /\ QueueTyped' /\ HistoriesTyped'
           /\ ~build => now_us' \in Nat
<1> USE DEF Typed, QueueTyped, HistoriesTyped, TimeTyped
<1>1. CASE Quiet
  BY <1>1 DEF Quiet
<1>2. ASSUME NEW t \in Threads, NEW f \in Frames, Transmit(t, f)
      PROVE  QueueTyped' /\ HistoriesTyped' /\ now_us' \in Nat
  BY <1>2, FS_AddElement DEF Transmit
<1>3. ASSUME NEW t \in Threads, Push(t)
      PROVE  QueueTyped' /\ HistoriesTyped' /\ now_us' \in Nat
  <2>1. PICK f \in Frames : f = thread[t].frame
    BY <1>3, ThreadFields DEF Threaded, Push, Is, Empty
  <2>2. PICK time \in Nat : time = thread[t].time
    BY ThreadFields
  <2>3. PICK e \in Event : e = [time |-> time, priority |-> 2, frame |-> f]
    BY DEF Event
  <2>4. event_queue' = Pushed(event_queue, e)
    BY <1>3, <2>1, <2>2, <2>3 DEF Push
  <2>5. QueueTyped'
    BY <2>4, PushedRearranges
  <2> QED BY <1>3, <2>5 DEF Push
<1>4. ASSUME NEW t \in Threads, Pop(t)
      PROVE  QueueTyped' /\ HistoriesTyped' /\ now_us' \in Nat
  BY <1>4, PoppedMembers DEF Pop, HasDue
<1>5. ASSUME NEW t \in Threads, Enter(t) \/ PopNothing(t) \/ Settle(t)
      PROVE  QueueTyped' /\ HistoriesTyped' /\ now_us' \in Nat
  BY <1>5 DEF Enter, PopNothing, Settle
<1>6. ASSUME NEW t \in Threads, Execute(t) \/ Leave(t)
      PROVE  QueueTyped' /\ HistoriesTyped' /\ now_us' \in Nat
  BY <1>6, ThreadFields DEF Execute, Leave
<1>7. ASSUME NEW t \in Threads, NEW n \in NodeIds, PassOver(t, n) \/ CopyHandler(t, n)
      PROVE  QueueTyped' /\ HistoriesTyped' /\ now_us' \in Nat
  BY <1>7 DEF PassOver, CopyHandler
<1>8. ASSUME NEW t \in Threads, CallHandler(t)
      PROVE  QueueTyped' /\ HistoriesTyped' /\ now_us' \in Nat
  <2>1. PICK f \in Frames, n \in NodeIds : f = thread[t].frame /\ n = thread[t].to
    BY <1>8, ThreadFields DEF Threaded, CallHandler, Is, Empty
  <2>2. PICK row : row = [handed[f] EXCEPT ![n] = @ + 1]
    OBVIOUS
  <2>3. row \in [NodeIds -> Nat]
    BY <2>2
  <2>4. handed' = [handed EXCEPT ![f] = row]
    BY <1>8, <2>1, <2>2, Zenon DEF CallHandler
  <2>5. HistoriesTyped'
    BY <1>8, <2>3, <2>4 DEF CallHandler
  <2> QED BY <1>8, <2>5 DEF CallHandler
<1>9. ASSUME NEW d \in Nat, ProcessUntil(d)
      PROVE  QueueTyped' /\ HistoriesTyped' /\ now_us' \in Nat
  BY <1>9 DEF ProcessUntil
<1> QED
  BY <1>1, <1>2, <1>3, <1>4, <1>5, <1>6, <1>7, <1>8, <1>9, Operations

-----------------------------------------------------------------------------
(* A frame is in the queue once, or with one thread, or neither.           *)

(* The queue as the set of its events.                                     *)
LEMMA QueuedMembers ==
    ASSUME QueueTyped
    PROVE  /\ DOMAIN event_queue = 1 .. Len(event_queue) /\ Len(event_queue) \in Nat
           /\ Queued = {e.frame : e \in Members(event_queue)}
           /\ \A e \in Members(event_queue) : e \in Event
<1>1. DOMAIN event_queue = 1 .. Len(event_queue) /\ Len(event_queue) \in Nat
      /\ \A i \in 1 .. Len(event_queue) : event_queue[i] \in Event
  BY DEF QueueTyped
<1>2. Queued = {e.frame : e \in Members(event_queue)}
  BY <1>1 DEF Queued, Members
<1> QED BY <1>1, <1>2 DEF Members

(* Pushing a frame that is not queued, or popping one, leaves one event a  *)
(* frame.                                                                  *)
LEMMA PushedSeparate ==
    ASSUME NEW queue \in Seq(Event), Separate(queue), NEW e \in Event,
           \A i \in 1 .. Len(queue) : queue[i].frame # e.frame
    PROVE  Separate(Pushed(queue, e))
<1>0. PICK p \in 0 .. Len(queue) :
         /\ Len(Pushed(queue, e)) = Len(queue) + 1
         /\ Pushed(queue, e) \in Seq(Event)
         /\ \A i \in 1 .. p : Pushed(queue, e)[i] = queue[i]
         /\ Pushed(queue, e)[p + 1] = e
         /\ \A i \in p + 1 .. Len(queue) : Pushed(queue, e)[i + 1] = queue[i]
         /\ p = Cardinality({i \in DOMAIN queue : ~Precedes(e, queue[i])})
  BY PushedBetween
<1>1. PICK after : after = Pushed(queue, e)
  OBVIOUS
<1>2. Len(queue) \in Nat /\ p \in 0 .. Len(queue)
  OBVIOUS
<1>3. ASSUME NEW i \in 1 .. Len(queue) + 1
      PROVE  \/ i = p + 1 /\ after[i] = e
             \/ \E j \in 1 .. Len(queue) :
                   after[i] = queue[j] /\ i = (IF j <= p THEN j ELSE j + 1)
  <2>1. CASE i <= p
    <3>1. i \in 1 .. p /\ i \in 1 .. Len(queue)
      BY <1>2, <2>1
    <3> QED BY <1>0, <1>1, <2>1, <3>1
  <2>2. CASE i = p + 1
    BY <1>0, <1>1, <2>2
  <2>3. CASE i > p + 1
    <3>1. PICK j \in p + 1 .. Len(queue) : i = j + 1
      <4>1. i - 1 \in p + 1 .. Len(queue) /\ i = (i - 1) + 1
        BY <1>2, <2>3
      <4> QED BY <4>1
    <3>2. j \in 1 .. Len(queue) /\ ~(j <= p)
      BY <1>2
    <3> QED BY <1>0, <1>1, <3>1, <3>2
  <2> QED BY <1>2, <2>1, <2>2, <2>3
<1>4. ASSUME NEW i \in 1 .. Len(queue) + 1, NEW k \in 1 .. Len(queue) + 1, i # k
      PROVE  after[i].frame # after[k].frame
  BY <1>2, <1>3, <1>4 DEF Separate
<1> QED BY <1>0, <1>1, <1>4 DEF Separate

LEMMA PopSeparate ==
    ASSUME NEW queue \in Seq(Event), queue # <<>>, Separate(queue)
    PROVE  /\ Separate(Tail(queue))
           /\ \A e \in Members(Tail(queue)) : e.frame # Head(queue).frame
<1>1. /\ Len(queue) \in Nat \ {0} /\ Len(Tail(queue)) = Len(queue) - 1
      /\ Head(queue) = queue[1]
      /\ \A i \in 1 .. Len(Tail(queue)) : Tail(queue)[i] = queue[i + 1]
  BY PoppedMembers
<1>2. \A i \in 1 .. Len(Tail(queue)) : i + 1 \in 1 .. Len(queue) /\ i + 1 # 1
  BY <1>1
<1>3. 1 \in 1 .. Len(queue)
  BY <1>1
<1>4. \A e \in Members(Tail(queue)) : e.frame # Head(queue).frame
  BY <1>1, <1>2, <1>3 DEF Members, Separate
<1>5. ASSUME NEW i \in 1 .. Len(Tail(queue)), NEW k \in 1 .. Len(Tail(queue)), i # k
      PROVE  Tail(queue)[i].frame # Tail(queue)[k].frame
  <2>1. PICK j \in 1 .. Len(queue) : j = i + 1
    BY <1>2
  <2>2. PICK m \in 1 .. Len(queue) : m = k + 1
    BY <1>2
  <2>3. j # m
    BY <1>5, <2>1, <2>2, <1>1
  <2> QED BY <1>1, <2>1, <2>2, <2>3 DEF Separate
<1> QED BY <1>4, <1>5 DEF Separate

(* A step that only lets threads drop their frames leaves them apart.      *)
LEMMA WhereaboutsKept ==
    ASSUME Whereabouts, event_queue' = event_queue, called' = called,
           \A s \in Threads : thread'[s].frame = thread[s].frame \/ thread'[s].frame = NoFrame
    PROVE  Whereabouts'
BY DEF Whereabouts, Queued, Separate

(* What push and pop do to the frames that are queued.                     *)
LEMMA PushQueued ==
    ASSUME Typed, Threaded, NEW t \in Threads, Push(t)
    PROVE  /\ thread[t].frame \in Frames
           /\ Queued' = Queued \cup {thread[t].frame}
           /\ Separate(event_queue) /\ thread[t].frame \notin Queued => Separate(event_queue)'
           /\ \A e \in Members(event_queue)' :
                 e \in Members(event_queue) \/ e.time = thread[t].time
<1>1. PICK f \in Frames : f = thread[t].frame
  BY ThreadFields DEF Threaded, Push, Is, Empty, Typed
<1>2. PICK time \in Nat : time = thread[t].time
  BY ThreadFields DEF Typed
<1>3. PICK e \in Event : e = [time |-> time, priority |-> 2, frame |-> f]
  BY DEF Event
<1>4. event_queue' = Pushed(event_queue, e)
  BY <1>1, <1>2, <1>3 DEF Push
<1>5. QueueTyped /\ QueueTyped'
  BY NetworkTyped DEF Typed, Operated, Continue
<1>6. Members(event_queue)' = Members(event_queue) \cup {e}
  BY <1>4, <1>5, PushedMembers DEF QueueTyped
<1>7. e.frame = f /\ e.time = time
  BY <1>3
<1>8. Queued' = {d.frame : d \in Members(event_queue)'}
  <2>1. DOMAIN event_queue' = 1 .. Len(event_queue')
    BY <1>5 DEF QueueTyped
  <2> QED BY <2>1 DEF Queued, Members
<1>9. Queued' = Queued \cup {f}
  BY <1>5, <1>6, <1>7, <1>8, QueuedMembers
<1>10. ASSUME Separate(event_queue), f \notin Queued PROVE Separate(event_queue)'
  <2>1. \A i \in 1 .. Len(event_queue) : event_queue[i].frame # e.frame
    BY <1>5, <1>7, <1>10, QueuedMembers DEF Queued
  <2>2. Separate(Pushed(event_queue, e))
    BY <1>5, <1>10, <2>1, PushedSeparate DEF QueueTyped
  <2> QED BY <1>4, <2>2 DEF Separate
<1> QED BY <1>1, <1>2, <1>6, <1>7, <1>9, <1>10

LEMMA PopQueued ==
    ASSUME Typed, Threaded, NEW t \in Threads, Pop(t)
    PROVE  /\ Head(event_queue).frame \in Queued
           /\ Queued = Queued' \cup {Head(event_queue).frame}
           /\ Separate(event_queue) => /\ Separate(event_queue)'
                                       /\ Head(event_queue).frame \notin Queued'
           /\ \A e \in Members(event_queue)' : e \in Members(event_queue)
<1>1. event_queue \in Seq(Event) /\ event_queue # <<>> /\ event_queue' = Tail(event_queue)
  BY HeadIsEvent DEF Typed, QueueTyped, Pop
<1>2. QueueTyped /\ QueueTyped'
  BY NetworkTyped DEF Typed, Operated, Continue
<1>3. Members(event_queue) = {Head(event_queue)} \cup Members(event_queue)'
  BY <1>1, PoppedMembers
<1>4. Queued' = {d.frame : d \in Members(event_queue)'}
  <2>1. DOMAIN event_queue' = 1 .. Len(event_queue')
    BY <1>2 DEF QueueTyped
  <2> QED BY <2>1 DEF Queued, Members
<1>5. Queued = Queued' \cup {Head(event_queue).frame}
  BY <1>2, <1>3, <1>4, QueuedMembers
<1>6. ASSUME Separate(event_queue)
      PROVE  Separate(event_queue)' /\ Head(event_queue).frame \notin Queued'
  <2>1. /\ Separate(Tail(event_queue))
        /\ \A e \in Members(Tail(event_queue)) : e.frame # Head(event_queue).frame
    BY <1>1, <1>6, PopSeparate
  <2>2. Separate(event_queue)'
    BY <1>1, <2>1 DEF Separate
  <2>3. Members(event_queue)' = Members(Tail(event_queue))
    BY <1>1
  <2> QED BY <1>4, <2>1, <2>2, <2>3
<1> QED BY <1>3, <1>5, <1>6

(* The operations that leave the queue and the calls alone.                *)
Inside(t) ==
    \/ Enter(t) \/ PopNothing(t) \/ Execute(t)
    \/ \E n \in NodeIds : PassOver(t, n) \/ CopyHandler(t, n)
    \/ CallHandler(t) \/ Settle(t) \/ Leave(t)

LEMMA InsideKeeps ==
    ASSUME Typed, Threaded, NEW t \in Threads, Inside(t)
    PROVE  /\ event_queue' = event_queue /\ called' = called
           /\ \A s \in Threads : thread'[s].frame = thread[s].frame \/ thread'[s].frame = NoFrame
<1>1. ASSUME NEW n \in NodeIds, PassOver(t, n)
      PROVE  /\ event_queue' = event_queue /\ called' = called
             /\ \A s \in Threads : thread'[s].frame = thread[s].frame
  <2>1. event_queue' = event_queue /\ called' = called
    BY <1>1 DEF PassOver
  <2> QED BY <1>1, <2>1, PassOverThread
<1>2. ASSUME NEW n \in NodeIds, CopyHandler(t, n)
      PROVE  /\ event_queue' = event_queue /\ called' = called
             /\ \A s \in Threads : thread'[s].frame = thread[s].frame
  <2>1. event_queue' = event_queue /\ called' = called
    BY <1>2 DEF CopyHandler
  <2> QED BY <1>2, <2>1, CopyHandlerThread
<1>3. CASE Enter(t) \/ PopNothing(t) \/ Execute(t) \/ CallHandler(t) \/ Settle(t) \/ Leave(t)
  <2>1. event_queue' = event_queue /\ called' = called
    BY <1>3 DEF Enter, PopNothing, Execute, CallHandler, Settle, Leave
  <2> QED
    BY <1>3, <2>1, EnterThread, PopNothingThread, ExecuteThread, CallHandlerThread,
       SettleThread, LeaveThread
<1> QED BY <1>1, <1>2, <1>3 DEF Inside

(* Every step leaves each frame in one place.                              *)
LEMMA WhereaboutsStep ==
    ASSUME Typed, Threaded, Whereabouts, Quiet \/ Operated
    PROVE  Whereabouts'
<1>1. CASE Quiet
  BY <1>1, WhereaboutsKept DEF Quiet
<1>2. ASSUME NEW t \in Threads, NEW f \in Frames, Transmit(t, f) PROVE Whereabouts'
  <2>1. /\ event_queue' = event_queue /\ called' = called \cup {f} /\ f \notin called
        /\ Queued' = Queued /\ Separate(event_queue)' = Separate(event_queue)
    BY <1>2 DEF Transmit, Queued, Separate
  <2>2. f # NoFrame
    BY Parameters
  <2> QED BY <1>2, <2>1, <2>2, TransmitThread DEF Whereabouts
<1>3. ASSUME NEW t \in Threads, Push(t) PROVE Whereabouts'
  <2>1. called' = called /\ thread[t].frame # NoFrame
    BY <1>3, PushQueued, Parameters DEF Push
  <2>2. Separate(event_queue)' /\ Queued' = Queued \cup {thread[t].frame}
    BY <1>3, <2>1, PushQueued DEF Whereabouts
  <2> QED BY <1>3, <2>1, <2>2, PushThread DEF Whereabouts
<1>4. ASSUME NEW t \in Threads, Pop(t) PROVE Whereabouts'
  <2>1. called' = called
    BY <1>4 DEF Pop
  <2>2. /\ Separate(event_queue)' /\ Queued = Queued' \cup {Head(event_queue).frame}
        /\ Head(event_queue).frame \notin Queued'
    BY <1>4, PopQueued DEF Whereabouts
  <2> QED BY <1>4, <2>1, <2>2, PopThread DEF Whereabouts
<1>5. ASSUME NEW t \in Threads, Inside(t) PROVE Whereabouts'
  BY <1>5, InsideKeeps, WhereaboutsKept
<1>6. ASSUME NEW d \in Nat, ProcessUntil(d) PROVE Whereabouts'
  <2>1. event_queue' = event_queue /\ called' = called
    BY <1>6 DEF ProcessUntil
  <2> QED BY <1>6, <2>1, ProcessUntilThread, WhereaboutsKept
<1> QED BY <1>1, <1>2, <1>3, <1>4, <1>5, <1>6, Operations DEF Inside

-----------------------------------------------------------------------------
(* No node is handed a frame a second time.                                *)

(* A thread that is not serving receivers holds none.                      *)
LEMMA NotServing ==
    ASSUME Threaded, NEW t \in Threads, thread[t].at \notin {"delivering", "calling"}
    PROVE  Held(t) = {} /\ thread[t].to = Driver /\ thread[t].left = {}
BY DEF Threaded, Held

(* What one thread does leaves the others' receivers unserved.             *)
LEMMA OthersUnserved ==
    ASSUME Unserved, handed' = handed, NEW t \in Threads, UnservedBy(t)',
           \A s \in Threads : s # t => thread'[s] = thread[s],
           \A f \in Frames : f \notin called' \/ f \in Queued' =>
              \A n \in NodeIds : handed[f][n] = 0
    PROVE  Unserved'
BY DEF Unserved, UnservedBy, Held, HandedOnce

(* The receivers a thread has in hand, while it serves them.               *)
LEMMA HeldAre ==
    ASSUME Typed, Threaded, NEW t \in Threads
    PROVE  /\ Held(t) \subseteq NodeIds /\ Driver \notin Held(t)
           /\ thread[t].at = "delivering" => Held(t) = thread[t].left
           /\ thread[t].at = "calling" => Held(t) = thread[t].left \cup {thread[t].to}
                                         /\ thread[t].to \in NodeIds
BY ThreadFields, Parameters DEF Held, Threaded, Typed

(* The heart of it: a handler is called by the thread that has the         *)
(* receiver in hand, and the frame is with no other thread and not in the  *)
(* queue.                                                                  *)
LEMMA UnservedStep ==
    ASSUME Typed, Threaded, Whereabouts, Unserved, Quiet \/ Operated
    PROVE  Unserved'
<1>t. ThreadsTyped' /\ Threaded'
  BY ThreadedStep
<1>q. ASSUME event_queue' = event_queue, called' = called
      PROVE  \A f \in Frames : f \notin called' \/ f \in Queued' =>
                \A n \in NodeIds : handed[f][n] = 0
  BY <1>q DEF Unserved, Queued
<1>1. CASE Quiet
  BY <1>1 DEF Quiet, Unserved, UnservedBy, Held, HandedOnce, Queued
<1>2. ASSUME NEW t \in Threads, NEW f \in Frames, Transmit(t, f) PROVE Unserved'
  <2>1. handed' = handed /\ event_queue' = event_queue /\ f \notin called /\ called' = called \cup {f}
    BY <1>2 DEF Transmit
  <2>2. \A g \in Frames : g \notin called' \/ g \in Queued' =>
           \A n \in NodeIds : handed[g][n] = 0
    BY <2>1 DEF Unserved, Queued
  <2>3. UnservedBy(t)'
    BY <1>2, <2>1, TransmitThread DEF UnservedBy, Held, Unserved
  <2> QED BY <1>2, <2>1, <2>2, <2>3, OthersUnserved, TransmitThread
<1>3. ASSUME NEW t \in Threads, Push(t) PROVE Unserved'
  <2>1. handed' = handed /\ called' = called /\ thread[t].at = "stamped"
    BY <1>3 DEF Push, Is
  <2>2. Queued' = Queued \cup {thread[t].frame}
    BY <1>3, PushQueued
  <2>3. \A g \in Frames : g \notin called' \/ g \in Queued' =>
           \A n \in NodeIds : handed[g][n] = 0
    BY <2>1, <2>2 DEF Unserved, UnservedBy
  <2>4. UnservedBy(t)'
    BY <1>3, PushThread DEF UnservedBy, Held
  <2> QED BY <1>3, <2>1, <2>3, <2>4, OthersUnserved, PushThread
<1>4. ASSUME NEW t \in Threads, Pop(t) PROVE Unserved'
  <2>1. handed' = handed /\ called' = called /\ thread[t].at = "looping"
    BY <1>4 DEF Pop, Is
  <2>2. /\ Queued = Queued' \cup {Head(event_queue).frame}
        /\ Head(event_queue).frame \in Queued /\ Head(event_queue).frame \in Frames
    BY <1>4, PopQueued, HeadIsEvent
  <2>3. \A g \in Frames : g \notin called' \/ g \in Queued' =>
           \A n \in NodeIds : handed[g][n] = 0
    BY <2>1, <2>2 DEF Unserved
  <2>4. thread[t].left = {} /\ thread[t].to = Driver
    BY <2>1, NotServing
  <2>5. UnservedBy(t)'
    BY <1>4, <2>1, <2>2, <2>4, PopThread DEF UnservedBy, Held, Unserved
  <2> QED BY <1>4, <2>1, <2>3, <2>5, OthersUnserved, PopThread
<1>5. ASSUME NEW t \in Threads, Enter(t) PROVE Unserved'
  <2>1. handed' = handed /\ event_queue' = event_queue /\ called' = called
    BY <1>5 DEF Enter
  <2>2. UnservedBy(t)'
    BY <1>5, EnterThread DEF UnservedBy, Held
  <2> QED BY <1>5, <1>q, <2>1, <2>2, OthersUnserved, EnterThread
<1>6. ASSUME NEW t \in Threads, PopNothing(t) PROVE Unserved'
  <2>1. /\ handed' = handed /\ event_queue' = event_queue /\ called' = called
        /\ thread[t].at = "looping"
    BY <1>6 DEF PopNothing, Is
  <2>2. UnservedBy(t)'
    BY <1>6, <2>1, NotServing, PopNothingThread DEF UnservedBy, Held
  <2> QED BY <1>6, <1>q, <2>1, <2>2, OthersUnserved, PopNothingThread
<1>7. ASSUME NEW t \in Threads, Execute(t) PROVE Unserved'
  <2>1. /\ handed' = handed /\ event_queue' = event_queue /\ called' = called
        /\ thread[t].at = "popped"
    BY <1>7 DEF Execute, Is
  <2>2. thread[t].to = Driver /\ Ids \subseteq NodeIds
    BY <2>1, NotServing DEF Typed, NodesTyped
  <2>3. UnservedBy(t)'
    BY <1>7, <2>1, <2>2, Parameters, ExecuteThread DEF UnservedBy, Held, Unserved
  <2> QED BY <1>7, <1>q, <2>1, <2>3, OthersUnserved, ExecuteThread
<1>8. ASSUME NEW t \in Threads, NEW n \in NodeIds, PassOver(t, n) PROVE Unserved'
  <2>1. /\ handed' = handed /\ event_queue' = event_queue /\ called' = called
        /\ thread[t].at = "delivering"
    BY <1>8 DEF PassOver, Is
  <2>2. UnservedBy(t)'
    BY <1>8, <2>1, PassOverThread DEF UnservedBy, Held, Unserved
  <2> QED BY <1>8, <1>q, <2>1, <2>2, OthersUnserved, PassOverThread
<1>9. ASSUME NEW t \in Threads, NEW n \in NodeIds, CopyHandler(t, n) PROVE Unserved'
  <2>1. /\ handed' = handed /\ event_queue' = event_queue /\ called' = called
        /\ thread[t].at = "delivering" /\ n \in thread[t].left
    BY <1>9 DEF CopyHandler, Is
  <2>2. UnservedBy(t)'
    BY <1>9, <2>1, CopyHandlerThread DEF UnservedBy, Held, Unserved
  <2> QED BY <1>9, <1>q, <2>1, <2>2, OthersUnserved, CopyHandlerThread
<1>10. ASSUME NEW t \in Threads, CallHandler(t) PROVE Unserved'
  <2>1. /\ event_queue' = event_queue /\ called' = called /\ Queued' = Queued
        /\ thread[t].at = "calling"
    BY <1>10 DEF CallHandler, Is, Queued
  <2>2. PICK f \in Frames, n \in NodeIds : f = thread[t].frame /\ n = thread[t].to
    BY <2>1, ThreadFields, HeldAre DEF Threaded, Empty, Typed
  <2>3. PICK row : row = [handed[f] EXCEPT ![n] = @ + 1]
    OBVIOUS
  <2>4. handed \in [Frames -> [NodeIds -> Nat]]
    BY DEF Typed, HistoriesTyped
  <2>5. handed' = [handed EXCEPT ![f] = row]
    BY <1>10, <2>2, <2>3, Zenon DEF CallHandler
  <2>6. /\ n \in Held(t) /\ handed[f][n] = 0 /\ n # Source[f] /\ n \notin thread[t].left
    BY <2>1, <2>2, HeldAre DEF Unserved, UnservedBy
  <2>7. /\ \A g \in Frames : g # f => handed'[g] = handed[g]
        /\ handed'[f][n] = 1
        /\ \A m \in NodeIds : m # n => handed'[f][m] = handed[f][m]
    BY <2>3, <2>4, <2>5, <2>6
  <2>8. f # NoFrame /\ f \in called /\ f \notin Queued
        /\ \A s \in Threads : s # t => thread[s].frame # f
    BY <2>2, Parameters DEF Whereabouts
  <2>9. \A s \in Threads : s # t => thread'[s] = thread[s]
    BY <1>10, CallHandlerThread
  <2>10. HandedOnce'
    BY <2>6, <2>7 DEF Unserved, HandedOnce
  <2>11. \A g \in Frames : g \notin called' \/ g \in Queued' =>
            \A m \in NodeIds : handed'[g][m] = 0
    BY <2>1, <2>7, <2>8 DEF Unserved
  <2>12. UnservedBy(t)'
    <3>1. Held(t)' = thread[t].left /\ thread'[t].frame = f /\ thread'[t].at = "delivering"
          /\ thread'[t].to = Driver /\ thread'[t].left = thread[t].left
      BY <1>10, <2>2, CallHandlerThread DEF Held
    <3>2. thread[t].left \subseteq Held(t) /\ Held(t) \subseteq NodeIds /\ Driver \notin Held(t)
      BY HeldAre DEF Held
    <3>3. \A m \in thread[t].left : handed'[f][m] = 0 /\ m # Source[f]
      BY <2>2, <2>6, <2>7, <3>2 DEF Unserved, UnservedBy
    <3> QED BY <3>1, <3>2, <3>3 DEF UnservedBy
  <2>13. ASSUME NEW s \in Threads, s # t PROVE UnservedBy(s)'
    <3>1. Held(s)' = Held(s) /\ thread'[s] = thread[s] /\ Held(s) \subseteq NodeIds
      BY <2>9, <2>13, HeldAre DEF Held
    <3>2. CASE thread[s].frame \in Frames
      BY <2>7, <2>8, <2>13, <3>1, <3>2 DEF Unserved, UnservedBy
    <3>3. CASE thread[s].frame = NoFrame
      <4>1. thread[s].at \in Empty
        BY <3>3 DEF Threaded
      <4> QED BY <4>1, <3>1, NotServing DEF UnservedBy, Empty
    <3> QED BY <3>2, <3>3, ThreadFields DEF Typed
  <2> QED BY <2>10, <2>11, <2>12, <2>13 DEF Unserved
<1>11. ASSUME NEW t \in Threads, Settle(t) PROVE Unserved'
  <2>1. handed' = handed /\ event_queue' = event_queue /\ called' = called
    BY <1>11 DEF Settle
  <2>2. UnservedBy(t)'
    BY <1>11, SettleThread DEF UnservedBy, Held
  <2> QED BY <1>11, <1>q, <2>1, <2>2, OthersUnserved, SettleThread
<1>12. ASSUME NEW t \in Threads, Leave(t) PROVE Unserved'
  <2>1. handed' = handed /\ event_queue' = event_queue /\ called' = called
    BY <1>12 DEF Leave
  <2>2. UnservedBy(t)'
    BY <1>12, LeaveThread DEF UnservedBy, Held
  <2> QED BY <1>12, <1>q, <2>1, <2>2, OthersUnserved, LeaveThread
<1>13. ASSUME NEW d \in Nat, ProcessUntil(d) PROVE Unserved'
  <2>1. handed' = handed /\ event_queue' = event_queue /\ called' = called /\ Driver \in Threads
    BY <1>13 DEF ProcessUntil, Threads
  <2>2. UnservedBy(Driver)'
    BY <1>13, ProcessUntilThread DEF UnservedBy, Held
  <2>3. PICK t \in Threads : t = Driver
    BY <2>1
  <2> QED BY <1>13, <1>q, <2>1, <2>2, <2>3, OthersUnserved, ProcessUntilThread
<1> QED
  BY <1>1, <1>2, <1>3, <1>4, <1>5, <1>6, <1>7, <1>8, <1>9, <1>10, <1>11, <1>12, <1>13, Operations

-----------------------------------------------------------------------------
(* Attempts, outcomes and the frames that are under way.                   *)

Outstanding == InHand \cup Queued

(* The frames under way can be counted.                                    *)
LEMMA OutstandingIsFinite ==
    ASSUME Typed, Whereabouts
    PROVE  IsFiniteSet(Outstanding) /\ Cardinality(Outstanding) \in Nat
<1>1. Outstanding \subseteq called
  BY DEF Outstanding, InHand, Whereabouts
<1>2. IsFiniteSet(called)
  BY DEF Typed, HistoriesTyped
<1> QED BY <1>1, <1>2, FS_Subset, FS_CardinalityType

LEMMA SameFrames ==
    ASSUME event_queue' = event_queue, \A s \in Threads : thread'[s].frame = thread[s].frame
    PROVE  Outstanding' = Outstanding
BY DEF Outstanding, InHand, Queued

(* Only the call of transmit and the report of the outcome change what is  *)
(* under way.                                                              *)
LEMMA InsideSame ==
    ASSUME Typed, Threaded, NEW t \in Threads, Inside(t), ~Settle(t)
    PROVE  /\ event_queue' = event_queue /\ attempts' = attempts /\ outcomes' = outcomes
           /\ \A s \in Threads : thread'[s].frame = thread[s].frame
<1>1. event_queue' = event_queue
  BY InsideKeeps
<1>2. CASE Enter(t)
  <2>1. attempts' = attempts /\ outcomes' = outcomes /\ thread[t].at = "pushed"
    BY <1>2 DEF Enter, Is
  <2>2. thread[t].frame = NoFrame
    BY <2>1 DEF Threaded, Empty
  <2> QED BY <1>1, <1>2, <2>1, <2>2, EnterThread
<1>3. CASE Leave(t)
  <2>1. attempts' = attempts /\ outcomes' = outcomes /\ thread[t].at = "leaving"
    BY <1>3 DEF Leave, Is
  <2>2. thread[t].frame = NoFrame
    BY <2>1 DEF Threaded, Empty
  <2> QED BY <1>1, <1>3, <2>1, <2>2, LeaveThread
<1>4. CASE PopNothing(t) \/ Execute(t) \/ CallHandler(t)
  <2>1. attempts' = attempts /\ outcomes' = outcomes
    BY <1>4 DEF PopNothing, Execute, CallHandler
  <2> QED BY <1>1, <1>4, <2>1, PopNothingThread, ExecuteThread, CallHandlerThread
<1>5. ASSUME NEW n \in NodeIds, PassOver(t, n)
      PROVE  /\ attempts' = attempts /\ outcomes' = outcomes
             /\ \A s \in Threads : thread'[s].frame = thread[s].frame
  <2>1. attempts' = attempts /\ outcomes' = outcomes
    BY <1>5 DEF PassOver
  <2> QED BY <1>5, <2>1, PassOverThread
<1>6. ASSUME NEW n \in NodeIds, CopyHandler(t, n)
      PROVE  /\ attempts' = attempts /\ outcomes' = outcomes
             /\ \A s \in Threads : thread'[s].frame = thread[s].frame
  <2>1. attempts' = attempts /\ outcomes' = outcomes
    BY <1>6 DEF CopyHandler
  <2> QED BY <1>6, <2>1, CopyHandlerThread
<1> QED BY <1>1, <1>2, <1>3, <1>4, <1>5, <1>6 DEF Inside

(* transmit counts one attempt and brings one frame under way; the outcome *)
(* is counted as the frame leaves.                                         *)
LEMMA CountedStep ==
    ASSUME Typed, Threaded, Whereabouts, AttemptsCounted,
           Quiet \/ (Operated /\ carried' = carried)
    PROVE  AttemptsCounted'
<1> USE DEF AttemptsCounted
<1>a. /\ attempts \in Nat /\ outcomes \in Nat /\ carried \in Nat
      /\ attempts + carried = outcomes + Cardinality(Outstanding)
      /\ IsFiniteSet(Outstanding) /\ Cardinality(Outstanding) \in Nat
  BY OutstandingIsFinite DEF Typed, CountsTyped, Outstanding
<1>s. ASSUME Outstanding' = Outstanding, attempts' = attempts, outcomes' = outcomes,
             carried' = carried
      PROVE  AttemptsCounted'
  BY <1>s DEF Outstanding
<1>1. CASE Quiet
  <2>1. Outstanding' = Outstanding
    BY <1>1, SameFrames DEF Quiet
  <2>2. CASE UNCHANGED <<attempts, outcomes, carried>>
    BY <1>s, <2>1, <2>2
  <2>3. CASE resetMetrics
    <3>1. /\ attempts' = 0 /\ outcomes' = 0 /\ carried' = Cardinality(Outstanding)
      BY <2>3 DEF resetMetrics, Outstanding
    <3>2. 0 + Cardinality(Outstanding) = Cardinality(Outstanding)
      BY <1>a
    <3> QED BY <2>1, <3>1, <3>2 DEF Outstanding
  <2> QED BY <1>1, <2>2, <2>3 DEF Quiet
<1>2. ASSUME NEW t \in Threads, NEW f \in Frames, Transmit(t, f), carried' = carried
      PROVE  AttemptsCounted'
  <2>1. /\ event_queue' = event_queue /\ f \notin called /\ attempts' = attempts + 1
        /\ outcomes' = outcomes /\ thread[t].at = "out"
    BY <1>2 DEF Transmit, Is
  <2>2. f \notin Outstanding /\ f # NoFrame /\ thread[t].frame = NoFrame
    BY <2>1, Parameters DEF Whereabouts, Outstanding, InHand, Threaded, Empty
  <2>3. Queued' = Queued /\ InHand' = InHand \cup {f}
    <3>1. \A s \in Threads : thread'[s].frame = IF s = t THEN f ELSE thread[s].frame
      BY <1>2, TransmitThread
    <3> QED BY <2>1, <2>2, <3>1 DEF Queued, InHand
  <2>4. Outstanding' = Outstanding \cup {f}
    BY <2>3 DEF Outstanding
  <2>5. Cardinality(Outstanding') = Cardinality(Outstanding) + 1
    BY <1>a, <2>2, <2>4, FS_AddElement
  <2> QED BY <1>2, <1>a, <2>1, <2>5 DEF Outstanding
<1>3. ASSUME NEW t \in Threads, Push(t), carried' = carried PROVE AttemptsCounted'
  <2>1. /\ attempts' = attempts /\ outcomes' = outcomes
    BY <1>3 DEF Push
  <2>2. Queued' = Queued \cup {thread[t].frame} /\ thread[t].frame # NoFrame
    BY <1>3, PushQueued, Parameters
  <2>3. \A s \in Threads : thread'[s].frame = IF s = t THEN NoFrame ELSE thread[s].frame
    BY <1>3, PushThread
  <2>4. Outstanding' = Outstanding
    BY <2>2, <2>3 DEF Outstanding, InHand
  <2> QED BY <1>3, <1>s, <2>1, <2>4
<1>4. ASSUME NEW t \in Threads, Pop(t), carried' = carried PROVE AttemptsCounted'
  <2>1. /\ attempts' = attempts /\ outcomes' = outcomes /\ thread[t].at = "looping"
    BY <1>4 DEF Pop, Is
  <2>2. PICK f \in Frames : f = Head(event_queue).frame
    BY <1>4, HeadIsEvent
  <2>3. Queued = Queued' \cup {f} /\ f # NoFrame /\ thread[t].frame = NoFrame
    BY <1>4, <2>1, <2>2, PopQueued, Parameters DEF Threaded, Empty
  <2>4. \A s \in Threads : thread'[s].frame = IF s = t THEN f ELSE thread[s].frame
    BY <1>4, <2>2, PopThread
  <2>5. Outstanding' = Outstanding
    BY <2>3, <2>4 DEF Outstanding, InHand
  <2> QED BY <1>4, <1>s, <2>1, <2>5
<1>5. ASSUME NEW t \in Threads, Inside(t), ~Settle(t), carried' = carried PROVE AttemptsCounted'
  BY <1>5, <1>s, InsideSame, SameFrames
<1>6. ASSUME NEW t \in Threads, Settle(t), carried' = carried PROVE AttemptsCounted'
  <2>1. /\ event_queue' = event_queue /\ attempts' = attempts /\ outcomes' = outcomes + 1
        /\ thread[t].at = "delivering" /\ Queued' = Queued
    BY <1>6 DEF Settle, Is, Queued
  <2>2. PICK f \in Frames : f = thread[t].frame
    BY <2>1, ThreadFields DEF Typed, Threaded, Empty
  <2>3. /\ f # NoFrame /\ f \in Outstanding /\ f \notin Queued
        /\ \A s \in Threads : s # t => thread[s].frame # f
    BY <2>2, Parameters DEF Whereabouts, Outstanding, InHand
  <2>4. \A s \in Threads : thread'[s].frame = IF s = t THEN NoFrame ELSE thread[s].frame
    BY <1>6, SettleThread
  <2>5. Outstanding' = Outstanding \ {f}
    BY <2>1, <2>2, <2>3, <2>4 DEF Outstanding, InHand
  <2>6. Cardinality(Outstanding') = Cardinality(Outstanding) - 1
    BY <1>a, <2>3, <2>5, FS_RemoveElement
  <2> QED BY <1>6, <1>a, <2>1, <2>6 DEF Outstanding
<1>7. ASSUME NEW d \in Nat, ProcessUntil(d), carried' = carried PROVE AttemptsCounted'
  <2>1. /\ event_queue' = event_queue /\ attempts' = attempts /\ outcomes' = outcomes
        /\ thread[Driver].at = "out" /\ Driver \in Threads
    BY <1>7 DEF ProcessUntil, Is, Threads
  <2>2. thread[Driver].frame = NoFrame
    BY <2>1 DEF Threaded, Empty
  <2>3. \A s \in Threads : thread'[s].frame = thread[s].frame
    BY <1>7, <2>1, <2>2, ProcessUntilThread
  <2> QED BY <1>7, <1>s, <2>1, <2>3, SameFrames
<1> QED BY <1>1, <1>2, <1>3, <1>4, <1>5, <1>6, <1>7, Operations DEF Inside

-----------------------------------------------------------------------------
(* Types: the counters, the clock and the driver's loops.                  *)

(* The counters stay natural numbers, since a frame that settles was under *)
(* way.                                                                    *)
LEMMA CountsStep ==
    ASSUME Typed, Threaded, Whereabouts, Quiet \/ (Operated /\ carried' = carried)
    PROVE  CountsTyped'
<1> USE DEF CountsTyped
<1>0. attempts \in Nat /\ outcomes \in Nat /\ carried \in Nat /\ Cardinality(Outstanding) \in Nat
  BY OutstandingIsFinite DEF Typed
<1>1. CASE Quiet
  <2>1. CASE resetMetrics
    <3>1. attempts' = 0 /\ outcomes' = 0 /\ carried' = Cardinality(Outstanding)
      BY <2>1 DEF resetMetrics, Outstanding
    <3> QED BY <1>0, <3>1
  <2> QED BY <1>0, <1>1, <2>1 DEF Quiet
<1>2. ASSUME NEW t \in Threads, NEW f \in Frames, Transmit(t, f)
      PROVE  attempts' \in Nat /\ outcomes' \in Nat
  BY <1>0, <1>2 DEF Transmit
<1>3. ASSUME NEW t \in Threads, Push(t) \/ Pop(t) PROVE attempts' \in Nat /\ outcomes' \in Nat
  BY <1>0, <1>3 DEF Push, Pop
<1>4. ASSUME NEW t \in Threads, Settle(t) PROVE attempts' \in Nat /\ outcomes' \in Nat
  BY <1>0, <1>4 DEF Settle
<1>5. ASSUME NEW t \in Threads, Inside(t), ~Settle(t) PROVE attempts' \in Nat /\ outcomes' \in Nat
  BY <1>0, <1>5, InsideSame
<1>6. ASSUME NEW d \in Nat, ProcessUntil(d) PROVE attempts' \in Nat /\ outcomes' \in Nat
  BY <1>0, <1>6 DEF ProcessUntil
<1> QED BY <1>0, <1>1, <1>2, <1>3, <1>4, <1>5, <1>6, Operations DEF Inside

(* build, with the configuration it takes.                                 *)
Built(s, ids, device, plan) ==
    /\ 1000 * s <= MaxTime /\ clock' = 1000 * s /\ now_us' = 1000000 * s
    /\ nodes' = nodes \cup ids
    /\ \A id \in ids : Sorted(plan[id])
    /\ runtime' = [id \in ids |-> Steered(NodeRuntime(device[id], plan[id], s), s)]
    /\ leg' = [id \in ids |-> [since |-> 1000 * s, steps |-> 0]]
    /\ phase = "configuring" /\ phase' = "idle" /\ todo' = ids
    /\ UNCHANGED <<thread, event_queue, handler, attempts, outcomes, called, handed,
                   delta_ms, started, backlog, carried>>

(* Whichever way a sort breaks ties, its result is in order.               *)
LEMMA OrderedWaypoints ==
    ASSUME NEW w \in Seq(WaypointConfig), NEW o \in SortedOrders(w)
    PROVE  o \in Seq(WaypointConfig) /\ Sorted(o)
<1> DEFINE n == Len(w)
<1>1. PICK p \in [1 .. n -> 1 .. n] :
         /\ o = [k \in 1 .. n |-> w[p[k]]]
         /\ \A j, k \in 1 .. n : j < k => w[p[j]].at_s <= w[p[k]].at_s
  BY DEF SortedOrders
<1>2. n \in Nat /\ \A k \in 1 .. n : w[p[k]] \in WaypointConfig
  OBVIOUS
<1>3. o \in Seq(WaypointConfig) /\ Len(o) = n
  BY <1>1, <1>2
<1> QED BY <1>1, <1>2, <1>3 DEF Sorted

(* What build makes: a node a device, with its waypoints in order, steered *)
(* to the start.                                                           *)
LEMMA BuildEffect ==
    ASSUME Typed, build
    PROVE  \E s \in Nat : \E ids \in SUBSET NodeIds :
              \E device \in [ids -> DeviceConfig] :
                 \E plan \in [ids -> Seq(WaypointConfig)] : Built(s, ids, device, plan)
<1>1. PICK devices, s, device :
         /\ devices = config.devices
         /\ s = config.runtime.start_time_s
         /\ device = ById(devices)
  OBVIOUS
<1> DEFINE ids == DOMAIN device
<1>2. /\ phase = "configuring" /\ <<s, devices>> \in Runnable
      /\ clock' = 1000 * s /\ now_us' = 1000000 * s /\ nodes' = nodes \cup ids
      /\ leg' = [id \in ids |-> [since |-> 1000 * s, steps |-> 0]]
      /\ phase' = "idle" /\ todo' = ids
      /\ UNCHANGED <<thread, event_queue, handler, attempts, outcomes, called, handed,
                     delta_ms, started, backlog, carried>>
  BY <1>1 DEF build, Register
<1>3. PICK plan \in Plans(device) :
         runtime' = [id \in ids |-> Steered(NodeRuntime(device[id], plan[id], s), s)]
  BY <1>1 DEF build
<1>4. s \in Nat /\ 1000 * s <= MaxTime /\ devices \in Seq(DeviceConfig)
  BY <1>2, Parameters
<1>5. ASSUME NEW id \in ids
      PROVE  device[id] \in DeviceConfig /\ id \in NodeIds
  <2>1. PICK i \in DOMAIN devices : devices[i].node_id = id
    BY <1>1 DEF ById
  <2>2. PICK k \in DOMAIN devices : k = CHOOSE j \in DOMAIN devices : devices[j].node_id = id
    BY <2>1
  <2>3. devices[k] \in DeviceConfig /\ devices[i] \in DeviceConfig
    BY <1>4
  <2>4. device[id] = devices[k]
    BY <1>1, <2>2 DEF ById
  <2> QED BY <2>1, <2>3, <2>4 DEF DeviceConfig
<1>6. device \in [ids -> DeviceConfig] /\ ids \in SUBSET NodeIds
  BY <1>1, <1>5 DEF ById
<1>7. ASSUME NEW id \in ids PROVE plan[id] \in Seq(WaypointConfig) /\ Sorted(plan[id])
  <2>1. PICK w \in Seq(WaypointConfig) : w = device[id].waypoints
    BY <1>5 DEF DeviceConfig
  <2>2. PICK o \in SortedOrders(w) : o = plan[id]
    BY <1>3, <2>1 DEF Plans
  <2> QED BY <2>1, <2>2, OrderedWaypoints
<1>8. plan \in [ids -> Seq(WaypointConfig)]
  BY <1>3, <1>7 DEF Plans
<1>9. Built(s, ids, device, plan)
  BY <1>2, <1>3, <1>4, <1>7 DEF Built
<1> QED BY <1>4, <1>6, <1>8, <1>9

-----------------------------------------------------------------------------
(* What the scenario's steps do to the runtime of a node.                  *)

(* A manager changes, and nothing else of its node.                        *)
LEMMA ManagerUpdate ==
    ASSUME runtime \in [Ids -> Runtime], NEW n \in Ids, NEW x \in Managers,
           runtime' = [runtime EXCEPT ![n].manager = x]
    PROVE  /\ Ids' = Ids /\ runtime' \in [Ids -> Runtime]
           /\ runtime'[n].manager = x
           /\ runtime'[n].device = runtime[n].device
           /\ runtime'[n].waypoints = runtime[n].waypoints
           /\ runtime'[n].next_waypoint_idx = runtime[n].next_waypoint_idx
           /\ runtime'[n].location = runtime[n].location
           /\ \A m \in Ids : m # n => runtime'[m] = runtime[m]
<1>1. PICK r : r = [runtime[n] EXCEPT !.manager = x]
  OBVIOUS
<1>2. runtime[n] \in Runtime
  OBVIOUS
<1>3. r \in Runtime
  BY <1>1, <1>2, Zenon DEF Runtime
<1>4. /\ r.manager = x /\ r.device = runtime[n].device /\ r.waypoints = runtime[n].waypoints
      /\ r.next_waypoint_idx = runtime[n].next_waypoint_idx /\ r.location = runtime[n].location
  BY <1>1, <1>2, Zenon DEF Runtime
<1>5. runtime' = [runtime EXCEPT ![n] = r]
  BY <1>1, Zenon
<1>6. PICK I : I = Ids
  OBVIOUS
<1>7. runtime \in [I -> Runtime] /\ n \in I
  BY <1>6
<1>8. /\ DOMAIN runtime' = I /\ runtime' \in [I -> Runtime] /\ runtime'[n] = r
      /\ \A m \in I : m # n => runtime'[m] = runtime[m]
  BY <1>3, <1>5, <1>7
<1> QED BY <1>4, <1>6, <1>8 DEF Ids

(* llround is nearest, up to half a unit.                                  *)
LEMMA Rounding ==
    ASSUME NEW x \in Int, NEW u \in Nat \ {0}, NEW k, k = llround(x, u)
    PROVE  k \in Int /\ 2 * (x - u * k) \in -u .. u
<1>1. PICK y \in Int : y = 2 * x + u
  OBVIOUS
<1>2. PICK w \in Nat \ {0} : w = 2 * u
  OBVIOUS
<1>3. k = y \div w
  BY <1>1, <1>2 DEF llround
<1>4. k \in Int /\ w * k <= y /\ y < w * k + w
  BY <1>3
<1>5. PICK p \in Int : p = u * k
  BY <1>4
<1>6. w * k = 2 * p
  BY <1>2, <1>4, <1>5
<1> QED BY <1>1, <1>2, <1>4, <1>5, <1>6

(* What truncation leaves of a centimetre, along a heading of cosine c.    *)
Remainders == 0 .. 999
Cut(c, e) ==
    /\ (IF c < 0 THEN 999 * c ELSE 0) <= e
    /\ e <= (IF c > 0 THEN 999 * c ELSE 0)

LEMMA Truncation ==
    ASSUME NEW c \in Int, NEW r \in Remainders, NEW e \in Int, e = c * r
    PROVE  Cut(c, e)
<1>1. ASSUME c >= 0 PROVE 0 <= e /\ e <= 999 * c
  BY <1>1 DEF Remainders
<1>2. ASSUME c <= 0 PROVE 999 * c <= e /\ e <= 0
  BY <1>2 DEF Remainders
<1> QED BY <1>1, <1>2 DEF Cut

(* What is given of headings and of the unit of latitude.                  *)
LEMMA Coordinates ==
    /\ LatUnit \in Nat \ {0}
    /\ \A h \in Headings : Cosine[h] \in Int
<1>1. \A h \in Headings : Cosine[h] \in -Scale .. Scale
  BY LocationAssumption, Zenon DEF LocationAssumption
<1> QED BY <1>1, LocationAssumption DEF LocationAssumption

Whole(x) == x \div 1000
Rest(x) == x % 1000

(* One step's gap.                                                         *)
LEMMA OneStep ==
    ASSUME NEW c \in Int, NEW v \in Nat, NEW d \in Nat, NEW k,
           k = llround(c * Whole(v * d), LatUnit)
    PROVE  k \in Int /\ Short(c, Way(c, v, d), k, 1)
<1>1. PICK u \in Nat \ {0} : u = LatUnit
  BY Coordinates
<1>2. PICK q \in Nat : q = v * d
  OBVIOUS
<1>3. PICK w \in Nat : w = Whole(q)
  BY DEF Whole
<1>4. PICK x \in Int : x = c * w
  OBVIOUS
<1>5. k \in Int /\ 2 * (x - u * k) \in -u .. u
  <2>1. c * Whole(v * d) = x
    BY <1>2, <1>3, <1>4, Zenon
  <2>2. k = llround(x, u)
    BY <1>1, <2>1, Zenon
  <2> QED BY <2>2, Rounding
<1>6. PICK r \in Remainders : r \in Int /\ q = 1000 * w + r
  <2>1. q - 1000 * w \in Remainders
    BY <1>3 DEF Whole, Remainders
  <2>2. q = 1000 * w + (q - 1000 * w)
    OBVIOUS
  <2> QED BY <2>1, <2>2
<1>7. PICK e \in Int : e = c * r
  BY <1>6
<1>8. Cut(c, e)
  BY <1>7, Truncation, Zenon
<1>9. Way(c, v, d) = 1000 * x + e
  <2>1. Way(c, v, d) = c * q
    BY <1>2 DEF Way
  <2>2. c * q = 1000 * (c * w) + c * r
    BY <1>6
  <2> QED BY <1>4, <1>7, <2>1, <2>2
<1>10. PICK p \in Int : p = u * k
  BY <1>5
<1>11. North(k) = 1000 * p
  BY <1>1, <1>5, <1>10 DEF North
<1>12. PICK gap \in Int : gap = Way(c, v, d) - North(k)
  BY <1>9, <1>11
<1>13. gap = 500 * (2 * (x - p)) + e
  BY <1>9, <1>11, <1>12
<1>14. 2 * (x - p) \in -u .. u
  BY <1>5, <1>10
<1>15. Within(c, gap, 1)
  BY <1>1, <1>8, <1>13, <1>14 DEF Cut, Within, LeastGap, MostGap
<1> QED BY <1>5, <1>12, <1>15, Zenon DEF Short

(* advance, with what it computes named: the arithmetic stays folded where *)
(* only equality matters.                                                  *)
Advanced(a, d, b) ==
    /\ LocalMs(b) = LocalMs(a) + d
    /\ LET c == Cosine[a.heading_cdeg]
       IN  Short(c, Way(c, a.speed_cm_s, d), b.moved_lat - a.moved_lat, 1)
MovedOn(a, m, t, ms) == [a EXCEPT !.moved_lat = m, !.timestamp_s = t, !.subsecond_ms = ms]

LEMMA AdvanceMoves ==
    ASSUME NEW a, NEW d
    PROVE  advance(a, d) =
           MovedOn(a, a.moved_lat + LatUnits(a.heading_cdeg, Whole(a.speed_cm_s * d)),
                   a.timestamp_s + Whole(a.subsecond_ms + d),
                   Rest(a.subsecond_ms + d))
BY DEF advance, MovedOn, Whole, Rest

LEMMA MovedOnType ==
    ASSUME NEW a \in Location, NEW m \in Int, NEW t \in Nat, NEW ms \in Subseconds
    PROVE  MovedOn(a, m, t, ms) \in Location
BY Zenon DEF Location, MovedOn

LEMMA MovedOnFields ==
    ASSUME NEW a \in Location, NEW m \in Int, NEW t \in Nat, NEW ms \in Subseconds,
           NEW b, b = MovedOn(a, m, t, ms)
    PROVE  /\ b \in Location
           /\ b.moved_lat = m /\ b.timestamp_s = t /\ b.subsecond_ms = ms
           /\ b.lat = a.lat /\ b.lon = a.lon /\ b.speed_cm_s = a.speed_cm_s
           /\ b.heading_cdeg = a.heading_cdeg
<1>1. b \in Location
  BY MovedOnType
<1>2. b = [a EXCEPT !.moved_lat = m, !.timestamp_s = t, !.subsecond_ms = ms]
  BY DEF MovedOn
<1>3. b.moved_lat = m /\ b.timestamp_s = t /\ b.subsecond_ms = ms
  BY <1>2, Zenon DEF Location
<1>4. /\ b.lat = a.lat /\ b.lon = a.lon /\ b.speed_cm_s = a.speed_cm_s
      /\ b.heading_cdeg = a.heading_cdeg
  BY <1>2, Zenon DEF Location
<1> QED BY <1>1, <1>3, <1>4

(* advance: a node's own time grows by what the clock does, and it moves   *)
(* as far north as its speed takes it, but for one truncation and one      *)
(* rounding.                                                               *)
LEMMA AdvanceEffect ==
    ASSUME NEW a \in Location, NEW d \in Nat
    PROVE  /\ advance(a, d) \in Location /\ Advanced(a, d, advance(a, d))
           /\ advance(a, d).lat = a.lat /\ advance(a, d).lon = a.lon
           /\ advance(a, d).speed_cm_s = a.speed_cm_s
           /\ advance(a, d).heading_cdeg = a.heading_cdeg
<1>1. PICK v \in Nat : v = a.speed_cm_s
  BY DEF Location
<1>2. PICK moved \in Int : moved = a.moved_lat
  BY DEF Location
<1>3. PICK ts \in Nat : ts = a.timestamp_s
  BY DEF Location
<1>4. PICK sub \in 0 .. 999 : sub = a.subsecond_ms
  BY DEF Location, Subseconds
<1>h. PICK h \in Headings : h = a.heading_cdeg
  BY DEF Location
<1>c. PICK c \in Int : c = Cosine[h]
  BY Coordinates
<1>5. PICK k : k = llround(c * Whole(v * d), LatUnit)
  OBVIOUS
<1>6. k \in Int /\ Short(c, Way(c, v, d), k, 1)
  BY <1>5, OneStep
<1>u. LatUnits(h, Whole(v * d)) = k
  BY <1>c, <1>5, Zenon DEF LatUnits
<1>m. PICK m \in Int : m = moved + k /\ m - moved = k
  BY <1>6
<1>7. PICK t : t = ts + Whole(sub + d)
  OBVIOUS
<1>8. PICK ms : ms = Rest(sub + d)
  OBVIOUS
<1>10. t \in Nat /\ ms \in 0 .. 999 /\ 1000 * t + ms = (1000 * ts + sub) + d
  BY <1>7, <1>8 DEF Whole, Rest
<1>11. PICK b : b = advance(a, d)
  OBVIOUS
<1>12. b = MovedOn(a, m, t, ms)
  <2>1. b = MovedOn(a, a.moved_lat + LatUnits(a.heading_cdeg, Whole(a.speed_cm_s * d)),
                    a.timestamp_s + Whole(a.subsecond_ms + d), Rest(a.subsecond_ms + d))
    BY <1>11, AdvanceMoves, Zenon
  <2>2. b = MovedOn(a, moved + LatUnits(h, Whole(v * d)), ts + Whole(sub + d), Rest(sub + d))
    BY <1>1, <1>2, <1>3, <1>4, <1>h, <2>1, Zenon
  <2> QED BY <1>u, <1>m, <1>7, <1>8, <2>2, Zenon
<1>13. /\ b \in Location
       /\ b.moved_lat = m /\ b.timestamp_s = t /\ b.subsecond_ms = ms
       /\ b.lat = a.lat /\ b.lon = a.lon /\ b.speed_cm_s = a.speed_cm_s
       /\ b.heading_cdeg = a.heading_cdeg
  <2>1. t \in Nat /\ ms \in Subseconds
    BY <1>10 DEF Subseconds
  <2> QED BY <1>12, <2>1, MovedOnFields
<1>14. LocalMs(b) = LocalMs(a) + d
  BY <1>3, <1>4, <1>10, <1>13, SMTT(30) DEF LocalMs
<1>15. Short(c, Way(c, a.speed_cm_s, d), b.moved_lat - a.moved_lat, 1)
  BY <1>1, <1>2, <1>6, <1>m, <1>13, Zenon
<1>16. Advanced(a, d, b)
  BY <1>c, <1>h, <1>14, <1>15, Zenon DEF Advanced
<1> QED BY <1>11, <1>13, <1>16, Zenon

(* A set of numbers above k without a gap is the interval of its size.     *)
LEMMA WithoutGap ==
    ASSUME NEW k \in Nat, NEW n \in Nat, k <= n, NEW D, D \subseteq k + 1 .. n,
           \A i \in D : \A j \in k + 1 .. i : j \in D
    PROVE  /\ Cardinality(D) \in Nat /\ k + Cardinality(D) <= n
           /\ D = k + 1 .. k + Cardinality(D)
<1>1. IsFiniteSet(k + 1 .. n) /\ Cardinality(k + 1 .. n) = n - k
  <2>1. PICK a \in Int : a = k + 1
    OBVIOUS
  <2>2. IsFiniteSet(a .. n) /\ Cardinality(a .. n) = IF a > n THEN 0 ELSE n - a + 1
    BY FS_Interval
  <2> QED BY <2>1, <2>2
<1>2. PICK c \in Nat : c = Cardinality(D) /\ c <= n - k /\ IsFiniteSet(D)
  <2>1. IsFiniteSet(D) /\ Cardinality(D) <= n - k
    BY <1>1, FS_Subset, Zenon
  <2> QED BY <2>1, FS_CardinalityType
<1>3. ASSUME NEW i \in D PROVE i \in k + 1 .. k + c
  <2>1. i \in k + 1 .. n /\ k + 1 .. i \subseteq D
    OBVIOUS
  <2>2. Cardinality(k + 1 .. i) = i - k
    BY <2>1, FS_Interval
  <2>3. Cardinality(k + 1 .. i) <= c
    BY <1>2, <2>1, FS_Subset
  <2> QED BY <2>1, <2>2, <2>3
<1>4. IsFiniteSet(k + 1 .. k + c) /\ Cardinality(k + 1 .. k + c) = c
  BY FS_Interval
<1>5. D = k + 1 .. k + c
  BY <1>2, <1>3, <1>4, FS_Subset
<1> QED BY <1>2, <1>5

(* The waypoints that are due are the next ones.                           *)
LEMMA DueEffect ==
    ASSUME NEW node \in Runtime, NEW s \in Nat, NEW k \in Nat, NEW n \in Nat,
           k = node.next_waypoint_idx, n = Len(node.waypoints), k <= n
    PROVE  /\ Cardinality(Due(node, s)) \in Nat /\ k + Cardinality(Due(node, s)) <= n
           /\ Due(node, s) = k + 1 .. k + Cardinality(Due(node, s))
<1>1. PICK D : D = Due(node, s)
  OBVIOUS
<1>2. D = {i \in k + 1 .. n : \A j \in k + 1 .. i : node.waypoints[j].at_s <= s}
  BY <1>1 DEF Due
<1>3. D \subseteq k + 1 .. n
  BY <1>2
<1>4. ASSUME NEW i \in D, NEW j \in k + 1 .. i PROVE j \in D
  <2>1. i \in k + 1 .. n /\ \A m \in k + 1 .. i : node.waypoints[m].at_s <= s
    BY <1>2
  <2>2. j \in k + 1 .. n /\ \A m \in k + 1 .. j : m \in k + 1 .. i
    BY <2>1
  <2> QED BY <1>2, <2>1, <2>2
<1> QED BY <1>1, <1>3, <1>4, WithoutGap

(* What setKinematics and applyDueWaypoints leave in the node.             *)
LEMMA KinematicsFields ==
    ASSUME NEW lat \in Int, NEW lon \in Int, NEW v \in Nat, NEW h \in Headings, NEW ts \in Nat,
           NEW a, a = Kinematics(lat, lon, v, h, ts)
    PROVE  /\ a \in Location /\ a.lat = lat /\ a.lon = lon /\ a.speed_cm_s = v
           /\ a.heading_cdeg = h /\ a.moved_lat = 0 /\ LocalMs(a) = 1000 * ts
<1>1. 0 \in Subseconds
  BY DEF Subseconds
<1>2. a \in Location
  BY <1>1 DEF Kinematics, Location
<1>3. /\ a.lat = lat /\ a.lon = lon /\ a.speed_cm_s = v /\ a.heading_cdeg = h
      /\ a.moved_lat = 0 /\ a.timestamp_s = ts /\ a.subsecond_ms = 0
  BY DEF Kinematics
<1> QED BY <1>2, <1>3 DEF LocalMs

(* applyDueWaypoints on a node that has followed the waypoints before: it  *)
(* has followed those up to now.                                           *)
Ahead(node, s) ==
    \A i \in 1 .. node.next_waypoint_idx : node.waypoints[i].at_s <= s

LEMMA SteeredFields ==
    ASSUME NEW node \in Runtime, NEW s \in Nat, NEW next \in Nat, NEW w \in WaypointConfig,
           NEW r, Due(node, s) # {},
           next = node.next_waypoint_idx + Cardinality(Due(node, s)), w = node.waypoints[next],
           r = Steered(node, s)
    PROVE  /\ r \in Runtime
           /\ r.location = Kinematics(w.lat, w.lon, w.speed_cm_s, w.heading_cdeg, s)
           /\ r.next_waypoint_idx = next /\ r.waypoints = node.waypoints
           /\ r.device = node.device /\ r.manager = node.manager
<1>1. PICK a : a = Kinematics(w.lat, w.lon, w.speed_cm_s, w.heading_cdeg, s)
  OBVIOUS
<1>2. w.lat \in Int /\ w.lon \in Int /\ w.speed_cm_s \in Nat /\ w.heading_cdeg \in Headings
  BY DEF WaypointConfig
<1>3. a \in Location
  <2>1. PICK lat \in Int, lon \in Int : lat = w.lat /\ lon = w.lon
    BY <1>2
  <2>2. PICK v \in Nat, h \in Headings : v = w.speed_cm_s /\ h = w.heading_cdeg
    BY <1>2
  <2>3. a = Kinematics(lat, lon, v, h, s)
    BY <1>1, <2>1, <2>2
  <2>4. lat \in Int /\ lon \in Int /\ v \in Nat /\ h \in Headings /\ 0 \in Int /\ 0 \in Subseconds
    BY DEF Subseconds
  <2> QED BY <2>3, <2>4, Zenon DEF Kinematics, Location
<1>4. PICK p : p = [node EXCEPT !.location = a, !.next_waypoint_idx = next]
  OBVIOUS
<1>5. r = p
  BY <1>1, <1>4, Zenon DEF Steered
<1>6. [node EXCEPT !.location = a, !.next_waypoint_idx = next] \in Runtime
  BY <1>3, Zenon DEF Runtime
<1>7. /\ p.location = a /\ p.next_waypoint_idx = next /\ p.waypoints = node.waypoints
      /\ p.device = node.device /\ p.manager = node.manager
  BY <1>4, Zenon DEF Runtime
<1> QED BY <1>1, <1>4, <1>5, <1>6, <1>7, Zenon

(* A node that has followed its waypoints up to an earlier time, steered.  *)
LEMMA SteeredFollows ==
    ASSUME NEW node \in Runtime, NEW s \in Nat, NEW r, r = Steered(node, s),
           node.next_waypoint_idx <= Len(node.waypoints), Sorted(node.waypoints),
           Ahead(node, s), OnCourse(node)
    PROVE  /\ r \in Runtime /\ r.next_waypoint_idx <= Len(r.waypoints)
           /\ r.manager = node.manager /\ r.waypoints = node.waypoints
           /\ Follows(r, s)
           /\ Due(node, s) = {} => r.location = node.location
           /\ Due(node, s) # {} => /\ LocalMs(r.location) = 1000 * s
                                   /\ r.location.moved_lat = 0
<1>1. PICK k \in Nat, n \in Nat : k = node.next_waypoint_idx /\ n = Len(node.waypoints) /\ k <= n
  <2>1. node.next_waypoint_idx \in Nat /\ Len(node.waypoints) \in Nat
    BY DEF Runtime
  <2> QED BY <2>1
<1>c. /\ Cardinality(Due(node, s)) \in Nat /\ k + Cardinality(Due(node, s)) <= n
      /\ Due(node, s) = k + 1 .. k + Cardinality(Due(node, s))
  BY <1>1, DueEffect
<1>d. PICK c \in Nat : c = Cardinality(Due(node, s))
  BY <1>c
<1>2. k + c <= n /\ Due(node, s) = k + 1 .. k + c
  BY <1>c, <1>d
<1>3. node.waypoints \in Seq(WaypointConfig)
  BY DEF Runtime
<1>4. Past(node, s) = 1 .. k + c
  <2>1. ASSUME NEW i \in 1 .. k + c PROVE i \in Past(node, s)
    <3>1. i \in 1 .. n
      BY <1>2
    <3>2. CASE i <= k
      BY <1>1, <3>1, <3>2 DEF Ahead, Past
    <3>3. CASE i > k
      <4>1. i \in Due(node, s)
        BY <1>2, <3>3
      <4>2. i \in k + 1 .. i
        BY <3>3
      <4> QED BY <1>1, <3>1, <4>1, <4>2 DEF Due, Past
    <3> QED BY <3>2, <3>3
  <2>2. ASSUME NEW i \in Past(node, s) PROVE i \in 1 .. k + c
    <3>1. i \in 1 .. n /\ node.waypoints[i].at_s <= s
      BY <1>1 DEF Past
    <3>2. ASSUME i > k PROVE i \in Due(node, s)
      <4>1. ASSUME NEW j \in k + 1 .. i PROVE node.waypoints[j].at_s <= s
        <5>1. j \in 1 .. n /\ j <= i
          BY <3>1
        <5>2. node.waypoints[j] \in WaypointConfig /\ node.waypoints[i] \in WaypointConfig
          BY <1>1, <1>3, <3>1, <5>1
        <5>3. node.waypoints[j].at_s \in Nat /\ node.waypoints[i].at_s \in Nat
          BY <5>2 DEF WaypointConfig
        <5>4. node.waypoints[j].at_s <= node.waypoints[i].at_s
          BY <1>1, <3>1, <5>1, <5>3 DEF Sorted
        <5> QED BY <3>1, <5>3, <5>4
      <4> QED BY <1>1, <3>1, <3>2, <4>1 DEF Due
    <3> QED BY <1>2, <3>1, <3>2
  <2> QED BY <2>1, <2>2
<1>5. CASE Due(node, s) = {}
  <2>1. r = node
    BY <1>5 DEF Steered
  <2>2. c = 0
    <3>1. k + 1 \notin k + 1 .. k + c
      BY <1>2, <1>5
    <3> QED BY <3>1
  <2> QED BY <1>1, <1>4, <1>5, <2>1, <2>2 DEF Follows
<1>6. CASE Due(node, s) # {}
  <2>1. PICK next \in Nat : next = k + c /\ next \in 1 .. n /\ next # 0
    BY <1>2, <1>6
  <2>2. PICK w \in WaypointConfig : w = node.waypoints[next]
    BY <1>1, <1>3, <2>1
  <2>3. /\ r \in Runtime
        /\ r.location = Kinematics(w.lat, w.lon, w.speed_cm_s, w.heading_cdeg, s)
        /\ r.next_waypoint_idx = next /\ r.waypoints = node.waypoints
        /\ r.device = node.device /\ r.manager = node.manager
    <3>1. next = node.next_waypoint_idx + Cardinality(Due(node, s))
      BY <1>1, <1>d, <2>1
    <3>2. w = node.waypoints[next]
      BY <2>2
    <3> QED BY <1>6, <3>1, <3>2, SteeredFields
  <2>4. /\ r.location.lat = w.lat /\ r.location.lon = w.lon
        /\ r.location.speed_cm_s = w.speed_cm_s /\ r.location.heading_cdeg = w.heading_cdeg
        /\ r.location.moved_lat = 0 /\ LocalMs(r.location) = 1000 * s
    <3>1. PICK lat \in Int, lon \in Int : lat = w.lat /\ lon = w.lon
      BY DEF WaypointConfig
    <3>2. PICK v \in Nat, h \in Headings : v = w.speed_cm_s /\ h = w.heading_cdeg
      BY DEF WaypointConfig
    <3>3. PICK a : a = r.location
      OBVIOUS
    <3>4. a = Kinematics(lat, lon, v, h, s)
      BY <2>3, <3>1, <3>2, <3>3
    <3>5. /\ a.lat = lat /\ a.lon = lon /\ a.speed_cm_s = v /\ a.heading_cdeg = h
          /\ a.moved_lat = 0 /\ a.timestamp_s = s /\ a.subsecond_ms = 0
      BY <3>4 DEF Kinematics
    <3>6. LocalMs(a) = 1000 * s
      BY <3>5 DEF LocalMs
    <3> QED BY <3>1, <3>2, <3>3, <3>5, <3>6
  <2>5. Past(r, s) = 1 .. next
    BY <1>4, <2>1, <2>3 DEF Past
  <2> QED BY <1>1, <1>6, <2>1, <2>2, <2>3, <2>4, <2>5 DEF Follows, OnCourse
<1> QED BY <1>5, <1>6

-----------------------------------------------------------------------------
(* Types: what the scenario keeps.                                         *)

(* What the threads do leaves the scenario alone.                          *)
LEMMA OperatedKeeps ==
    ASSUME Operated
    PROVE  nodes' = nodes /\ handler' = handler
<1>1. ASSUME NEW t \in Threads, NEW f \in Frames, Transmit(t, f)
      PROVE  nodes' = nodes /\ handler' = handler
  BY <1>1 DEF Transmit
<1>2. ASSUME NEW t \in Threads, Push(t) \/ Enter(t) \/ Pop(t) \/ PopNothing(t) \/ Execute(t)
      PROVE  nodes' = nodes /\ handler' = handler
  BY <1>2 DEF Push, Enter, Pop, PopNothing, Execute
<1>3. ASSUME NEW t \in Threads, NEW n \in NodeIds, PassOver(t, n) \/ CopyHandler(t, n)
      PROVE  nodes' = nodes /\ handler' = handler
  BY <1>3 DEF PassOver, CopyHandler
<1>4. ASSUME NEW t \in Threads, CallHandler(t) \/ Settle(t) \/ Leave(t)
      PROVE  nodes' = nodes /\ handler' = handler
  BY <1>4 DEF CallHandler, Settle, Leave
<1>5. ASSUME NEW d \in Nat, ProcessUntil(d) PROVE nodes' = nodes /\ handler' = handler
  BY <1>5 DEF ProcessUntil
<1> QED BY <1>1, <1>2, <1>3, <1>4, <1>5, Operations

Threading == Operated /\ UNCHANGED <<scenario, phase>>

LEMMA ThreadingSteps ==
    ASSUME (\E f \in Frames : SendByDriver(f) \/ SendByManager(f)) \/ (\E t \in Threads : Work(t))
    PROVE  Threading
<1>1. ASSUME NEW f \in Frames, SendByDriver(f) PROVE Threading
  BY <1>1 DEF SendByDriver, Operated, Threads, Threading
<1>2. ASSUME NEW f \in Frames, SendByManager(f) PROVE Threading
  <2>1. Source[f] \in Threads
    BY Parameters DEF Threads
  <2> QED BY <1>2, <2>1 DEF SendByManager, Operated, Threading
<1>3. ASSUME NEW t \in Threads, Work(t) PROVE Threading
  BY <1>3 DEF Work, Operated, Threading
<1> QED BY <1>1, <1>2, <1>3

ScenarioTyped == ClockTyped /\ LoopsTyped /\ NodesTyped

(* The types of what the scenario keeps, for the steps that change little  *)
(* of it.                                                                  *)
LEMMA SameScenario ==
    ASSUME ScenarioTyped, UNCHANGED <<clock, delta_ms, started, todo, runtime, leg, phase, nodes>>
    PROVE  ScenarioTyped'
BY DEF ScenarioTyped, ClockTyped, LoopsTyped, NodesTyped, Ids

LEMMA SameNodes ==
    ASSUME NodesTyped, UNCHANGED <<runtime, leg, nodes>>,
           phase' \in {"configuring", "loading", "gone"} =>
              phase \in {"configuring", "loading", "gone"}
    PROVE  NodesTyped' /\ Ids' = Ids
BY DEF NodesTyped, Ids

LEMMA SameManagers ==
    ASSUME NodesTyped, UNCHANGED <<leg, nodes>>, NEW n \in Ids, NEW x \in Managers,
           runtime' = [runtime EXCEPT ![n].manager = x],
           phase' \notin {"configuring", "loading", "gone"}
    PROVE  NodesTyped' /\ Ids' = Ids
<1>1. runtime \in [Ids -> Runtime]
  BY DEF NodesTyped
<1>2. /\ Ids' = Ids /\ runtime' \in [Ids -> Runtime]
      /\ \A m \in Ids : /\ runtime'[m].next_waypoint_idx = runtime[m].next_waypoint_idx
                        /\ runtime'[m].waypoints = runtime[m].waypoints
  BY <1>1, ManagerUpdate
<1> QED BY <1>2 DEF NodesTyped

LEMMA LoopsStep ==
    ASSUME LoopsTyped, Ids' = Ids, started' \in BOOLEAN, phase' \in Phases, todo' \subseteq Ids,
           phase' \in {"idle", "draining", "arriving", "finishing", "destroying"} => todo' = Ids
    PROVE  LoopsTyped'
BY DEF LoopsTyped

LEMMA ReachEffect ==
    ASSUME LoopsTyped, NEW n, NEW p, NEW after, p \in Phases, after \in Phases, Reach(p, n, after)
    PROVE  /\ phase = p /\ n \in todo /\ n \in Ids /\ phase' \in {p, after}
           /\ todo' \subseteq Ids
           /\ todo = {n} => phase' = after /\ todo' = Ids
           /\ todo # {n} => phase' = p /\ todo' = todo \ {n}
BY DEF LoopsTyped, Reach

LEMMA SettingTyped ==
    ASSUME ScenarioTyped, Setting
    PROVE  ScenarioTyped'
BY DEF Setting, scenario, network, ScenarioTyped, ClockTyped, LoopsTyped, NodesTyped, Ids, Phases

(* A node as build leaves it follows its waypoints from the start.         *)
LEMMA BuiltNode ==
    ASSUME NEW d \in DeviceConfig, NEW plan \in Seq(WaypointConfig), Sorted(plan), NEW s \in Nat,
           NEW r, r = Steered(NodeRuntime(d, plan, s), s)
    PROVE  /\ r \in Runtime /\ r.manager = "new" /\ r.next_waypoint_idx <= Len(r.waypoints)
           /\ Follows(r, s) /\ LocalMs(r.location) = 1000 * s /\ r.location.moved_lat = 0
<1>1. PICK node : node = NodeRuntime(d, plan, s)
  OBVIOUS
<1>2. PICK a : a = Kinematics(d.lat, d.lon, d.speed_cm_s, d.heading_cdeg, s)
  OBVIOUS
<1>3. /\ a.lat = d.lat /\ a.lon = d.lon /\ a.speed_cm_s = d.speed_cm_s
      /\ a.heading_cdeg = d.heading_cdeg /\ a.moved_lat = 0 /\ a.timestamp_s = s /\ a.subsecond_ms = 0
  BY <1>2 DEF Kinematics
<1>4. a \in Location
  <2>1. PICK lat \in Int, lon \in Int : lat = d.lat /\ lon = d.lon
    BY DEF DeviceConfig
  <2>2. PICK v \in Nat, h \in Headings : v = d.speed_cm_s /\ h = d.heading_cdeg
    BY DEF DeviceConfig
  <2>3. a = Kinematics(lat, lon, v, h, s)
    BY <1>2, <2>1, <2>2
  <2> QED BY <2>3, KinematicsFields
<1>5. node = [device |-> d, waypoints |-> plan, next_waypoint_idx |-> 0,
              location |-> a, manager |-> "new"]
  BY <1>1, <1>2 DEF NodeRuntime
<1>6. /\ node \in Runtime /\ node.next_waypoint_idx = 0 /\ node.waypoints = plan
      /\ node.device = d /\ node.location = a /\ node.manager = "new"
  BY <1>4, <1>5 DEF Runtime, Managers
<1>7. node.next_waypoint_idx <= Len(node.waypoints) /\ Sorted(node.waypoints)
  BY <1>6
<1>8. Ahead(node, s)
  BY <1>6 DEF Ahead
<1>9. OnCourse(node)
  BY <1>3, <1>6 DEF OnCourse
<1>10. r = Steered(node, s)
  BY <1>1
<1>11. /\ r \in Runtime /\ r.next_waypoint_idx <= Len(r.waypoints)
       /\ r.manager = node.manager /\ Follows(r, s)
       /\ Due(node, s) = {} => r.location = node.location
       /\ Due(node, s) # {} => LocalMs(r.location) = 1000 * s /\ r.location.moved_lat = 0
  BY <1>6, <1>7, <1>8, <1>9, <1>10, SteeredFollows
<1>12. LocalMs(a) = 1000 * s
  BY <1>3 DEF LocalMs
<1> QED BY <1>3, <1>6, <1>11, <1>12

LEMMA BuiltTyped ==
    ASSUME ScenarioTyped, NEW s \in Nat, NEW ids \in SUBSET NodeIds,
           NEW device \in [ids -> DeviceConfig], NEW plan \in [ids -> Seq(WaypointConfig)],
           Built(s, ids, device, plan)
    PROVE  ScenarioTyped' /\ Ids' = ids
<1>1. Ids' = ids
  BY DEF Ids, Built
<1>2. ASSUME NEW id \in ids
      PROVE  runtime'[id] \in Runtime
             /\ runtime'[id].next_waypoint_idx <= Len(runtime'[id].waypoints)
  <2>1. PICK r : r = Steered(NodeRuntime(device[id], plan[id], s), s)
    OBVIOUS
  <2>2. runtime'[id] = r /\ Sorted(plan[id])
    BY <2>1 DEF Built
  <2> QED BY <2>1, <2>2, BuiltNode
<1>3. runtime' \in [ids -> Runtime]
  BY <1>2 DEF Built
<1>4. nodes' = ids
  BY DEF Built, ScenarioTyped, NodesTyped
<1>5. leg' \in [ids -> Leg] /\ DOMAIN leg' = ids
  BY DEF Built, Leg
<1>6. NodesTyped'
  BY <1>1, <1>2, <1>3, <1>4, <1>5 DEF NodesTyped, Built
<1>7. LoopsTyped' /\ ClockTyped'
  BY <1>1, Parameters DEF LoopsTyped, ClockTyped, Built, ScenarioTyped, Phases
<1> QED BY <1>1, <1>6, <1>7 DEF ScenarioTyped

(* The other steps, one by one.                                            *)
LEMMA NextSteps ==
    ASSUME [Next]_vars
    PROVE  \/ Setting \/ build \/ resetMetrics \/ UNCHANGED vars
           \/ (\E f \in Frames : SendByDriver(f) \/ SendByManager(f)) \/ (\E t \in Threads : Work(t))
           \/ BeginStart \/ BeginStop \/ BeginDestroy
           \/ \E n \in Ids : \/ StartManager(n) \/ TellManager(n) \/ JoinManager(n)
                             \/ DropHandler(n) \/ FreeManager(n) \/ FreeLink(n)
                             \/ AdvanceNode(n) \/ SteerNode(n)
           \/ (\E d \in Nat : BeginStep(d)) \/ TickClock \/ FinishStep \/ EndStep
<1>1. ASSUME NEW d \in Deltas, BeginStep(d) PROVE d \in Nat /\ BeginStep(d)
  BY <1>1, Parameters
<1> QED BY <1>1, ConfigureSteps DEF Next, Step, Halt, Gone

(* What a step over one node changes, node by node.                        *)
LEMMA NodeUpdate ==
    ASSUME runtime \in [Ids -> Runtime], NEW n \in Ids, NEW r \in Runtime,
           runtime' = [runtime EXCEPT ![n] = r]
    PROVE  /\ Ids' = Ids /\ runtime' \in [Ids -> Runtime] /\ runtime'[n] = r
           /\ \A m \in Ids : m # n => runtime'[m] = runtime[m]
<1>1. PICK I : I = Ids
  OBVIOUS
<1>2. runtime \in [I -> Runtime] /\ n \in I
  BY <1>1
<1>3. /\ DOMAIN runtime' = I /\ runtime' \in [I -> Runtime] /\ runtime'[n] = r
      /\ \A m \in I : m # n => runtime'[m] = runtime[m]
  BY <1>2
<1> QED BY <1>1, <1>3 DEF Ids

LEMMA LocationUpdate ==
    ASSUME NEW node \in Runtime, NEW x \in Location, NEW r, r = [node EXCEPT !.location = x]
    PROVE  /\ r \in Runtime /\ r.location = x
           /\ r.device = node.device /\ r.waypoints = node.waypoints
           /\ r.next_waypoint_idx = node.next_waypoint_idx /\ r.manager = node.manager
<1>1. r \in Runtime
  BY Zenon DEF Runtime
<1>2. /\ r.location = x
      /\ r.device = node.device /\ r.waypoints = node.waypoints
      /\ r.next_waypoint_idx = node.next_waypoint_idx /\ r.manager = node.manager
  BY Zenon DEF Runtime
<1> QED BY <1>1, <1>2

LEMMA LegUpdate ==
    ASSUME leg \in [DOMAIN leg -> Leg], NEW n \in DOMAIN leg, NEW l \in Leg,
           leg' = [leg EXCEPT ![n] = l]
    PROVE  /\ DOMAIN leg' = DOMAIN leg /\ leg' \in [DOMAIN leg' -> Leg] /\ leg'[n] = l
           /\ \A m \in DOMAIN leg : m # n => leg'[m] = leg[m]
OBVIOUS

(* A node is moved: its location and the steps it has moved so change.     *)
LEMMA AdvanceNodeEffect ==
    ASSUME ScenarioTyped, NEW n \in Ids, AdvanceNode(n)
    PROVE  /\ phase = "advancing" /\ n \in todo
           /\ Ids' = Ids /\ NodesTyped'
           /\ runtime'[n].location = advance(runtime[n].location, delta_ms)
           /\ runtime'[n].device = runtime[n].device
           /\ runtime'[n].waypoints = runtime[n].waypoints
           /\ runtime'[n].next_waypoint_idx = runtime[n].next_waypoint_idx
           /\ runtime'[n].manager = runtime[n].manager
           /\ leg'[n].since = leg[n].since /\ leg'[n].steps = leg[n].steps + 1
           /\ \A m \in Ids : m # n => runtime'[m] = runtime[m] /\ leg'[m] = leg[m]
           /\ UNCHANGED <<clock, delta_ms, nodes, handler, started>>
<1>1. /\ phase = "advancing" /\ phase' \in {"advancing", "steering"} /\ n \in todo
      /\ UNCHANGED <<clock, delta_ms, nodes, handler, started>>
  BY DEF AdvanceNode, Reach, network
<1>2. /\ runtime \in [Ids -> Runtime] /\ runtime[n] \in Runtime /\ delta_ms \in Nat
      /\ leg \in [DOMAIN leg -> Leg] /\ Ids \subseteq DOMAIN leg /\ nodes = Ids
      /\ \A m \in Ids : runtime[m].next_waypoint_idx <= Len(runtime[m].waypoints)
      /\ Ids \subseteq NodeIds
  BY DEF ScenarioTyped, ClockTyped, NodesTyped
<1>3. PICK x \in Location : x = advance(runtime[n].location, delta_ms)
  <2>1. runtime[n].location \in Location
    BY <1>2 DEF Runtime
  <2> QED BY <1>2, <2>1, AdvanceEffect, Zenon
<1>4. PICK r : r = [runtime[n] EXCEPT !.location = x]
  OBVIOUS
<1>5. /\ r \in Runtime /\ r.location = x
      /\ r.device = runtime[n].device /\ r.waypoints = runtime[n].waypoints
      /\ r.next_waypoint_idx = runtime[n].next_waypoint_idx /\ r.manager = runtime[n].manager
  BY <1>2, <1>3, <1>4, LocationUpdate
<1>6. runtime' = [runtime EXCEPT ![n] = r]
  <2>1. runtime' = [runtime EXCEPT ![n].location = advance(@, delta_ms)]
    BY DEF AdvanceNode
  <2> QED BY <1>2, <1>3, <1>4, <2>1
<1>7. /\ Ids' = Ids /\ runtime' \in [Ids -> Runtime] /\ runtime'[n] = r
      /\ \A m \in Ids : m # n => runtime'[m] = runtime[m]
  BY <1>2, <1>5, <1>6, NodeUpdate
<1>8. PICK since \in Nat, steps \in Nat : since = leg[n].since /\ steps = leg[n].steps
  BY <1>2 DEF Leg
<1>e. PICK more \in Nat : more = steps + 1
  OBVIOUS
<1>f. PICK l : l = [since |-> since, steps |-> more]
  OBVIOUS
<1>9. l \in Leg /\ l.since = since /\ l.steps = more
  BY <1>f DEF Leg
<1>10. leg' = [leg EXCEPT ![n] = l]
  <2>1. leg[n] \in Leg
    BY <1>2
  <2>2. PICK k : k = [leg[n] EXCEPT !.steps = more]
    OBVIOUS
  <2>3. k \in Leg /\ k.since = leg[n].since /\ k.steps = more
    BY <2>1, <2>2, Zenon DEF Leg
  <2>4. k = l
    BY <1>8, <1>9, <2>3 DEF Leg
  <2>5. leg[n].steps + 1 = more
    BY <1>e, <1>8
  <2>6. leg' = [leg EXCEPT ![n].steps = @ + 1]
    BY DEF AdvanceNode
  <2>7. leg' = [leg EXCEPT ![n].steps = more]
    BY <2>5, <2>6
  <2> QED BY <2>2, <2>4, <2>7
<1>11. /\ DOMAIN leg' = DOMAIN leg /\ leg' \in [DOMAIN leg' -> Leg] /\ leg'[n] = l
       /\ \A m \in DOMAIN leg : m # n => leg'[m] = leg[m]
  BY <1>2, <1>9, <1>10, LegUpdate
<1>12. \A m \in Ids : runtime'[m].next_waypoint_idx <= Len(runtime'[m].waypoints)
  BY <1>2, <1>5, <1>7
<1>13. NodesTyped'
  BY <1>1, <1>2, <1>7, <1>11, <1>12 DEF NodesTyped
<1> QED BY <1>1, <1>2, <1>3, <1>5, <1>7, <1>e, <1>8, <1>9, <1>11, <1>13

LEMMA LaterSeconds ==
    ASSUME NEW c \in Nat, NEW d \in Nat, d <= c
    PROVE  Seconds(c - d) \in Nat /\ Seconds(c) \in Nat /\ Seconds(c - d) <= Seconds(c)
BY DEF Seconds

(* A node comes to its waypoints: it moves by the last one that is due.    *)
LEMMA SteerNodeEffect ==
    ASSUME ScenarioTyped, Courses, NEW n \in Ids, SteerNode(n)
    PROVE  /\ phase = "steering" /\ n \in todo
           /\ Ids' = Ids /\ NodesTyped'
           /\ runtime'[n].manager = runtime[n].manager
           /\ Follows(runtime'[n], Seconds(clock))
           /\ \/ runtime'[n].location = runtime[n].location /\ leg' = leg
              \/ /\ LocalMs(runtime'[n].location) = 1000 * Seconds(clock)
                 /\ runtime'[n].location.moved_lat = 0
                 /\ leg'[n] = [since |-> clock, steps |-> 0]
           /\ \A m \in Ids : m # n => runtime'[m] = runtime[m] /\ leg'[m] = leg[m]
           /\ UNCHANGED <<clock, delta_ms, nodes, handler, started>>
<1>1. /\ phase = "steering" /\ phase' \in {"steering", "arriving"} /\ n \in todo
      /\ UNCHANGED <<clock, delta_ms, nodes, handler, started>>
  BY DEF SteerNode, Reach, network
<1>2. /\ runtime \in [Ids -> Runtime] /\ runtime[n] \in Runtime
      /\ delta_ms \in Nat /\ clock \in Nat /\ delta_ms <= clock
      /\ leg \in [DOMAIN leg -> Leg] /\ Ids \subseteq DOMAIN leg /\ nodes = Ids
      /\ \A m \in Ids : runtime[m].next_waypoint_idx <= Len(runtime[m].waypoints)
      /\ Ids \subseteq NodeIds
  BY <1>1 DEF ScenarioTyped, ClockTyped, NodesTyped
<1>3. PICK s0 \in Nat, s \in Nat :
         s0 = Seconds(clock - delta_ms) /\ s = Seconds(clock) /\ s0 <= s
  BY <1>2, LaterSeconds
<1>4. Follows(runtime[n], s0)
  BY <1>1, <1>3 DEF Courses, Steered_to
<1>5. Sorted(runtime[n].waypoints) /\ OnCourse(runtime[n])
  BY <1>4 DEF Follows
<1>6. Ahead(runtime[n], s)
  <2>1. ASSUME NEW i \in 1 .. runtime[n].next_waypoint_idx
        PROVE  runtime[n].waypoints[i].at_s <= s
    <3>1. i \in Past(runtime[n], s0)
      BY <1>4 DEF Follows
    <3>2. i \in 1 .. Len(runtime[n].waypoints) /\ runtime[n].waypoints[i].at_s <= s0
      BY <3>1 DEF Past
    <3>3. runtime[n].waypoints[i] \in WaypointConfig
      BY <1>2, <3>2 DEF Runtime
    <3>4. PICK at_s \in Nat : at_s = runtime[n].waypoints[i].at_s
      BY <3>3 DEF WaypointConfig
    <3> QED BY <1>3, <3>2, <3>4
  <2> QED BY <2>1 DEF Ahead
<1>7. PICK r : r = Steered(runtime[n], s)
  OBVIOUS
<1>8. /\ r \in Runtime /\ r.next_waypoint_idx <= Len(r.waypoints)
      /\ r.manager = runtime[n].manager /\ Follows(r, s)
      /\ Due(runtime[n], s) = {} => r.location = runtime[n].location
      /\ Due(runtime[n], s) # {} => LocalMs(r.location) = 1000 * s /\ r.location.moved_lat = 0
  BY <1>2, <1>5, <1>6, <1>7, SteeredFollows
<1>9. runtime' = [runtime EXCEPT ![n] = r]
  <2>1. runtime' = [runtime EXCEPT ![n] = Steered(@, s)]
    BY <1>3 DEF SteerNode
  <2> QED BY <1>2, <1>7, <2>1
<1>10. /\ Ids' = Ids /\ runtime' \in [Ids -> Runtime] /\ runtime'[n] = r
       /\ \A m \in Ids : m # n => runtime'[m] = runtime[m]
  BY <1>2, <1>8, <1>9, NodeUpdate, Zenon
<1>11. CASE Due(runtime[n], s) = {}
  <2>1. leg' = leg
    BY <1>3, <1>11 DEF SteerNode
  <2>2. NodesTyped'
    BY <1>1, <1>2, <1>8, <1>10, <2>1 DEF NodesTyped
  <2> QED BY <1>1, <1>3, <1>8, <1>10, <1>11, <2>1, <2>2
<1>12. CASE Due(runtime[n], s) # {}
  <2>1. PICK l \in Leg : l = [since |-> clock, steps |-> 0]
    BY <1>2 DEF Leg
  <2>2. leg' = [leg EXCEPT ![n] = l]
    BY <1>3, <1>12, <2>1 DEF SteerNode
  <2>3. /\ DOMAIN leg' = DOMAIN leg /\ leg' \in [DOMAIN leg' -> Leg] /\ leg'[n] = l
        /\ \A m \in DOMAIN leg : m # n => leg'[m] = leg[m]
    BY <1>2, <2>1, <2>2, LegUpdate
  <2>4. NodesTyped'
    BY <1>1, <1>2, <1>8, <1>10, <2>3 DEF NodesTyped
  <2> QED BY <1>1, <1>2, <1>3, <1>8, <1>10, <1>12, <2>1, <2>3, <2>4
<1> QED BY <1>11, <1>12

(* A node's link is gone: the scenario and the network forget it.          *)
LEMMA FreeLinkEffect ==
    ASSUME ScenarioTyped, NEW n \in Ids, FreeLink(n)
    PROVE  /\ phase = "destroying" /\ phase' \in {"destroying", "gone"}
           /\ runtime[n].manager = "freed"
           /\ Ids' = Ids \ {n} /\ \A m \in Ids' : runtime'[m] = runtime[m]
           /\ ScenarioTyped'
           /\ UNCHANGED <<clock, leg, delta_ms, handler, started>>
<1>1. /\ phase = "destroying" /\ n \in todo /\ todo' = todo \ {n}
      /\ runtime[n].manager = "freed" /\ nodes' = nodes \ {n}
      /\ phase' = (IF todo = {n} THEN "gone" ELSE phase)
      /\ runtime' = [m \in Ids \ {n} |-> runtime[m]]
      /\ UNCHANGED <<clock, leg, delta_ms, handler, started>>
  BY DEF FreeLink, Unregister
<1>2. /\ todo = Ids /\ runtime \in [Ids -> Runtime] /\ nodes = Ids /\ Ids \subseteq NodeIds
      /\ leg \in [DOMAIN leg -> Leg] /\ Ids \subseteq DOMAIN leg
      /\ \A m \in Ids : runtime[m].next_waypoint_idx <= Len(runtime[m].waypoints)
  BY <1>1 DEF ScenarioTyped, LoopsTyped, NodesTyped
<1>3. PICK I : I = Ids \ {n}
  OBVIOUS
<1>4. Ids' = I
  <2>1. DOMAIN runtime' = I
    BY <1>1, <1>3
  <2> QED BY <2>1 DEF Ids
<1>5. \A m \in I : runtime'[m] = runtime[m]
  BY <1>1, <1>3
<1>6. /\ runtime' \in [I -> Runtime]
      /\ \A m \in I : runtime'[m].next_waypoint_idx <= Len(runtime'[m].waypoints)
  BY <1>1, <1>2, <1>3, <1>5
<1>7. phase' = "gone" => I = {}
  BY <1>1, <1>2, <1>3
<1>8. NodesTyped'
  BY <1>1, <1>2, <1>3, <1>4, <1>6, <1>7 DEF NodesTyped
<1>9. ClockTyped' /\ LoopsTyped'
  <2>1. phase' \in {"destroying", "gone"} /\ todo' = I
    BY <1>1, <1>2, <1>3
  <2>2. ClockTyped'
    BY <1>1, <2>1 DEF ScenarioTyped, ClockTyped
  <2>3. LoopsTyped'
    BY <1>1, <1>4, <2>1 DEF ScenarioTyped, LoopsTyped, Phases
  <2> QED BY <2>2, <2>3
<1> QED BY <1>1, <1>3, <1>4, <1>5, <1>8, <1>9 DEF ScenarioTyped

(* What the other steps of the driver do to a manager.                     *)
LEMMA ManagerSteps ==
    ASSUME ScenarioTyped, NEW n \in Ids,
           \/ StartManager(n) \/ TellManager(n) \/ JoinManager(n)
           \/ DropHandler(n) \/ FreeManager(n)
    PROVE  /\ ScenarioTyped' /\ Ids' = Ids
           /\ phase \in {"starting", "stopping", "closing", "destroying"}
           /\ phase' \in {"idle", "starting", "stopping", "closing", "destroying"}
           /\ \A m \in Ids : /\ runtime'[m].device = runtime[m].device
                             /\ runtime'[m].waypoints = runtime[m].waypoints
                             /\ runtime'[m].next_waypoint_idx = runtime[m].next_waypoint_idx
                             /\ runtime'[m].location = runtime[m].location
           /\ UNCHANGED <<clock, leg, delta_ms>>
<1> DEFINE Result ==
      /\ ScenarioTyped' /\ Ids' = Ids
      /\ phase \in {"starting", "stopping", "closing", "destroying"}
      /\ phase' \in {"idle", "starting", "stopping", "closing", "destroying"}
      /\ \A m \in Ids : /\ runtime'[m].device = runtime[m].device
                        /\ runtime'[m].waypoints = runtime[m].waypoints
                        /\ runtime'[m].next_waypoint_idx = runtime[m].next_waypoint_idx
                        /\ runtime'[m].location = runtime[m].location
      /\ UNCHANGED <<clock, leg, delta_ms>>
<1>1. NodesTyped /\ LoopsTyped /\ ClockTyped /\ runtime \in [Ids -> Runtime]
  BY DEF ScenarioTyped, NodesTyped
<1>2. ASSUME NEW x \in Managers, runtime' = [runtime EXCEPT ![n].manager = x],
             UNCHANGED <<clock, leg, delta_ms, nodes>>, LoopsTyped', ClockTyped',
             phase \in {"starting", "stopping", "closing", "destroying"},
             phase' \in {"idle", "starting", "stopping", "closing", "destroying"}
      PROVE  Result
  <2>1. NodesTyped' /\ Ids' = Ids
    BY <1>1, <1>2, SameManagers
  <2>2. \A m \in Ids : /\ runtime'[m].device = runtime[m].device
                       /\ runtime'[m].waypoints = runtime[m].waypoints
                       /\ runtime'[m].next_waypoint_idx = runtime[m].next_waypoint_idx
                       /\ runtime'[m].location = runtime[m].location
    BY <1>1, <1>2, ManagerUpdate
  <2> QED BY <1>2, <2>1, <2>2 DEF ScenarioTyped
<1>3. ASSUME UNCHANGED <<clock, delta_ms>>,
             phase \in {"starting", "stopping", "closing", "destroying"},
             phase' \in {"idle", "starting", "stopping", "closing", "destroying"}
      PROVE  ClockTyped'
  BY <1>1, <1>3 DEF ClockTyped
<1>4. ASSUME NEW x \in Managers, runtime' = [runtime EXCEPT ![n].manager = x]
      PROVE  Ids' = Ids
  BY <1>1, <1>4, ManagerUpdate
<1>5. CASE StartManager(n)
  <2>1. /\ Reach("starting", n, "idle") /\ started' \in BOOLEAN
        /\ UNCHANGED <<clock, leg, delta_ms, nodes>>
    BY <1>5 DEF StartManager
  <2>2. /\ phase = "starting" /\ phase' \in {"starting", "idle"}
        /\ todo' \subseteq Ids /\ (phase' = "idle" => todo' = Ids)
    BY <1>1, <2>1, ReachEffect DEF Phases
  <2>3. ClockTyped'
    BY <1>3, <2>1, <2>2
  <2>4. CASE runtime[n].manager = "new"
    <3>1. runtime' = [runtime EXCEPT ![n].manager = "running"] /\ "running" \in Managers
      BY <1>5, <2>4 DEF StartManager, Managers
    <3>2. Ids' = Ids
      BY <1>4, <3>1
    <3>3. LoopsTyped'
      BY <1>1, <2>1, <2>2, <3>2, LoopsStep DEF Phases
    <3> QED BY <1>2, <2>1, <2>2, <2>3, <3>1, <3>3
  <2>5. CASE runtime[n].manager # "new"
    <3>1. runtime' = runtime
      BY <1>5, <2>5 DEF StartManager
    <3>2. NodesTyped' /\ Ids' = Ids
      BY <1>1, <2>1, <2>2, <3>1, SameNodes
    <3>3. LoopsTyped'
      BY <1>1, <2>1, <2>2, <3>2, LoopsStep DEF Phases
    <3> QED BY <2>1, <2>2, <2>3, <3>1, <3>2, <3>3 DEF ScenarioTyped
  <2> QED BY <2>4, <2>5
<1>6. CASE TellManager(n)
  <2>1. /\ phase \in {"stopping", "closing"} /\ phase' = phase
        /\ runtime' = [runtime EXCEPT ![n].manager = "stopping"] /\ "stopping" \in Managers
        /\ UNCHANGED <<clock, leg, delta_ms, nodes, todo, started>>
    BY <1>6 DEF TellManager, network, Managers
  <2>2. Ids' = Ids
    BY <1>4, <2>1
  <2>3. LoopsTyped' /\ ClockTyped'
    BY <1>1, <1>3, <2>1, <2>2 DEF LoopsTyped
  <2> QED BY <1>2, <2>1, <2>3
<1>7. CASE JoinManager(n)
  <2>1. PICK p, after : p = phase /\ after = AfterStop(p)
    OBVIOUS
  <2>2. /\ Reach(p, n, after) /\ p \in {"stopping", "closing"} /\ started' \in BOOLEAN
        /\ runtime' = [runtime EXCEPT ![n].manager = "stopped"] /\ "stopped" \in Managers
        /\ UNCHANGED <<clock, leg, delta_ms, nodes>>
    BY <1>7, <2>1 DEF JoinManager, network, Managers
  <2>3. p \in Phases /\ after \in Phases /\ after \in {"idle", "destroying"}
    BY <2>1, <2>2 DEF Phases, AfterStop
  <2>4. /\ phase' \in {p, after} /\ todo' \subseteq Ids /\ (todo' = Ids \/ phase' = p)
    BY <1>1, <2>2, <2>3, ReachEffect
  <2>5. Ids' = Ids
    BY <1>4, <2>2
  <2>6. LoopsTyped'
    BY <1>1, <2>2, <2>3, <2>4, <2>5, LoopsStep
  <2>7. /\ phase \in {"stopping", "closing"}
        /\ phase' \in {"idle", "stopping", "closing", "destroying"}
    BY <2>1, <2>2, <2>3, <2>4
  <2>8. ClockTyped'
    BY <1>3, <2>2, <2>7
  <2> QED BY <1>2, <2>2, <2>6, <2>7, <2>8
<1>8. CASE DropHandler(n)
  <2>1. /\ phase = "destroying" /\ phase' = phase
        /\ runtime' = [runtime EXCEPT ![n].manager = "ending"] /\ "ending" \in Managers
        /\ UNCHANGED <<clock, leg, delta_ms, nodes, todo, started>>
    BY <1>8 DEF DropHandler, Managers
  <2>2. Ids' = Ids
    BY <1>4, <2>1
  <2>3. LoopsTyped' /\ ClockTyped'
    BY <1>1, <1>3, <2>1, <2>2 DEF LoopsTyped
  <2> QED BY <1>2, <2>1, <2>3
<1>9. CASE FreeManager(n)
  <2>1. /\ phase = "destroying" /\ phase' = phase
        /\ runtime' = [runtime EXCEPT ![n].manager = "freed"] /\ "freed" \in Managers
        /\ UNCHANGED <<clock, leg, delta_ms, nodes, todo, started>>
    BY <1>9 DEF FreeManager, network, Managers
  <2>2. Ids' = Ids
    BY <1>4, <2>1
  <2>3. LoopsTyped' /\ ClockTyped'
    BY <1>1, <1>3, <2>1, <2>2 DEF LoopsTyped
  <2> QED BY <1>2, <2>1, <2>3
<1> QED BY <1>5, <1>6, <1>7, <1>8, <1>9

(* Steps that leave alone where a node is and how it moves.                *)
Standing ==
    /\ UNCHANGED <<clock, leg>>
    /\ phase \notin {"advancing", "steering"} /\ phase' \notin {"advancing", "steering"}
    /\ Ids' \subseteq Ids
    /\ \A m \in Ids' : /\ runtime'[m].device = runtime[m].device
                       /\ runtime'[m].waypoints = runtime[m].waypoints
                       /\ runtime'[m].next_waypoint_idx = runtime[m].next_waypoint_idx
                       /\ runtime'[m].location = runtime[m].location
Still == UNCHANGED <<clock, leg, delta_ms, runtime, phase, todo>>

LEMMA PhaseStep ==
    ASSUME ScenarioTyped, UNCHANGED <<runtime, leg, nodes, todo, started>>, todo = Ids,
           phase' \in Phases, phase' \notin {"configuring", "loading", "gone"}, ClockTyped'
    PROVE  ScenarioTyped' /\ Ids' = Ids
<1>1. NodesTyped /\ LoopsTyped
  BY DEF ScenarioTyped
<1>2. NodesTyped' /\ Ids' = Ids
  BY <1>1, SameNodes
<1>3. LoopsTyped'
  BY <1>1, <1>2 DEF LoopsTyped
<1> QED BY <1>2, <1>3 DEF ScenarioTyped

LEMMA SameStanding ==
    ASSUME UNCHANGED <<clock, leg, runtime>>, Ids' = Ids,
           phase \notin {"advancing", "steering"}, phase' \notin {"advancing", "steering"}
    PROVE  Standing
BY DEF Standing

(* Every step keeps the scenario's types; what it does to the nodes.       *)
LEMMA ScenarioStep ==
    ASSUME Typed, Courses, [Next]_vars
    PROVE  /\ ScenarioTyped'
           /\ \/ Standing \/ Still \/ build \/ TickClock
              \/ \E n \in Ids : AdvanceNode(n) \/ SteerNode(n)
<1> DEFINE Result ==
      /\ ScenarioTyped'
      /\ \/ Standing \/ Still \/ build \/ TickClock
         \/ \E n \in Ids : AdvanceNode(n) \/ SteerNode(n)
<1>0. ScenarioTyped /\ ClockTyped /\ LoopsTyped /\ NodesTyped
  BY DEF Typed, ScenarioTyped
<1>1. CASE Setting
  <2>1. ScenarioTyped'
    BY <1>0, <1>1, SettingTyped
  <2>2. Standing
    BY <1>1 DEF Setting, scenario, Standing, Ids
  <2> QED BY <2>1, <2>2
<1>2. CASE build
  <2>1. ScenarioTyped'
    BY <1>0, <1>2, BuildEffect, BuiltTyped
  <2> QED BY <1>2, <2>1
<1>3. CASE Threading
  <2>1. /\ UNCHANGED <<clock, delta_ms, started, todo, runtime, leg, phase, nodes>>
    BY <1>3, OperatedKeeps DEF Threading, scenario
  <2>2. ScenarioTyped' /\ Still
    BY <1>0, <2>1, SameScenario DEF Still
  <2> QED BY <2>2
<1>4. CASE resetMetrics \/ UNCHANGED vars
  <2>1. UNCHANGED <<clock, delta_ms, started, todo, runtime, leg, phase, nodes>>
    BY <1>4 DEF resetMetrics, vars, scenario, network
  <2>2. ScenarioTyped' /\ Still
    BY <1>0, <2>1, SameScenario DEF Still
  <2> QED BY <2>2
<1>5. CASE BeginStart \/ BeginStop \/ BeginDestroy
  <2>1. /\ phase = "idle" /\ phase' \in {"starting", "stopping", "closing", "destroying"}
        /\ UNCHANGED <<clock, delta_ms, started, todo, runtime, leg, nodes>>
    BY <1>5 DEF BeginStart, BeginStop, BeginDestroy, Ready, scenario, network
  <2>2. todo = Ids /\ ClockTyped' /\ phase' \in Phases
    BY <1>0, <2>1 DEF LoopsTyped, ClockTyped, Phases
  <2>3. ScenarioTyped' /\ Ids' = Ids
    BY <1>0, <2>1, <2>2, PhaseStep
  <2>4. Standing
    BY <2>1, <2>3, SameStanding
  <2> QED BY <2>3, <2>4
<1>6. ASSUME NEW n \in Ids,
             StartManager(n) \/ TellManager(n) \/ JoinManager(n) \/ DropHandler(n) \/ FreeManager(n)
      PROVE  Result
  <2>1. ScenarioTyped' /\ Standing
    BY <1>0, <1>6, ManagerSteps DEF Standing
  <2> QED BY <2>1
<1>7. ASSUME NEW n \in Ids, FreeLink(n) PROVE Result
  <2>1. ScenarioTyped' /\ Standing
    BY <1>0, <1>7, FreeLinkEffect DEF Standing
  <2> QED BY <2>1
<1>8. ASSUME NEW n \in Ids, AdvanceNode(n) PROVE Result
  <2>1. NodesTyped' /\ Ids' = Ids /\ UNCHANGED <<clock, delta_ms>> /\ phase = "advancing"
    BY <1>0, <1>8, AdvanceNodeEffect
  <2>2. Reach("advancing", n, "steering") /\ started' = started
    BY <1>8 DEF AdvanceNode
  <2>3. phase' \in {"advancing", "steering"} /\ todo' \subseteq Ids
    BY <1>0, <2>2, ReachEffect DEF Phases
  <2>4. LoopsTyped'
    BY <1>0, <2>1, <2>2, <2>3, LoopsStep DEF LoopsTyped, Phases
  <2>5. ClockTyped'
    BY <1>0, <2>1, <2>3 DEF ClockTyped
  <2> QED BY <1>8, <2>1, <2>4, <2>5 DEF ScenarioTyped
<1>9. ASSUME NEW n \in Ids, SteerNode(n) PROVE Result
  <2>1. NodesTyped' /\ Ids' = Ids /\ UNCHANGED <<clock, delta_ms>> /\ phase = "steering"
    BY <1>0, <1>9, SteerNodeEffect
  <2>2. Reach("steering", n, "arriving") /\ started' = started
    BY <1>9 DEF SteerNode
  <2>3. /\ phase' \in {"steering", "arriving"} /\ todo' \subseteq Ids
        /\ phase' = "arriving" => todo' = Ids
    BY <1>0, <2>2, ReachEffect DEF Phases
  <2>4. LoopsTyped'
    BY <1>0, <2>1, <2>2, <2>3, LoopsStep DEF LoopsTyped, Phases
  <2>5. ClockTyped'
    BY <1>0, <2>1, <2>3 DEF ClockTyped
  <2> QED BY <1>9, <2>1, <2>4, <2>5 DEF ScenarioTyped
<1>10. ASSUME NEW d \in Nat, BeginStep(d) PROVE Result
  <2>1. /\ phase = "idle" /\ phase' = "draining" /\ delta_ms' = d /\ clock + d <= MaxTime
        /\ UNCHANGED <<clock, started, todo, runtime, leg, nodes>>
    BY <1>10 DEF BeginStep, Ready, ProcessUntil
  <2>2. todo = Ids /\ ClockTyped' /\ phase' \in Phases
    BY <1>0, <2>1 DEF LoopsTyped, ClockTyped, Phases
  <2>3. ScenarioTyped' /\ Ids' = Ids
    BY <1>0, <2>1, <2>2, PhaseStep
  <2>4. Standing
    BY <2>1, <2>3, SameStanding
  <2> QED BY <2>3, <2>4
<1>11. CASE TickClock
  <2>1. /\ phase = "draining" /\ phase' = "advancing" /\ clock' = clock + delta_ms
        /\ UNCHANGED <<delta_ms, started, todo, runtime, leg, nodes>>
    BY <1>11 DEF TickClock, network
  <2>2. todo = Ids /\ ClockTyped' /\ phase' \in Phases
    BY <1>0, <2>1 DEF LoopsTyped, ClockTyped, Phases
  <2>3. ScenarioTyped' /\ Ids' = Ids
    BY <1>0, <2>1, <2>2, PhaseStep
  <2> QED BY <1>11, <2>3
<1>12. CASE FinishStep \/ EndStep
  <2>1. /\ phase \in {"arriving", "finishing"} /\ phase' \in {"finishing", "idle"}
        /\ delta_ms' \in {delta_ms, 0}
        /\ UNCHANGED <<clock, started, todo, runtime, leg, nodes>>
    BY <1>12 DEF FinishStep, EndStep, ProcessUntil, scenario, network
  <2>2. todo = Ids /\ ClockTyped' /\ phase' \in Phases
    BY <1>0, <2>1 DEF LoopsTyped, ClockTyped, Phases
  <2>3. ScenarioTyped' /\ Ids' = Ids
    BY <1>0, <2>1, <2>2, PhaseStep
  <2>4. Standing
    BY <2>1, <2>3, SameStanding
  <2> QED BY <2>3, <2>4
<1> QED
  BY <1>1, <1>2, <1>3, <1>4, <1>5, <1>6, <1>7, <1>8, <1>9, <1>10, <1>11, <1>12,
     NextSteps, ThreadingSteps

(* Every step keeps all types.                                             *)
LEMMA TypesStep ==
    ASSUME Typed, Threaded, Whereabouts, Courses, [Next]_vars
    PROVE  Typed' /\ Threaded'
<1>1. Quiet \/ (Operated /\ carried' = carried)
  BY NetworkSteps
<1>2. ThreadsTyped' /\ Threaded'
  BY <1>1, ThreadedStep
<1>3. QueueTyped' /\ HistoriesTyped' /\ (~build => now_us' \in Nat)
  BY <1>1, NetworkTyped
<1>4. build => now_us' \in Nat
  BY BuildEffect DEF Built
<1>5. CountsTyped'
  BY <1>1, CountsStep
<1>6. ScenarioTyped'
  BY ScenarioStep
<1> QED BY <1>2, <1>3, <1>4, <1>5, <1>6 DEF Typed, TimeTyped, ScenarioTyped

-----------------------------------------------------------------------------
(* How the nodes move, as a step reaches one after the other.              *)

(* A node stays on course while its position and speed are what they were. *)
LEMMA SameCourse ==
    ASSUME NEW node, NEW r, NEW s, Follows(node, s),
           r.device = node.device, r.waypoints = node.waypoints,
           r.next_waypoint_idx = node.next_waypoint_idx,
           r.location.lat = node.location.lat, r.location.lon = node.location.lon,
           r.location.speed_cm_s = node.location.speed_cm_s,
           r.location.heading_cdeg = node.location.heading_cdeg
    PROVE  Follows(r, s)
BY DEF Follows, Past, OnCourse

LEMMA OnTimeIs ==
    ASSUME NEW t \in Int, NEW at, NEW l \in Int, LocalMs(at) = l, t - l \in 0 .. 999
    PROVE  OnTime(t, at)
BY DEF OnTime, UnderASecond

LEMMA FreshTrack ==
    ASSUME NEW v \in Nat, NEW c \in Int, NEW at, NEW l, at.speed_cm_s = v, at.moved_lat = 0,
           at.heading_cdeg \in Headings, l.since = c, l.steps = 0
    PROVE  OnTrack(c, at, l)
<1>0. PICK e \in Int : e = Cosine[at.heading_cdeg]
  BY Coordinates
<1>1. Way(e, v, c - c) = 0
  BY DEF Way
<1>2. Way(e, at.speed_cm_s, c - l.since) = 0
  BY <1>1, Zenon
<1>3. Short(e, 0, 0, 0)
  <2>1. LeastGap(e) \in Int /\ MostGap(e) \in Int
    BY Coordinates DEF LeastGap, MostGap
  <2>2. 0 - North(0) = 0
    BY Coordinates DEF North
  <2>3. Within(e, 0, 0)
    BY <2>1 DEF Within
  <2> QED BY <2>2, <2>3, Zenon DEF Short
<1> QED BY <1>0, <1>2, <1>3, Zenon DEF OnTrack

LEMMA MovesAre ==
    ASSUME \A n \in Ids' : /\ OnTime(Moved_to(n)', runtime'[n].location)
                           /\ OnTrack(Moved_to(n)', runtime'[n].location, leg'[n])
    PROVE  Clocks' /\ Travels'
<1>1. ASSUME NEW n \in Ids' PROVE OnTime(Moved_to(n), runtime[n].location)'
  BY Zenon
<1>2. ASSUME NEW n \in Ids' PROVE OnTrack(Moved_to(n), runtime[n].location, leg[n])'
  BY Zenon
<1> QED BY <1>1, <1>2, Zenon DEF Clocks, Travels

(* The kinds of step: no node moves; the nodes are as they were; the clock *)
(* moves on; build; a node is moved; a node is steered.                    *)
LEMMA StandingMoves ==
    ASSUME Standing, Clocks, Travels, Courses
    PROVE  Clocks' /\ Travels' /\ Courses'
<1>1. ASSUME NEW n \in Ids'
      PROVE  /\ Moved_to(n) = clock /\ Moved_to(n)' = clock
             /\ Steered_to(n) = clock /\ Steered_to(n)' = clock
             /\ n \in Ids /\ runtime'[n].location = runtime[n].location /\ leg'[n] = leg[n]
  BY DEF Standing, Moved_to, Steered_to
<1>2. Clocks' /\ Travels'
  <2>1. \A n \in Ids' : /\ OnTime(Moved_to(n)', runtime'[n].location)
                         /\ OnTrack(Moved_to(n)', runtime'[n].location, leg'[n])
    BY <1>1 DEF Clocks, Travels
  <2> QED BY <2>1, MovesAre
<1>3. ASSUME NEW n \in Ids' PROVE Follows(runtime'[n], Seconds(Steered_to(n)'))
  <2>1. Follows(runtime[n], Seconds(clock))
    BY <1>1 DEF Courses
  <2>2. Follows(runtime'[n], Seconds(clock))
    BY <2>1, SameCourse DEF Standing
  <2> QED BY <1>1, <2>2
<1>4. Courses'
  BY <1>3 DEF Courses, Seconds
<1> QED BY <1>2, <1>4

LEMMA StillMoves ==
    ASSUME Still, Clocks, Travels, Courses
    PROVE  Clocks' /\ Travels' /\ Courses'
<1>1. /\ Ids' = Ids /\ UNCHANGED <<runtime, leg>>
      /\ \A n \in Ids : Moved_to(n)' = Moved_to(n) /\ Steered_to(n)' = Steered_to(n)
  BY DEF Still, Moved_to, Steered_to, Ids
<1>2. \A n \in Ids' : /\ OnTime(Moved_to(n)', runtime'[n].location)
                      /\ OnTrack(Moved_to(n)', runtime'[n].location, leg'[n])
  BY <1>1 DEF Clocks, Travels
<1>3. Courses'
  BY <1>1 DEF Courses, Seconds
<1> QED BY <1>2, <1>3, MovesAre

LEMMA TickMoves ==
    ASSUME ScenarioTyped, TickClock, Clocks, Travels, Courses
    PROVE  Clocks' /\ Travels' /\ Courses'
<1>1. /\ phase = "draining" /\ phase' = "advancing" /\ clock' = clock + delta_ms
      /\ todo' = todo /\ todo = Ids /\ clock \in Nat /\ delta_ms \in Nat
      /\ UNCHANGED <<runtime, leg, delta_ms>>
  BY DEF TickClock, ScenarioTyped, LoopsTyped, ClockTyped
<1>2. Ids' = Ids /\ \A n \in Ids : /\ Moved_to(n)' = Moved_to(n)
                                   /\ Steered_to(n)' = Steered_to(n)
  BY <1>1 DEF Moved_to, Steered_to, Ids
<1>3. \A n \in Ids' : /\ OnTime(Moved_to(n)', runtime'[n].location)
                      /\ OnTrack(Moved_to(n)', runtime'[n].location, leg'[n])
  BY <1>1, <1>2 DEF Clocks, Travels
<1>4. Courses'
  BY <1>1, <1>2 DEF Courses, Seconds
<1> QED BY <1>3, <1>4, MovesAre

LEMMA BuildMoves ==
    ASSUME ScenarioTyped, NEW s \in Nat, NEW ids \in SUBSET NodeIds,
           NEW device \in [ids -> DeviceConfig], NEW plan \in [ids -> Seq(WaypointConfig)],
           Built(s, ids, device, plan)
    PROVE  Clocks' /\ Travels' /\ Courses'
<1>1. Ids' = ids
  BY BuiltTyped
<1>2. /\ clock' = 1000 * s /\ phase' = "idle"
      /\ leg' = [id \in ids |-> [since |-> 1000 * s, steps |-> 0]]
  BY DEF Built
<1>3. ASSUME NEW n \in ids
      PROVE  /\ Follows(runtime'[n], s) /\ LocalMs(runtime'[n].location) = 1000 * s
             /\ runtime'[n].location.moved_lat = 0
             /\ runtime'[n].location.speed_cm_s \in Nat
             /\ runtime'[n].location.heading_cdeg \in Headings
  <2>1. PICK r : r = Steered(NodeRuntime(device[n], plan[n], s), s)
    OBVIOUS
  <2>2. runtime'[n] = r /\ Sorted(plan[n])
    BY <2>1 DEF Built
  <2>3. /\ r \in Runtime /\ Follows(r, s) /\ LocalMs(r.location) = 1000 * s
        /\ r.location.moved_lat = 0
    BY <2>1, <2>2, BuiltNode
  <2> QED BY <2>2, <2>3 DEF Runtime, Location
<1>4. \A n \in ids : Moved_to(n)' = 1000 * s /\ Steered_to(n)' = 1000 * s
  BY <1>2 DEF Moved_to, Steered_to
<1>d. PICK x \in Int : x = 1000 * s /\ x - x \in 0 .. 999
  OBVIOUS
<1>5. ASSUME NEW n \in ids PROVE OnTime(Moved_to(n)', runtime'[n].location)
  <2>1. PICK at : at = runtime'[n].location
    OBVIOUS
  <2>2. LocalMs(at) = x /\ Moved_to(n)' = x
    BY <1>3, <1>4, <1>d, <2>1
  <2>3. OnTime(x, at)
    BY <1>d, <2>2, OnTimeIs
  <2> QED BY <2>1, <2>2, <2>3
<1>6. ASSUME NEW n \in ids PROVE OnTrack(Moved_to(n)', runtime'[n].location, leg'[n])
  <2>1. PICK v \in Nat : v = runtime'[n].location.speed_cm_s
    BY <1>3
  <2>2. PICK at, l : at = runtime'[n].location /\ l = leg'[n]
    OBVIOUS
  <2>3. /\ at.speed_cm_s = v /\ at.moved_lat = 0 /\ at.heading_cdeg \in Headings
        /\ l.since = x /\ l.steps = 0
    BY <1>2, <1>3, <1>d, <2>1, <2>2
  <2>4. OnTrack(x, at, l)
    BY <2>3, FreshTrack
  <2> QED BY <1>4, <1>d, <2>2, <2>4
<1>7. Clocks' /\ Travels'
  BY <1>1, <1>5, <1>6, MovesAre
<1>8. Seconds(1000 * s) = s
  BY DEF Seconds
<1>9. Courses'
  BY <1>1, <1>3, <1>4, <1>8 DEF Courses, Seconds
<1> QED BY <1>7, <1>9

(* The loop over the nodes: which of them a step has reached.              *)
LEMMA AdvanceReach ==
    ASSUME ScenarioTyped, NEW n \in Ids, AdvanceNode(n)
    PROVE  /\ Moved_to(n) = clock - delta_ms /\ Moved_to(n)' = clock
           /\ \A m \in Ids : m # n => Moved_to(m)' = Moved_to(m)
           /\ \A m \in Ids : Steered_to(m)' = Steered_to(m)
<1>1. Reach("advancing", n, "steering") /\ UNCHANGED <<clock, delta_ms>> /\ LoopsTyped
  BY DEF AdvanceNode, ScenarioTyped
<1>2. /\ phase = "advancing" /\ n \in todo /\ phase' \in {"advancing", "steering"}
      /\ todo \subseteq Ids
      /\ todo = {n} => phase' = "steering" /\ todo' = Ids
      /\ todo # {n} => phase' = "advancing" /\ todo' = todo \ {n}
  BY <1>1, ReachEffect DEF Phases, LoopsTyped
<1> QED BY <1>1, <1>2 DEF Moved_to, Steered_to

LEMMA SteerReach ==
    ASSUME ScenarioTyped, NEW n \in Ids, SteerNode(n)
    PROVE  /\ Steered_to(n) = clock - delta_ms /\ Steered_to(n)' = clock
           /\ \A m \in Ids : m # n => Steered_to(m)' = Steered_to(m)
           /\ \A m \in Ids : Moved_to(m) = clock /\ Moved_to(m)' = clock
<1>1. Reach("steering", n, "arriving") /\ UNCHANGED <<clock, delta_ms>> /\ LoopsTyped
  BY DEF SteerNode, ScenarioTyped
<1>2. /\ phase = "steering" /\ n \in todo /\ phase' \in {"steering", "arriving"}
      /\ todo \subseteq Ids
      /\ todo = {n} => phase' = "arriving" /\ todo' = Ids
      /\ todo # {n} => phase' = "steering" /\ todo' = todo \ {n}
  BY <1>1, ReachEffect DEF Phases, LoopsTyped
<1> QED BY <1>1, <1>2 DEF Moved_to, Steered_to

LEMMA OnTimeStays ==
    ASSUME NEW x \in Int, NEW c \in Int, NEW d \in Nat, x = c - d, NEW at \in Int,
           NEW a, NEW b, LocalMs(a) = at, LocalMs(b) = at + d, OnTime(x, a)
    PROVE  OnTime(c, b)
<1>1. UnderASecond(x - at)
  BY Zenon DEF OnTime
<1>2. x - at = c - (at + d)
  OBVIOUS
<1>3. UnderASecond(c - (at + d))
  BY <1>1, <1>2, Zenon
<1> QED BY <1>3, Zenon DEF OnTime

LEMMA LocalMsType ==
    ASSUME NEW a \in Location
    PROVE  LocalMs(a) \in Int
<1>1. PICK t \in Nat : t = a.timestamp_s
  BY DEF Location
<1>2. PICK ms \in Int : ms = a.subsecond_ms
  BY DEF Location, Subseconds
<1>3. 1000 * t + ms \in Int
  OBVIOUS
<1>4. LocalMs(a) = 1000 * t + ms
  BY <1>1, <1>2 DEF LocalMs
<1> QED BY <1>3, <1>4

(* One more step at one speed: one more gap.                               *)
LEMMA MoreGap ==
    ASSUME NEW c \in Int, NEW g \in Int, NEW h \in Int, NEW steps \in Nat,
           Within(c, g, steps), Within(c, h, 1)
    PROVE  Within(c, g + h, steps + 1)
<1>1. PICK low \in Int : low = LeastGap(c)
  BY Coordinates DEF LeastGap
<1>2. PICK high \in Int : high = MostGap(c)
  BY Coordinates DEF MostGap
<1>3. PICK p \in Int : p = steps * low
  OBVIOUS
<1>4. PICK q \in Int : q = steps * high
  OBVIOUS
<1>5. (steps + 1) * low = p + low /\ (steps + 1) * high = q + high
  BY <1>3, <1>4
<1>6. p <= g /\ g <= q
  BY <1>1, <1>2, <1>3, <1>4 DEF Within
<1>7. low <= h /\ h <= high
  BY <1>1, <1>2 DEF Within
<1>8. g + h \in p + low .. q + high
  BY <1>6, <1>7
<1> QED BY <1>1, <1>2, <1>5, <1>8, Zenon DEF Within

LEMMA OneMoreStep ==
    ASSUME NEW c \in Int, NEW v \in Nat, NEW x \in Int, NEW d \in Nat, NEW moved \in Int,
           NEW steps \in Nat, NEW more \in Int,
           Short(c, Way(c, v, x), moved, steps), Short(c, Way(c, v, d), more - moved, 1)
    PROVE  Short(c, Way(c, v, x + d), more, steps + 1)
<1>1. PICK p \in Int : p = Way(c, v, x)
  BY DEF Way
<1>2. PICK q \in Int : q = Way(c, v, d)
  BY DEF Way
<1>3. Way(c, v, x + d) = p + q
  <2>1. PICK e \in Int : e = c * v
    OBVIOUS
  <2>2. e * (x + d) = e * x + e * d
    OBVIOUS
  <2> QED BY <1>1, <1>2, <2>1, <2>2 DEF Way
<1>4. PICK i \in Int : i = North(moved)
  BY Coordinates DEF North
<1>5. PICK j \in Int : j = North(more - moved)
  BY Coordinates DEF North
<1>6. North(more) = i + j
  <2>1. PICK u \in Nat : u = LatUnit
    BY Coordinates
  <2>2. 1000 * u * more = 1000 * u * moved + 1000 * u * (more - moved)
    OBVIOUS
  <2> QED BY <1>4, <1>5, <2>1, <2>2 DEF North
<1>7. Within(c, p - i, steps) /\ Within(c, q - j, 1)
  BY <1>1, <1>2, <1>4, <1>5, Zenon DEF Short
<1>8. Within(c, (p - i) + (q - j), steps + 1)
  BY <1>7, MoreGap
<1>9. (p - i) + (q - j) = (p + q) - (i + j)
  OBVIOUS
<1> QED BY <1>3, <1>6, <1>8, <1>9, Zenon DEF Short

(* A node, its leg, and the times before and after a step of length d.     *)
Advances(a, d, x, c, l, k, b) ==
    /\ a \in Location /\ d \in Nat /\ x \in Int /\ c \in Nat /\ x = c - d /\ b = advance(a, d)
    /\ l \in Leg /\ k.since = l.since /\ k.steps = l.steps + 1
    /\ OnTime(x, a) /\ OnTrack(x, a, l)

LEMMA AdvancedKeeps ==
    ASSUME NEW a, NEW d, NEW x, NEW c, NEW l, NEW k, NEW b, Advances(a, d, x, c, l, k, b)
    PROVE  /\ OnTime(c, b) /\ OnTrack(c, b, k)
           /\ b.lat = a.lat /\ b.lon = a.lon /\ b.speed_cm_s = a.speed_cm_s
           /\ b.heading_cdeg = a.heading_cdeg
<1>0. /\ a \in Location /\ d \in Nat /\ x \in Int /\ c \in Nat /\ x = c - d /\ b = advance(a, d)
      /\ l \in Leg /\ k.since = l.since /\ k.steps = l.steps + 1
      /\ OnTime(x, a) /\ OnTrack(x, a, l)
  BY Zenon DEF Advances
<1>1. /\ b \in Location /\ Advanced(a, d, b)
      /\ b.lat = a.lat /\ b.lon = a.lon /\ b.speed_cm_s = a.speed_cm_s
      /\ b.heading_cdeg = a.heading_cdeg
  BY <1>0, AdvanceEffect, Zenon
<1>2. PICK v \in Nat : v = a.speed_cm_s
  BY <1>0 DEF Location
<1>h. PICK h \in Headings : h = a.heading_cdeg
  BY <1>0 DEF Location
<1>e. PICK e \in Int : e = Cosine[h]
  BY Coordinates
<1>3. PICK moved \in Int : moved = a.moved_lat
  BY <1>0 DEF Location
<1>4. PICK more \in Int : more = b.moved_lat
  BY <1>1 DEF Location
<1>5. PICK at \in Int : at = LocalMs(a)
  BY <1>0, LocalMsType
<1>s. PICK since \in Nat : since = l.since
  BY <1>0 DEF Leg
<1>t. PICK steps \in Nat : steps = l.steps
  BY <1>0 DEF Leg
<1>6. OnTime(c, b)
  <2>1. LocalMs(b) = at + d
    BY <1>1, <1>5, Zenon DEF Advanced
  <2>2. c \in Int
    BY <1>0
  <2> QED BY <1>0, <1>5, <2>1, <2>2, OnTimeStays
<1>7. PICK gone \in Int : gone = x - since
  BY <1>0
<1>8. Short(e, Way(e, v, gone), moved, steps)
  BY <1>0, <1>2, <1>3, <1>7, <1>e, <1>h, <1>s, <1>t, Zenon DEF OnTrack
<1>9. Short(e, Way(e, v, d), more - moved, 1)
  BY <1>1, <1>2, <1>3, <1>4, <1>e, <1>h, Zenon DEF Advanced
<1>10. Short(e, Way(e, v, gone + d), more, steps + 1)
  BY <1>0, <1>8, <1>9, OneMoreStep
<1>11. gone + d = c - since
  BY <1>0, <1>7
<1>12. OnTrack(c, b, k)
  <2>1. b.speed_cm_s = v /\ b.moved_lat = more /\ k.since = since /\ k.steps = steps + 1
    BY <1>0, <1>1, <1>2, <1>4, <1>s, <1>t
  <2>2. Short(e, Way(e, v, c - since), more, steps + 1)
    BY <1>10, <1>11, Zenon
  <2>3. Cosine[b.heading_cdeg] = e
    BY <1>1, <1>e, <1>h, Zenon
  <2> QED BY <2>1, <2>2, <2>3, Zenon DEF OnTrack
<1> QED BY <1>1, <1>6, <1>12, Zenon

LEMMA AdvanceNodeMoves ==
    ASSUME ScenarioTyped, NEW n \in Ids, AdvanceNode(n), Clocks, Travels, Courses
    PROVE  Clocks' /\ Travels' /\ Courses'
<1>1. /\ Ids' = Ids
      /\ runtime'[n].location = advance(runtime[n].location, delta_ms)
      /\ runtime'[n].device = runtime[n].device
      /\ runtime'[n].waypoints = runtime[n].waypoints
      /\ runtime'[n].next_waypoint_idx = runtime[n].next_waypoint_idx
      /\ leg'[n].since = leg[n].since /\ leg'[n].steps = leg[n].steps + 1
      /\ \A m \in Ids : m # n => runtime'[m] = runtime[m] /\ leg'[m] = leg[m]
  BY AdvanceNodeEffect
<1>2. /\ Moved_to(n) = clock - delta_ms /\ Moved_to(n)' = clock
      /\ \A m \in Ids : m # n => Moved_to(m)' = Moved_to(m)
      /\ \A m \in Ids : Steered_to(m)' = Steered_to(m)
  BY AdvanceReach
<1>3. PICK a, b : a = runtime[n].location /\ b = runtime'[n].location
  OBVIOUS
<1>4. PICK d, c, x : d = delta_ms /\ c = clock /\ x = c - d
  OBVIOUS
<1>5. PICK l, k : l = leg[n] /\ k = leg'[n]
  OBVIOUS
<1>7. /\ OnTime(Moved_to(n)', b) /\ OnTrack(Moved_to(n)', b, k)
      /\ b.lat = a.lat /\ b.lon = a.lon /\ b.speed_cm_s = a.speed_cm_s
      /\ b.heading_cdeg = a.heading_cdeg
  <2>1. a \in Location /\ l \in Leg
    BY <1>3, <1>5 DEF ScenarioTyped, NodesTyped, Runtime
  <2>2. d \in Nat /\ c \in Nat /\ x \in Int /\ x = c - d
    BY <1>4 DEF ScenarioTyped, ClockTyped
  <2>3. OnTime(x, a) /\ OnTrack(x, a, l)
    BY <1>2, <1>3, <1>4, <1>5 DEF Clocks, Travels
  <2>4. b = advance(a, d) /\ k.since = l.since /\ k.steps = l.steps + 1
    BY <1>1, <1>3, <1>4, <1>5
  <2>5. Advances(a, d, x, c, l, k, b)
    BY <2>1, <2>2, <2>3, <2>4, Zenon DEF Advances
  <2>6. /\ OnTime(c, b) /\ OnTrack(c, b, k)
        /\ b.lat = a.lat /\ b.lon = a.lon /\ b.speed_cm_s = a.speed_cm_s
        /\ b.heading_cdeg = a.heading_cdeg
    BY <2>5, AdvancedKeeps, SMTT(30)
  <2> QED BY <1>2, <1>4, <2>6, Zenon
<1>a. ASSUME NEW m \in Ids, m # n
      PROVE  /\ OnTime(Moved_to(m)', runtime'[m].location)
             /\ OnTrack(Moved_to(m)', runtime'[m].location, leg'[m])
  BY <1>1, <1>2, <1>a DEF Clocks, Travels
<1>b. Clocks' /\ Travels'
  BY <1>1, <1>3, <1>5, <1>7, <1>a, MovesAre
<1>9. Courses'
  <2>1. PICK s : s = Seconds(Steered_to(n))
    OBVIOUS
  <2>2. Follows(runtime[n], s)
    BY <2>1 DEF Courses
  <2>3. Follows(runtime'[n], s)
    BY <1>1, <1>3, <1>7, <2>2, SameCourse
  <2> QED BY <1>1, <1>2, <2>1, <2>3 DEF Courses, Seconds
<1> QED BY <1>b, <1>9

LEMMA SteerNodeMoves ==
    ASSUME ScenarioTyped, NEW n \in Ids, SteerNode(n), Clocks, Travels, Courses
    PROVE  Clocks' /\ Travels' /\ Courses'
<1>1. /\ Ids' = Ids /\ NodesTyped' /\ clock' = clock
      /\ Follows(runtime'[n], Seconds(clock))
      /\ \/ runtime'[n].location = runtime[n].location /\ leg' = leg
         \/ /\ LocalMs(runtime'[n].location) = 1000 * Seconds(clock)
            /\ runtime'[n].location.moved_lat = 0
            /\ leg'[n] = [since |-> clock, steps |-> 0]
      /\ \A m \in Ids : m # n => runtime'[m] = runtime[m] /\ leg'[m] = leg[m]
  BY SteerNodeEffect
<1>2. /\ Steered_to(n)' = clock
      /\ \A m \in Ids : m # n => Steered_to(m)' = Steered_to(m)
      /\ \A m \in Ids : Moved_to(m) = clock /\ Moved_to(m)' = clock
  BY SteerReach
<1>3. PICK c \in Nat : c = clock
  BY DEF ScenarioTyped, ClockTyped
<1>4. Courses'
  BY <1>1, <1>2 DEF Courses, Seconds
<1>a. ASSUME NEW m \in Ids, m # n
      PROVE  /\ OnTime(Moved_to(m)', runtime'[m].location)
             /\ OnTrack(Moved_to(m)', runtime'[m].location, leg'[m])
  BY <1>1, <1>2, <1>a DEF Clocks, Travels
<1>5. OnTime(Moved_to(n)', runtime'[n].location) /\ OnTrack(Moved_to(n)', runtime'[n].location, leg'[n])
  <2>1. CASE runtime'[n].location = runtime[n].location /\ leg' = leg
    BY <1>2, <2>1 DEF Clocks, Travels
  <2>2. CASE /\ LocalMs(runtime'[n].location) = 1000 * Seconds(clock)
             /\ runtime'[n].location.moved_lat = 0
             /\ leg'[n] = [since |-> clock, steps |-> 0]
    <3>1. PICK v \in Nat : v = runtime'[n].location.speed_cm_s
      BY <1>1 DEF NodesTyped, Runtime, Location
    <3>2. PICK at, l : at = runtime'[n].location /\ l = leg'[n]
      OBVIOUS
    <3>3. OnTime(c, at)
      <4>1. PICK x \in Int : x = 1000 * (c \div 1000) /\ c - x \in 0 .. 999
        OBVIOUS
      <4>2. LocalMs(at) = x
        BY <1>3, <2>2, <3>2, <4>1 DEF Seconds
      <4> QED BY <4>1, <4>2, OnTimeIs
    <3>4. OnTrack(c, at, l)
      <4>1. l.since = c /\ l.steps = 0 /\ at.speed_cm_s = v /\ at.moved_lat = 0
        BY <1>3, <2>2, <3>1, <3>2
      <4>2. at.heading_cdeg \in Headings
        BY <1>1, <3>2 DEF NodesTyped, Runtime, Location
      <4> QED BY <4>1, <4>2, FreshTrack
    <3> QED BY <1>2, <1>3, <3>2, <3>3, <3>4
  <2> QED BY <1>1, <2>1, <2>2
<1>6. Clocks' /\ Travels'
  BY <1>1, <1>5, <1>a, MovesAre
<1> QED BY <1>4, <1>6

LEMMA MovesStep ==
    ASSUME Typed, Clocks, Travels, Courses, [Next]_vars
    PROVE  Clocks' /\ Travels' /\ Courses'
<1>1. ScenarioTyped
  BY DEF Typed, ScenarioTyped
<1>2. CASE build
  BY <1>1, <1>2, BuildEffect, BuildMoves
<1> QED
  BY <1>1, <1>2, ScenarioStep, StandingMoves, StillMoves, TickMoves, AdvanceNodeMoves,
     SteerNodeMoves

-----------------------------------------------------------------------------
(* Whose threads run while managers are stopped and nodes are freed.       *)

(* What one thread does inside the network.                                *)
LEMMA OneThreadLives ==
    ASSUME Typed, Life, NEW t \in Threads, UNCHANGED <<phase, started, todo, runtime, handler>>,
           \A s \in Threads : s # t => thread'[s] = thread[s],
           \/ thread'[t].at = "out" \/ thread[t].at # "out"
           \/ t = Driver /\ phase = "idle"
           \/ t \in Ids /\ runtime[t].manager \in {"running", "stopping"},
           thread'[t].at \in {"stamped", "pushed"} =>
              phase = "idle" \/ t # Driver \/ thread[t].at = "stamped",
           Held(t)' \subseteq Ids
    PROVE  Life'
<1>1. /\ Ids' = Ids /\ Ids \subseteq NodeIds
      /\ Driver \in Threads /\ NodeIds \subseteq Threads /\ Driver \notin NodeIds
  BY Parameters DEF Ids, Threads, Typed, NodesTyped
<1>2. thread'[Driver].at # "out" => phase \in {"idle", "draining", "finishing"}
  BY <1>1 DEF Life, Is
<1>3. thread'[Driver].at \in {"stamped", "pushed"} => phase = "idle"
  BY <1>1 DEF Life, Is
<1>4. \A n \in NodeIds : thread'[n].at # "out" =>
         n \in Ids /\ runtime[n].manager \in {"running", "stopping"}
  BY <1>1 DEF Life, Is
<1>5. \A s \in Threads : Held(s)' \subseteq Ids
  BY DEF Life, Held
<1> QED BY <1>1, <1>2, <1>3, <1>4, <1>5 DEF Life, Is

LEMMA ContinueLives ==
    ASSUME Typed, Threaded, Life, NEW t \in Threads, Continue(t),
           UNCHANGED <<phase, started, todo, runtime, handler>>
    PROVE  Life'
<1>1. Held(t) \subseteq Ids /\ thread[t].left \subseteq Ids /\ Driver \notin NodeIds
  BY Parameters DEF Life, Held
<1> DEFINE Result ==
      /\ \A s \in Threads : s # t => thread'[s] = thread[s]
      /\ thread'[t].at = "out" \/ thread[t].at # "out"
      /\ thread'[t].at \in {"stamped", "pushed"} => thread[t].at = "stamped"
      /\ Held(t)' \subseteq Ids
<1>2. ASSUME Push(t) PROVE Result
  <2>1. thread[t].at = "stamped"
    BY <1>2 DEF Push, Is
  <2> QED BY <1>2, <2>1, PushThread DEF Held
<1>3. ASSUME Enter(t) PROVE Result
  <2>1. thread[t].at = "pushed"
    BY <1>3 DEF Enter, Is
  <2> QED BY <1>3, <2>1, EnterThread DEF Held
<1>4. ASSUME Pop(t) PROVE Result
  <2>1. thread[t].at = "looping"
    BY <1>4 DEF Pop, Is
  <2> QED BY <1>1, <1>4, <2>1, PopThread DEF Held
<1>5. ASSUME PopNothing(t) PROVE Result
  <2>1. thread[t].at = "looping"
    BY <1>5 DEF PopNothing, Is
  <2> QED BY <1>1, <1>5, <2>1, PopNothingThread DEF Held
<1>6. ASSUME Execute(t) PROVE Result
  <2>1. thread[t].at = "popped" /\ thread[t].to = Driver
    BY <1>6 DEF Execute, Is, Threaded
  <2> QED BY <1>6, <2>1, ExecuteThread DEF Held
<1>7. ASSUME NEW n \in NodeIds, PassOver(t, n) PROVE Result
  <2>1. thread[t].at = "delivering"
    BY <1>7 DEF PassOver, Is
  <2> QED BY <1>1, <1>7, <2>1, PassOverThread DEF Held
<1>8. ASSUME NEW n \in NodeIds, CopyHandler(t, n) PROVE Result
  <2>1. thread[t].at = "delivering" /\ n \in thread[t].left
    BY <1>8 DEF CopyHandler, Is
  <2> QED BY <1>1, <1>8, <2>1, CopyHandlerThread DEF Held
<1>9. ASSUME CallHandler(t) PROVE Result
  <2>1. thread[t].at = "calling"
    BY <1>9 DEF CallHandler, Is
  <2> QED BY <1>1, <1>9, <2>1, CallHandlerThread DEF Held
<1>10. ASSUME Settle(t) PROVE Result
  <2>1. thread[t].at = "delivering"
    BY <1>10 DEF Settle, Is
  <2> QED BY <1>10, <2>1, SettleThread DEF Held
<1>11. ASSUME Leave(t) PROVE Result
  BY <1>11, LeaveThread DEF Held
<1>12. Result
  BY <1>2, <1>3, <1>4, <1>5, <1>6, <1>7, <1>8, <1>9, <1>10, <1>11 DEF Continue
<1> QED BY <1>12, OneThreadLives

LEMMA SendLives ==
    ASSUME Typed, Life, NEW f \in Frames, SendByDriver(f) \/ SendByManager(f)
    PROVE  Life'
<1>1. CASE SendByDriver(f)
  <2>1. /\ Transmit(Driver, f) /\ phase = "idle" /\ Driver \in Threads
        /\ UNCHANGED <<phase, started, todo, runtime, handler>>
    BY <1>1 DEF SendByDriver, Ready, Transmit, scenario, Threads
  <2>2. /\ \A s \in Threads : s # Driver => thread'[s] = thread[s]
        /\ Held(Driver)' \subseteq Ids
    BY <2>1, TransmitThread DEF Held
  <2> QED BY <2>1, <2>2, OneThreadLives
<1>2. CASE SendByManager(f)
  <2>1. PICK t \in Threads : t = Source[f]
    BY Parameters DEF Threads
  <2>2. /\ Transmit(t, f) /\ t \in Ids /\ runtime[t].manager \in {"running", "stopping"}
        /\ UNCHANGED <<phase, started, todo, runtime, handler>>
    BY <1>2, <2>1 DEF SendByManager, Transmit, scenario
  <2>3. /\ \A s \in Threads : s # t => thread'[s] = thread[s]
        /\ Held(t)' \subseteq Ids
    BY <2>2, TransmitThread DEF Held
  <2>4. t # Driver
    BY <2>2, Parameters DEF Typed, NodesTyped
  <2> QED BY <2>2, <2>3, <2>4, OneThreadLives
<1> QED BY <1>1, <1>2

(* The driver runs processUntil as a step begins, and as it ends.          *)
LEMMA UntilLives ==
    ASSUME Typed, Life, NEW until \in Nat, ProcessUntil(until),
           UNCHANGED <<started, todo, runtime>>,
           phase \in {"idle", "arriving"}, phase' \in {"draining", "finishing"}
    PROVE  Life'
<1>1. /\ \A s \in Threads : s # Driver => thread'[s] = thread[s]
      /\ thread'[Driver].at = "looping" /\ Held(Driver)' = {}
  BY ProcessUntilThread DEF Held
<1>2. handler' = handler /\ Ids' = Ids /\ NodeIds \subseteq Threads /\ Driver \notin NodeIds
  BY Parameters DEF ProcessUntil, Ids, Threads
<1>3. \A s \in Threads : Held(s)' \subseteq Ids
  BY <1>1 DEF Life, Held
<1> QED BY <1>1, <1>2, <1>3 DEF Life, Is

(* The driver goes from one phase to another; no manager changes.          *)
LEMMA PhaseLives ==
    ASSUME Life, thread[Driver].at = "out", UNCHANGED <<thread, handler, started>>, Ids' = Ids,
           \A m \in Ids : runtime'[m].manager = runtime[m].manager,
           phase \notin {"starting", "stopping", "closing", "destroying"},
           phase' \in {"stopping", "closing"} => todo' = Ids,
           phase' = "destroying" => ~started
    PROVE  Life'
<1>1. \A s \in Threads : Held(s)' = Held(s)
  BY DEF Held
<1> QED BY <1>1 DEF Life, Is

(* No thread is in the network while managers are freed.                   *)
LEMMA DestroyingAlone ==
    ASSUME Typed, Threaded, Life, phase = "destroying"
    PROVE  /\ \A t \in Threads : thread[t].at = "out" /\ Held(t) = {}
           /\ \A n \in Ids : runtime[n].manager \notin {"running", "stopping"}
           /\ ~started
<1>1. ~started /\ \A n \in Ids : runtime[n].manager \notin {"running", "stopping"}
  BY DEF Life
<1>2. ASSUME NEW t \in Threads PROVE thread[t].at = "out"
  BY <1>1, <1>2 DEF Life, Is, Threads
<1>3. ASSUME NEW t \in Threads PROVE Held(t) = {}
  BY <1>2, <1>3 DEF Threaded, Held
<1> QED BY <1>1, <1>2, <1>3

(* The managers are started, told to stop, joined, and freed, one node     *)
(* after the other.                                                        *)
LEMMA StartLives ==
    ASSUME Typed, Life, NEW n \in Ids, StartManager(n)
    PROVE  Life'
<1>1. /\ Reach("starting", n, "idle") /\ started' = (todo = {n}) /\ thread' = thread
      /\ \/ /\ runtime' = [runtime EXCEPT ![n].manager = "running"]
            /\ handler' = handler \cup {n}
         \/ UNCHANGED <<runtime, handler>>
  BY DEF StartManager, SetHandler
<1>2. /\ phase = "starting" /\ phase' \in {"starting", "idle"} /\ (phase' = "idle" => started')
  <2>1. /\ phase = "starting" /\ phase' \in {"starting", "idle"}
        /\ todo # {n} => phase' = "starting"
    BY <1>1, ReachEffect DEF Typed, Phases
  <2>2. todo = {n} => started'
    BY <1>1
  <2> QED BY <2>1, <2>2
<1>3. runtime \in [Ids -> Runtime] /\ "running" \in Managers
  BY DEF Typed, NodesTyped, Managers
<1>4. /\ Ids' = Ids /\ \A m \in Ids : \/ runtime'[m].manager = runtime[m].manager
                                      \/ runtime'[m].manager = "running"
  <2>1. CASE runtime' = [runtime EXCEPT ![n].manager = "running"]
    BY <1>3, <2>1, ManagerUpdate
  <2>2. CASE runtime' = runtime
    BY <2>2 DEF Ids
  <2> QED BY <1>1, <2>1, <2>2
<1>5. handler' \subseteq Ids /\ \A s \in Threads : Held(s)' = Held(s)
  BY <1>1 DEF Life, Held
<1>6. \A m \in Ids : runtime[m].manager \notin {"ending", "freed"}
  BY <1>2 DEF Life
<1> QED BY <1>1, <1>2, <1>4, <1>5, <1>6 DEF Life, Is

LEMMA TellLives ==
    ASSUME Typed, Life, NEW n \in Ids, TellManager(n)
    PROVE  Life'
<1>1. /\ phase \in {"stopping", "closing"} /\ n \in todo /\ runtime[n].manager = "running"
      /\ runtime' = [runtime EXCEPT ![n].manager = "stopping"]
      /\ UNCHANGED <<thread, handler, phase, todo, started>>
  BY DEF TellManager, network
<1>2. runtime \in [Ids -> Runtime] /\ "stopping" \in Managers
  BY DEF Typed, NodesTyped, Managers
<1>3. /\ Ids' = Ids /\ runtime'[n].manager = "stopping"
      /\ \A m \in Ids : m # n => runtime'[m] = runtime[m]
  BY <1>1, <1>2, ManagerUpdate
<1>4. \A s \in Threads : Held(s)' = Held(s)
  BY <1>1 DEF Held
<1> QED BY <1>1, <1>3, <1>4 DEF Life, Is

LEMMA JoinLives ==
    ASSUME Typed, Life, NEW n \in Ids, JoinManager(n)
    PROVE  Life'
<1>1. PICK p, after : p = phase /\ after = AfterStop(p)
  OBVIOUS
<1>2. /\ Reach(p, n, after) /\ p \in {"stopping", "closing"} /\ started' = (todo # {n})
      /\ thread[n].at = "out"
      /\ runtime' = [runtime EXCEPT ![n].manager = "stopped"]
      /\ UNCHANGED <<thread, handler>>
  BY <1>1 DEF JoinManager, network, Is
<1>3. p \in Phases /\ after \in Phases /\ after \in {"idle", "destroying"}
  BY <1>1, <1>2 DEF Phases, AfterStop
<1>4. /\ phase \in {"stopping", "closing"} /\ n \in todo
      /\ todo = {n} => phase' \in {"idle", "destroying"} /\ todo' = Ids /\ ~started'
      /\ todo # {n} => phase' = phase /\ todo' = todo \ {n} /\ started'
  BY <1>1, <1>2, <1>3, ReachEffect DEF Typed
<1>5. runtime \in [Ids -> Runtime] /\ "stopped" \in Managers
  BY DEF Typed, NodesTyped, Managers
<1>6. /\ Ids' = Ids /\ runtime'[n].manager = "stopped"
      /\ \A m \in Ids : m # n => runtime'[m] = runtime[m]
  BY <1>2, <1>5, ManagerUpdate
<1>7. \A s \in Threads : Held(s)' = Held(s)
  BY <1>2 DEF Held
<1>8. ASSUME NEW m \in Ids, m \notin todo \/ m = n PROVE runtime'[m].manager = "stopped"
  BY <1>4, <1>6, <1>8 DEF Life
<1>9. CASE todo = {n}
  <2>1. \A m \in Ids : runtime'[m].manager = "stopped"
    BY <1>8, <1>9
  <2> QED BY <1>2, <1>4, <1>6, <1>7, <1>9, <2>1 DEF Life, Is
<1>10. CASE todo # {n}
  <2>1. \A m \in Ids \ todo' : runtime'[m].manager = "stopped"
    BY <1>4, <1>8, <1>10
  <2> QED BY <1>2, <1>4, <1>6, <1>7, <1>10, <2>1 DEF Life, Is
<1> QED BY <1>9, <1>10

LEMMA DropLives ==
    ASSUME Typed, Threaded, Life, NEW n \in Ids, DropHandler(n) \/ FreeManager(n)
    PROVE  Life'
<1>1. PICK x \in {"ending", "freed"} :
         /\ phase = "destroying" /\ runtime' = [runtime EXCEPT ![n].manager = x]
         /\ handler' \in {handler, handler \ {n}} /\ n \notin handler'
         /\ UNCHANGED <<thread, phase, started>>
  <2>1. CASE DropHandler(n)
    BY <2>1 DEF DropHandler, SetHandler
  <2>2. CASE FreeManager(n)
    BY <2>2 DEF FreeManager, network, Life
  <2> QED BY <2>1, <2>2
<1>2. /\ \A t \in Threads : thread[t].at = "out" /\ Held(t) = {}
      /\ \A m \in Ids : runtime[m].manager \notin {"running", "stopping"}
      /\ ~started /\ NodeIds \subseteq Threads /\ Driver \in Threads
  BY <1>1, DestroyingAlone DEF Threads
<1>3. runtime \in [Ids -> Runtime] /\ x \in Managers
  BY DEF Typed, NodesTyped, Managers
<1>4. /\ Ids' = Ids /\ runtime'[n].manager = x
      /\ \A m \in Ids : m # n => runtime'[m] = runtime[m]
  BY <1>1, <1>3, ManagerUpdate
<1>5. \A s \in Threads : Held(s)' = Held(s)
  BY <1>1 DEF Held
<1> QED BY <1>1, <1>2, <1>4, <1>5 DEF Life, Is

LEMMA FreeLinkLives ==
    ASSUME Typed, Threaded, Life, NEW n \in Ids, FreeLink(n)
    PROVE  Life'
<1>1. /\ phase = "destroying" /\ phase' \in {"destroying", "gone"}
      /\ runtime[n].manager = "freed"
      /\ Ids' = Ids \ {n} /\ \A m \in Ids' : runtime'[m] = runtime[m]
      /\ UNCHANGED <<handler, started>>
  BY FreeLinkEffect DEF Typed, ScenarioTyped
<1>2. thread' = thread
  BY DEF FreeLink
<1>3. /\ \A t \in Threads : thread[t].at = "out" /\ Held(t) = {}
      /\ \A m \in Ids : runtime[m].manager \notin {"running", "stopping"}
      /\ ~started /\ NodeIds \subseteq Threads /\ Driver \in Threads
  BY <1>1, DestroyingAlone DEF Threads
<1>4. \A s \in Threads : Held(s)' = Held(s)
  BY <1>2 DEF Held
<1>5. n \notin handler /\ handler' \subseteq Ids'
  BY <1>1 DEF Life
<1>6. phase' = "gone" => Ids' = {}
  BY FreeLinkEffect DEF Typed, ScenarioTyped, NodesTyped
<1>7. /\ \A s \in Threads : thread'[s].at = "out" /\ Held(s)' \subseteq Ids'
      /\ ~started'
  BY <1>1, <1>2, <1>3, <1>4
<1>8. \A m \in Ids' : /\ runtime'[m].manager \notin {"running", "stopping"}
                      /\ runtime'[m].manager \in {"ending", "freed"} => m \notin handler'
  BY <1>1, <1>3 DEF Life
<1> QED BY <1>1, <1>3, <1>5, <1>6, <1>7, <1>8 DEF Life, Is

(* Before build, and as it ends.                                           *)
LEMMA EmptyLives ==
    ASSUME Typed, Life, phase \in {"configuring", "loading"},
           phase' \in {"configuring", "loading", "idle"}, UNCHANGED <<thread, handler, started>>,
           \A m \in Ids' : runtime'[m].manager = "new"
    PROVE  Life'
<1>1. Ids = {} /\ thread[Driver].at = "out"
  BY DEF Typed, NodesTyped, Life, Is
<1>2. /\ \A n \in NodeIds : thread[n].at = "out" /\ handler = {}
      /\ \A t \in Threads : Held(t) = {}
  BY <1>1 DEF Life, Is
<1>3. \A s \in Threads : Held(s)' = Held(s)
  BY DEF Held
<1> QED BY <1>1, <1>2, <1>3 DEF Life, Is

LEMMA BuiltLives ==
    ASSUME Typed, Life, NEW s \in Nat, NEW ids \in SUBSET NodeIds,
           NEW device \in [ids -> DeviceConfig], NEW plan \in [ids -> Seq(WaypointConfig)],
           Built(s, ids, device, plan)
    PROVE  Life'
<1>1. Ids' = ids
  BY BuiltTyped DEF Typed, ScenarioTyped
<1>2. ASSUME NEW n \in ids PROVE runtime'[n].manager = "new"
  <2>1. PICK r : r = Steered(NodeRuntime(device[n], plan[n], s), s)
    OBVIOUS
  <2>2. runtime'[n] = r /\ Sorted(plan[n])
    BY <2>1 DEF Built
  <2>3. r.manager = "new"
    BY <2>1, <2>2, BuiltNode
  <2> QED BY <2>2, <2>3
<1> QED BY <1>1, <1>2, EmptyLives DEF Built

LEMMA LifeStep ==
    ASSUME Typed, Threaded, Life, Courses, [Next]_vars
    PROVE  Life'
<1>0. ScenarioTyped
  BY DEF Typed, ScenarioTyped
<1>1. CASE Setting
  <2>1. /\ phase \in {"configuring", "loading"} /\ phase' \in {"configuring", "loading"}
        /\ UNCHANGED <<thread, handler, started, runtime>>
    BY <1>1 DEF Setting, network, scenario
  <2>2. Ids' = Ids /\ Ids = {}
    BY <2>1 DEF Ids, Typed, NodesTyped
  <2> QED BY <2>1, <2>2, EmptyLives
<1>2. CASE build
  BY <1>2, BuildEffect, BuiltLives
<1>3. CASE UNCHANGED vars
  <2>1. UNCHANGED <<thread, handler, phase, started, todo, runtime>>
    BY <1>3 DEF vars, network, scenario
  <2>2. Ids' = Ids /\ \A t \in Threads : Held(t)' = Held(t)
    BY <2>1 DEF Ids, Held
  <2> QED BY <2>1, <2>2 DEF Life, Is
<1>4. CASE resetMetrics \/ BeginStart \/ BeginStop \/ BeginDestroy
  <2>1. /\ thread[Driver].at = "out" /\ phase = "idle" /\ todo' = todo
        /\ UNCHANGED <<thread, handler, started, runtime>>
        /\ phase' = "destroying" => ~started
    BY <1>4 DEF resetMetrics, BeginStart, BeginStop, BeginDestroy, Ready, Is, network, scenario
  <2>2. Ids' = Ids /\ todo = Ids
    BY <2>1 DEF Ids, Typed, LoopsTyped
  <2> QED BY <2>1, <2>2, PhaseLives
<1>5. ASSUME NEW t \in Threads, Work(t) PROVE Life'
  <2>1. Continue(t) /\ UNCHANGED <<phase, started, todo, runtime>>
    BY <1>5 DEF Work, scenario
  <2>2. handler' = handler
    BY <2>1, OperatedKeeps DEF Operated
  <2> QED BY <2>1, <2>2, ContinueLives
<1>6. ASSUME NEW d \in Nat, BeginStep(d) PROVE Life'
  <2>1. PICK until \in Nat : until = 1000 * clock
    BY DEF Typed, ClockTyped
  <2>2. /\ ProcessUntil(until) /\ UNCHANGED <<started, todo, runtime>>
        /\ phase = "idle" /\ phase' = "draining"
    BY <1>6, <2>1 DEF BeginStep, Ready
  <2> QED BY <2>2, UntilLives
<1>7. CASE FinishStep
  <2>1. PICK until \in Nat : until = 1000 * clock
    BY DEF Typed, ClockTyped
  <2>2. /\ ProcessUntil(until) /\ UNCHANGED <<started, todo, runtime>>
        /\ phase = "arriving" /\ phase' = "finishing"
    BY <1>7, <2>1 DEF FinishStep, scenario
  <2> QED BY <2>2, UntilLives
<1>8. CASE TickClock \/ EndStep
  <2>1. /\ thread[Driver].at = "out" /\ phase \in {"draining", "finishing"}
        /\ phase' \in {"advancing", "idle"}
        /\ UNCHANGED <<thread, handler, started, runtime>>
    BY <1>8 DEF TickClock, EndStep, Is, network
  <2>2. Ids' = Ids
    BY <2>1 DEF Ids
  <2> QED BY <2>1, <2>2, PhaseLives
<1>9. ASSUME NEW n \in Ids, AdvanceNode(n) \/ SteerNode(n) PROVE Life'
  <2>1. /\ phase \in {"advancing", "steering"} /\ Ids' = Ids
        /\ \A m \in Ids : runtime'[m].manager = runtime[m].manager
    BY <1>0, <1>9, AdvanceNodeEffect, SteerNodeEffect
  <2>2. phase' \in {"advancing", "steering", "arriving"} /\ UNCHANGED <<thread, handler, started>>
    BY <1>9 DEF AdvanceNode, SteerNode, Reach, network
  <2>3. thread[Driver].at = "out"
    BY <2>1 DEF Life, Is
  <2> QED BY <2>1, <2>2, <2>3, PhaseLives
<1> QED
  BY <1>1, <1>2, <1>3, <1>4, <1>5, <1>6, <1>7, <1>8, <1>9, NextSteps, SendLives, StartLives,
     TellLives, JoinLives, DropLives, FreeLinkLives

-----------------------------------------------------------------------------
(* Nothing is ahead of the scenario's clock.                               *)

(* Only build and step set the scenario's clock.                           *)
LEMMA ClockStep ==
    ASSUME Typed, Courses, [Next]_vars
    PROVE  clock' = clock \/ build \/ TickClock
<1>1. ScenarioTyped
  BY DEF Typed, ScenarioTyped
<1>2. ASSUME NEW n \in Ids, AdvanceNode(n) PROVE clock' = clock
  BY <1>1, <1>2, AdvanceNodeEffect
<1>3. ASSUME NEW n \in Ids, SteerNode(n) PROVE clock' = clock
  BY <1>1, <1>3, SteerNodeEffect
<1> QED BY <1>2, <1>3, ScenarioStep DEF Standing, Still

(* A frame is stamped with the network's time, which is a stamp or a       *)
(* horizon.                                                                *)
LEMMA OperatedTimely ==
    ASSUME Typed, Threaded, Timely, Operated, clock' = clock
    PROVE  Timely'
<1>1. PICK bound \in Nat : bound = 1000 * clock
  BY DEF Typed, ClockTyped
<1>2. /\ now_us <= bound
      /\ \A s \in Threads : thread[s].time <= bound /\ thread[s].until <= bound
      /\ \A e \in Members(event_queue) : e.time <= bound
  BY <1>1 DEF Timely
<1> DEFINE Result ==
      /\ now_us' <= bound
      /\ \A s \in Threads : thread'[s].time <= bound /\ thread'[s].until <= bound
      /\ \A e \in Members(event_queue)' : e.time <= bound
<1>3. 0 <= bound
  OBVIOUS
<1>4. ASSUME NEW t \in Threads, NEW f \in Frames, Transmit(t, f) PROVE Result
  <2>1. event_queue' = event_queue /\ now_us' = now_us
    BY <1>4 DEF Transmit
  <2> QED BY <1>2, <1>3, <1>4, <2>1, TransmitThread
<1>5. ASSUME NEW t \in Threads, Push(t) PROVE Result
  <2>1. now_us' = now_us
    BY <1>5 DEF Push
  <2>2. \A e \in Members(event_queue)' : e \in Members(event_queue) \/ e.time = thread[t].time
    BY <1>5, PushQueued
  <2>3. \A e \in Members(event_queue)' : e.time <= bound
    BY <1>2, <2>2
  <2> QED BY <1>2, <1>3, <1>5, <2>1, <2>3, PushThread
<1>6. ASSUME NEW t \in Threads, Pop(t) PROVE Result
  <2>1. now_us' = now_us
    BY <1>6 DEF Pop
  <2>2. \A e \in Members(event_queue)' : e \in Members(event_queue)
    BY <1>6, PopQueued
  <2>3. Head(event_queue).time <= bound
    <3>1. event_queue # <<>> /\ event_queue \in Seq(Event)
      BY <1>6, HeadIsEvent DEF Typed, QueueTyped
    <3>2. Head(event_queue) \in Members(event_queue)
      BY <3>1 DEF Members
    <3> QED BY <1>2, <3>2
  <2> QED BY <1>2, <1>6, <2>1, <2>2, <2>3, PopThread
<1>7. ASSUME NEW t \in Threads, Enter(t) PROVE Result
  <2>1. event_queue' = event_queue /\ now_us' = now_us
    BY <1>7 DEF Enter
  <2> QED BY <1>2, <1>3, <1>7, <2>1, EnterThread
<1>8. ASSUME NEW t \in Threads, PopNothing(t) PROVE Result
  <2>1. event_queue' = event_queue /\ now_us' = now_us
    BY <1>8 DEF PopNothing
  <2> QED BY <1>2, <1>8, <2>1, PopNothingThread
<1>9. ASSUME NEW t \in Threads, Execute(t) PROVE Result
  <2>1. event_queue' = event_queue /\ now_us' = thread[t].time
    BY <1>9 DEF Execute
  <2> QED BY <1>2, <1>9, <2>1, ExecuteThread
<1>10. ASSUME NEW t \in Threads, NEW n \in NodeIds, PassOver(t, n) PROVE Result
  <2>1. event_queue' = event_queue /\ now_us' = now_us
    BY <1>10 DEF PassOver
  <2> QED BY <1>2, <1>10, <2>1, PassOverThread
<1>11. ASSUME NEW t \in Threads, NEW n \in NodeIds, CopyHandler(t, n) PROVE Result
  <2>1. event_queue' = event_queue /\ now_us' = now_us
    BY <1>11 DEF CopyHandler
  <2> QED BY <1>2, <1>11, <2>1, CopyHandlerThread
<1>12. ASSUME NEW t \in Threads, CallHandler(t) PROVE Result
  <2>1. event_queue' = event_queue /\ now_us' = now_us
    BY <1>12 DEF CallHandler
  <2> QED BY <1>2, <1>12, <2>1, CallHandlerThread
<1>13. ASSUME NEW t \in Threads, Settle(t) PROVE Result
  <2>1. event_queue' = event_queue /\ now_us' = now_us
    BY <1>13 DEF Settle
  <2> QED BY <1>2, <1>3, <1>13, <2>1, SettleThread
<1>14. ASSUME NEW t \in Threads, Leave(t) PROVE Result
  <2>1. event_queue' = event_queue /\ now_us' = thread[t].until
    BY <1>14 DEF Leave
  <2> QED BY <1>2, <1>3, <1>14, <2>1, LeaveThread
<1>15. ASSUME NEW until \in Nat, until = 1000 * clock, ProcessUntil(until) PROVE Result
  <2>1. event_queue' = event_queue /\ now_us' = until /\ until = bound
    BY <1>1, <1>15 DEF ProcessUntil
  <2>2. bound <= bound
    OBVIOUS
  <2> QED BY <1>2, <1>3, <1>15, <2>1, <2>2, ProcessUntilThread
<1>16. Result
  BY <1>4, <1>5, <1>6, <1>7, <1>8, <1>9, <1>10, <1>11, <1>12, <1>13, <1>14, <1>15, Operations
<1>17. bound = 1000 * clock'
  BY <1>1
<1> QED BY <1>16, <1>17 DEF Timely

LEMMA Thousandfold ==
    ASSUME NEW x \in Nat, NEW y \in Nat, x <= y, NEW a, NEW b, a = 1000 * x, b = 1000 * y
    PROVE  a <= b
OBVIOUS

(* The clock only moves forward.                                           *)
LEMMA LaterTimely ==
    ASSUME Typed, Timely, UNCHANGED <<thread, event_queue>>,
           NEW x \in Nat, NEW d \in Nat, clock = x, clock' = x + d,
           NEW b \in Nat, b = 1000 * (x + d), now_us' = now_us \/ now_us' = b
    PROVE  Timely'
<1>d. PICK a \in Nat : a = 1000 * x
  OBVIOUS
<1>e. a <= b
  <2>1. PICK y \in Nat : y = x + d /\ x <= y
    OBVIOUS
  <2>2. b = 1000 * y
    BY <2>1
  <2> QED BY <1>d, <2>1, <2>2, Thousandfold
<1>1. a = 1000 * clock /\ b = 1000 * clock' /\ a <= b
  BY <1>d, <1>e
<1>2. /\ now_us \in Nat /\ now_us <= a
      /\ \A s \in Threads : /\ thread[s].time \in Nat /\ thread[s].until \in Nat
                            /\ thread[s].time <= a /\ thread[s].until <= a
  BY <1>1, ThreadFields DEF Typed, TimeTyped, Timely
<1>3. \A e \in Members(event_queue) : e.time \in Nat /\ e.time <= a
  BY <1>1, QueuedMembers DEF Typed, Timely, Event
<1>4. /\ now_us' <= b
      /\ \A s \in Threads : thread'[s].time <= b /\ thread'[s].until <= b
  BY <1>e, <1>1, <1>2
<1>5. \A e \in Members(event_queue)' : e.time <= b
  BY <1>1, <1>3
<1> QED BY <1>1, <1>4, <1>5 DEF Timely

LEMMA TimelyStep ==
    ASSUME Typed, Threaded, Courses, Timely, [Next]_vars
    PROVE  Timely'
<1>1. CASE build
  <2>1. PICK s \in Nat : /\ clock' = 1000 * s /\ now_us' = 1000000 * s
                         /\ phase = "configuring" /\ UNCHANGED <<thread, event_queue>>
    BY <1>1, BuildEffect DEF Built
  <2>2. clock = 0
    BY <2>1 DEF Typed, ClockTyped
  <2>3. PICK d \in Nat : d = 1000 * s
    OBVIOUS
  <2>4. PICK x \in Nat : x = 0 /\ x + d = d
    OBVIOUS
  <2>5. PICK b \in Nat : b = 1000 * d
    OBVIOUS
  <2>6. b = 1000 * (x + d) /\ b = 1000000 * s
    BY <2>3, <2>4, <2>5
  <2>7. clock = x /\ clock' = x + d /\ now_us' = b
    BY <2>1, <2>2, <2>3, <2>4, <2>6
  <2> QED BY <2>1, <2>6, <2>7, LaterTimely
<1>2. CASE TickClock
  <2>1. clock' = clock + delta_ms /\ UNCHANGED <<thread, event_queue, now_us>>
    BY <1>2 DEF TickClock, network
  <2>2. PICK x \in Nat, d \in Nat : x = clock /\ d = delta_ms
    BY Parameters DEF Typed, ClockTyped
  <2>3. clock = x /\ clock' = x + d
    BY <2>1, <2>2
  <2>4. PICK b \in Nat : b = 1000 * (x + d)
    OBVIOUS
  <2> QED BY <2>1, <2>3, <2>4, LaterTimely
<1>3. CASE clock' = clock /\ Quiet /\ ~build
  <2>1. UNCHANGED <<thread, event_queue, now_us, clock>>
    BY <1>3 DEF Quiet
  <2> QED BY <2>1 DEF Timely, Members
<1>4. CASE clock' = clock /\ Operated
  BY <1>4, OperatedTimely
<1>5. Quiet \/ Operated
  BY NetworkSteps
<1>6. clock' = clock \/ build \/ TickClock
  BY ClockStep
<1> QED BY <1>1, <1>2, <1>3, <1>4, <1>5, <1>6

-----------------------------------------------------------------------------
(* What was queued when a step began is taken before the clock moves.      *)

Moving == {"advancing", "steering", "arriving", "finishing"}

(* What each kind of step does to the backlog.                             *)
LEMMA QuietDrained ==
    ASSUME Drained, UNCHANGED <<thread, event_queue, called, backlog, clock>>,
           phase' = "draining" => phase = "draining",
           phase' \in Moving => phase \in Moving
    PROVE  Drained'
BY DEF Drained, Moving, Queued, Is

(* A thread's step within a phase.                                         *)
LEMMA ThreadDrained ==
    ASSUME Drained, UNCHANGED <<phase, backlog, clock>>, NEW t \in Threads,
           called \subseteq called', backlog \cap Queued' \subseteq backlog \cap Queued,
           \A s \in Threads : s # t => thread'[s] = thread[s],
           thread'[t].at = "stamped" => thread'[t].frame \notin backlog,
           phase = "draining" /\ t = Driver =>
              \/ thread[t].at \in {"out", "leaving"} \/ backlog \cap Queued = {}
              \/ /\ thread'[t].at \notin {"out", "leaving"}
                 /\ thread[t].at # "leaving" /\ thread'[t].until = thread[t].until
    PROVE  Drained'
<1>1. backlog' \subseteq called'
  BY DEF Drained
<1>2. \A s \in Threads : thread'[s].at = "stamped" => thread'[s].frame \notin backlog'
  BY DEF Drained, Is
<1>3. backlog \cap Queued = {} => backlog' \cap Queued' = {}
  OBVIOUS
<1>4. Driver \in Threads
  BY DEF Threads
<1>5. ASSUME phase = "draining"
      PROVE  \/ /\ thread'[Driver].at # "out" /\ thread'[Driver].at # "leaving"
                /\ thread'[Driver].until = 1000 * clock
             \/ backlog' \cap Queued' = {}
  <2>1. CASE t = Driver
    <3>1. CASE thread[t].at \in {"out", "leaving"} \/ backlog \cap Queued = {}
      BY <1>3, <1>5, <2>1, <3>1 DEF Drained, Is
    <3> QED BY <1>3, <1>5, <2>1, <3>1 DEF Drained, Is
  <2>2. CASE t # Driver
    BY <1>3, <1>4, <1>5, <2>2 DEF Drained, Is
  <2> QED BY <2>1, <2>2
<1> QED BY <1>1, <1>2, <1>3, <1>5 DEF Drained, Is

LEMMA ContinueDrained ==
    ASSUME Typed, Threaded, Whereabouts, Timely, Life, Drained, NEW t \in Threads, Continue(t),
           UNCHANGED <<phase, backlog, clock>>
    PROVE  Drained'
<1> DEFINE Result ==
      /\ called \subseteq called' /\ backlog \cap Queued' \subseteq backlog \cap Queued
      /\ \A s \in Threads : s # t => thread'[s] = thread[s]
      /\ thread'[t].at # "stamped"
      /\ phase = "draining" /\ t = Driver =>
            \/ thread[t].at \in {"out", "leaving"} \/ backlog \cap Queued = {}
            \/ /\ thread'[t].at \notin {"out", "leaving"}
               /\ thread[t].at # "leaving" /\ thread'[t].until = thread[t].until
<1>1. ASSUME event_queue' = event_queue, called' = called
      PROVE  called \subseteq called' /\ backlog \cap Queued' \subseteq backlog \cap Queued
  BY <1>1 DEF Queued
<1>2. ASSUME Push(t) PROVE Result
  <2>1. thread[t].at = "stamped" /\ called' = called
    BY <1>2 DEF Push, Is
  <2>2. Queued' = Queued \cup {thread[t].frame} /\ thread[t].frame \notin backlog
    BY <1>2, <2>1, PushQueued DEF Drained, Is
  <2>3. t = Driver => phase = "idle"
    BY <2>1 DEF Life
  <2> QED BY <1>2, <2>1, <2>2, <2>3, PushThread
<1>3. ASSUME Enter(t) PROVE Result
  <2>1. thread[t].at = "pushed" /\ called' = called /\ event_queue' = event_queue
    BY <1>3 DEF Enter, Is
  <2>2. t = Driver => phase = "idle"
    BY <2>1 DEF Life
  <2> QED BY <1>1, <1>3, <2>1, <2>2, EnterThread
<1>4. ASSUME Pop(t) PROVE Result
  <2>1. thread[t].at = "looping" /\ called' = called
    BY <1>4 DEF Pop, Is
  <2>2. Queued' \subseteq Queued
    BY <1>4, PopQueued
  <2> QED BY <1>4, <2>1, <2>2, PopThread
<1>5. ASSUME PopNothing(t) PROVE Result
  <2>1. /\ thread[t].at = "looping" /\ called' = called /\ event_queue' = event_queue
        /\ event_queue = <<>> \/ ~(Head(event_queue).time <= thread[t].until)
    BY <1>5 DEF PopNothing, Is, HasDue
  <2>2. ASSUME phase = "draining", t = Driver PROVE backlog \cap Queued = {}
    <3>1. CASE event_queue = <<>>
      BY <2>1, <3>1 DEF Queued
    <3>2. CASE event_queue # <<>>
      <4>1. event_queue \in Seq(Event)
        BY DEF Typed, QueueTyped
      <4>2. Head(event_queue) \in Members(event_queue)
        BY <3>2, <4>1 DEF Members
      <4>3. Head(event_queue).time <= 1000 * clock
        BY <4>2 DEF Timely
      <4>4. thread[Driver].until # 1000 * clock
        BY <2>1, <2>2, <3>2, <4>3
      <4> QED BY <2>2, <4>4 DEF Drained
    <3> QED BY <3>1, <3>2
  <2> QED BY <1>1, <1>5, <2>1, <2>2, PopNothingThread
<1>6. ASSUME Execute(t) PROVE Result
  <2>1. thread[t].at = "popped" /\ called' = called /\ event_queue' = event_queue
    BY <1>6 DEF Execute, Is
  <2> QED BY <1>1, <1>6, <2>1, ExecuteThread
<1>7. ASSUME NEW n \in NodeIds, PassOver(t, n) PROVE Result
  <2>1. thread[t].at = "delivering" /\ called' = called /\ event_queue' = event_queue
    BY <1>7 DEF PassOver, Is
  <2> QED BY <1>1, <1>7, <2>1, PassOverThread
<1>8. ASSUME NEW n \in NodeIds, CopyHandler(t, n) PROVE Result
  <2>1. thread[t].at = "delivering" /\ called' = called /\ event_queue' = event_queue
    BY <1>8 DEF CopyHandler, Is
  <2> QED BY <1>1, <1>8, <2>1, CopyHandlerThread
<1>9. ASSUME CallHandler(t) PROVE Result
  <2>1. thread[t].at = "calling" /\ called' = called /\ event_queue' = event_queue
    BY <1>9 DEF CallHandler, Is
  <2> QED BY <1>1, <1>9, <2>1, CallHandlerThread
<1>10. ASSUME Settle(t) PROVE Result
  <2>1. thread[t].at = "delivering" /\ called' = called /\ event_queue' = event_queue
    BY <1>10 DEF Settle, Is
  <2> QED BY <1>1, <1>10, <2>1, SettleThread
<1>11. ASSUME Leave(t) PROVE Result
  <2>1. thread[t].at = "leaving" /\ called' = called /\ event_queue' = event_queue
    BY <1>11 DEF Leave, Is
  <2> QED BY <1>1, <1>11, <2>1, LeaveThread
<1>12. Result
  BY <1>2, <1>3, <1>4, <1>5, <1>6, <1>7, <1>8, <1>9, <1>10, <1>11 DEF Continue
<1> QED BY <1>12, ThreadDrained

LEMMA SendDrained ==
    ASSUME Typed, Threaded, Drained, NEW t \in Threads, NEW f \in Frames, Transmit(t, f),
           UNCHANGED <<phase, backlog, clock>>
    PROVE  Drained'
<1>1. /\ thread[t].at = "out" /\ f \notin called /\ called' = called \cup {f}
      /\ event_queue' = event_queue
  BY DEF Transmit, Is
<1>2. called \subseteq called' /\ backlog \cap Queued' \subseteq backlog \cap Queued
  BY <1>1 DEF Queued
<1>3. f \notin backlog
  BY <1>1 DEF Drained
<1>4. \A s \in Threads : s # t => thread'[s] = thread[s]
  BY TransmitThread
<1>5. thread'[t].frame = f
  BY TransmitThread
<1> QED BY <1>1, <1>2, <1>3, <1>4, <1>5, ThreadDrained

LEMMA BeginDrained ==
    ASSUME Typed, Whereabouts, NEW d \in Nat, BeginStep(d)
    PROVE  Drained'
<1>1. PICK until \in Nat : until = 1000 * clock
  BY DEF Typed, ClockTyped
<1>2. /\ ProcessUntil(until) /\ phase' = "draining" /\ backlog' = Queued /\ clock' = clock
      /\ UNCHANGED <<event_queue, called>>
  BY <1>1 DEF BeginStep, ProcessUntil
<1>3. /\ \A s \in Threads : s # Driver => thread'[s] = thread[s]
      /\ thread'[Driver].at = "looping" /\ thread'[Driver].until = until
  BY <1>2, ProcessUntilThread
<1>4. backlog' \subseteq called'
  BY <1>2 DEF Whereabouts
<1>5. ASSUME NEW s \in Threads, thread'[s].at = "stamped" PROVE thread'[s].frame \notin backlog'
  <2>1. thread'[s] = thread[s]
    BY <1>3, <1>5
  <2>2. thread[s].frame = NoFrame \/ thread[s].frame \notin Queued
    BY DEF Whereabouts
  <2>3. Queued \subseteq Frames
    BY QueuedMembers DEF Typed, Event
  <2> QED BY <1>2, <2>1, <2>2, <2>3, Parameters
<1>6. /\ thread'[Driver].at # "out" /\ thread'[Driver].at # "leaving"
      /\ thread'[Driver].until = 1000 * clock'
  BY <1>1, <1>2, <1>3
<1> QED BY <1>2, <1>4, <1>5, <1>6 DEF Drained, Is

LEMMA FinishDrained ==
    ASSUME Typed, Drained, FinishStep
    PROVE  Drained'
<1>1. PICK until \in Nat : until = 1000 * clock
  BY DEF Typed, ClockTyped
<1>2. /\ ProcessUntil(until) /\ phase = "arriving" /\ phase' = "finishing"
      /\ UNCHANGED <<event_queue, called, backlog>>
  BY <1>1 DEF FinishStep, ProcessUntil, scenario
<1>3. /\ \A s \in Threads : s # Driver => thread'[s] = thread[s]
      /\ thread'[Driver].at = "looping"
  BY <1>2, ProcessUntilThread
<1>4. Queued' = Queued
  BY <1>2 DEF Queued
<1>5. \A s \in Threads : thread'[s].at = "stamped" => thread'[s].frame \notin backlog'
  BY <1>2, <1>3 DEF Drained, Is
<1> QED BY <1>2, <1>4, <1>5 DEF Drained, Is

LEMMA TickDrained ==
    ASSUME Drained, TickClock
    PROVE  Drained'
<1>1. /\ phase = "draining" /\ thread[Driver].at = "out" /\ phase' = "advancing"
      /\ UNCHANGED <<thread, event_queue, called, backlog>>
  BY DEF TickClock, Is, network
<1>2. Queued' = Queued /\ backlog \cap Queued = {}
  BY <1>1 DEF Queued, Drained, Is
<1> QED BY <1>1, <1>2 DEF Drained, Is

LEMMA EndDrained ==
    ASSUME EndStep
    PROVE  Drained'
BY DEF EndStep, Drained

LEMMA DrainedStep ==
    ASSUME Typed, Threaded, Whereabouts, Courses, Timely, Life, Drained, [Next]_vars
    PROVE  Drained'
<1>0. ScenarioTyped
  BY DEF Typed, ScenarioTyped
<1>1. CASE Setting
  BY <1>1, QuietDrained DEF Setting, network, scenario, Moving
<1>2. CASE build
  <2>1. /\ phase = "configuring" /\ phase' = "idle"
        /\ UNCHANGED <<thread, event_queue, called, backlog>>
    BY <1>2, BuildEffect DEF Built
  <2> QED BY <2>1 DEF Drained, Is
<1>3. CASE UNCHANGED vars \/ resetMetrics
  <2>1. UNCHANGED <<thread, event_queue, called, backlog, clock, phase>>
    BY <1>3 DEF resetMetrics, vars, network, scenario
  <2> QED BY <2>1, QuietDrained
<1>4. CASE BeginStart \/ BeginStop \/ BeginDestroy
  <2>1. /\ UNCHANGED <<thread, event_queue, called, backlog, clock>>
        /\ phase' \in {"starting", "stopping", "closing", "destroying"}
    BY <1>4 DEF BeginStart, BeginStop, BeginDestroy, network, scenario
  <2> QED BY <2>1, QuietDrained DEF Moving
<1>5. ASSUME NEW n \in Ids,
             StartManager(n) \/ TellManager(n) \/ JoinManager(n) \/ DropHandler(n) \/ FreeManager(n)
      PROVE  Drained'
  <2>1. phase' \in {"idle", "starting", "stopping", "closing", "destroying"}
    BY <1>0, <1>5, ManagerSteps
  <2>2. UNCHANGED <<thread, event_queue, called, backlog, clock>>
    BY <1>5 DEF StartManager, TellManager, JoinManager, DropHandler, FreeManager, network
  <2> QED BY <2>1, <2>2, QuietDrained DEF Moving
<1>6. ASSUME NEW n \in Ids, FreeLink(n) PROVE Drained'
  <2>1. phase' \in {"destroying", "gone"}
    BY <1>0, <1>6, FreeLinkEffect
  <2>2. UNCHANGED <<thread, event_queue, called, backlog, clock>>
    BY <1>6 DEF FreeLink
  <2> QED BY <2>1, <2>2, QuietDrained DEF Moving
<1>7. ASSUME NEW n \in Ids, AdvanceNode(n) \/ SteerNode(n) PROVE Drained'
  <2>1. /\ UNCHANGED <<thread, event_queue, called, backlog, clock>>
        /\ phase \in {"advancing", "steering"} /\ phase' \in {"advancing", "steering", "arriving"}
    BY <1>7 DEF AdvanceNode, SteerNode, Reach, network
  <2> QED BY <2>1, QuietDrained DEF Moving
<1>8. ASSUME NEW f \in Frames, SendByDriver(f) \/ SendByManager(f) PROVE Drained'
  <2>1. Driver \in Threads /\ Source[f] \in Threads
    BY Parameters DEF Threads
  <2>2. PICK t \in Threads : Transmit(t, f)
    BY <1>8, <2>1 DEF SendByDriver, SendByManager
  <2>3. UNCHANGED <<phase, backlog, clock>>
    BY <1>8 DEF SendByDriver, SendByManager, scenario
  <2> QED BY <2>2, <2>3, SendDrained
<1>9. ASSUME NEW t \in Threads, Work(t) PROVE Drained'
  <2>1. Continue(t) /\ UNCHANGED <<phase, backlog, clock>>
    BY <1>9 DEF Work, scenario
  <2> QED BY <2>1, ContinueDrained
<1> QED
  BY <1>1, <1>2, <1>3, <1>4, <1>5, <1>6, <1>7, <1>8, <1>9, NextSteps, BeginDrained,
     FinishDrained, TickDrained, EndDrained

-----------------------------------------------------------------------------
(* The inductive invariant.                                                *)

ScenarioInv ==
    /\ Typed /\ Threaded
    /\ Whereabouts /\ Unserved /\ AttemptsCounted
    /\ Life /\ Timely /\ Drained
    /\ Clocks /\ Travels /\ Courses

(* The inductive invariant holds at first, and every step keeps it.        *)
LEMMA InitInv ==
    ASSUME Init
    PROVE  ScenarioInv
<1>1. /\ thread = [t \in Threads |-> Out] /\ event_queue = <<>> /\ now_us = 0
      /\ nodes = {} /\ handler = {} /\ attempts = 0 /\ outcomes = 0 /\ called = {}
      /\ handed = [f \in Frames |-> [n \in NodeIds |-> 0]]
      /\ phase = "configuring" /\ delta_ms = 0 /\ todo = {} /\ clock = 0
      /\ runtime = <<>> /\ started = FALSE /\ backlog = {} /\ carried = 0 /\ leg = <<>>
  BY DEF Init, NetworkInit
<1>2. Ids = {} /\ DOMAIN leg = {} /\ Queued = {} /\ Members(event_queue) = {}
  BY <1>1 DEF Ids, Queued, Members
<1>3. /\ \A t \in Threads : /\ thread[t] \in ThreadState
                            /\ thread[t].at = "out" /\ thread[t].frame = NoFrame
                            /\ thread[t].time = 0 /\ thread[t].until = 0
                            /\ thread[t].left = {} /\ thread[t].to = Driver
      /\ Driver \in Threads /\ NodeIds \subseteq Threads
  BY <1>1, OutState DEF Threads
<1>4. \A t \in Threads : Held(t) = {}
  BY <1>3 DEF Held
<1>5. Typed
  <2>1. ThreadsTyped
    BY <1>1, <1>3 DEF ThreadsTyped
  <2>2. QueueTyped
    BY <1>1 DEF QueueTyped
  <2>3. CountsTyped /\ TimeTyped
    BY <1>1 DEF CountsTyped, TimeTyped
  <2>4. HistoriesTyped
    BY <1>1, FS_EmptySet DEF HistoriesTyped
  <2>5. ClockTyped
    BY <1>1, Parameters DEF ClockTyped
  <2>6. NodesTyped
    BY <1>1, <1>2 DEF NodesTyped
  <2>7. LoopsTyped
    BY <1>1, <1>2 DEF LoopsTyped, Phases
  <2> QED BY <2>1, <2>2, <2>3, <2>4, <2>5, <2>6, <2>7 DEF Typed
<1>6. Threaded
  BY <1>3 DEF Threaded, Empty
<1>7. Whereabouts
  BY <1>1, <1>2, <1>3 DEF Whereabouts, Separate
<1>8. Unserved
  <2>1. HandedOnce
    BY <1>1 DEF HandedOnce
  <2>2. \A t \in Threads : UnservedBy(t)
    BY <1>3, <1>4 DEF UnservedBy
  <2> QED BY <1>1, <2>1, <2>2 DEF Unserved
<1>9. AttemptsCounted
  <2>1. InHand \cup Queued = {}
    BY <1>2, <1>3 DEF InHand
  <2> QED BY <1>1, <2>1, FS_EmptySet DEF AttemptsCounted
<1>10. Life
  BY <1>1, <1>2, <1>3, <1>4 DEF Life, Is
<1>11. Timely
  BY <1>1, <1>2, <1>3 DEF Timely
<1>12. Drained
  BY <1>1, <1>3 DEF Drained, Is
<1>13. Clocks /\ Travels /\ Courses
  BY <1>2 DEF Clocks, Travels, Courses
<1> QED
  BY <1>5, <1>6, <1>7, <1>8, <1>9, <1>10, <1>11, <1>12, <1>13 DEF ScenarioInv

LEMMA StepInv ==
    ASSUME ScenarioInv, [Next]_vars
    PROVE  ScenarioInv'
<1>1. /\ Typed /\ Threaded /\ Whereabouts /\ Unserved /\ AttemptsCounted
      /\ Life /\ Timely /\ Drained /\ Clocks /\ Travels /\ Courses
  BY DEF ScenarioInv
<1>2. Quiet \/ (Operated /\ carried' = carried)
  BY <1>1, NetworkSteps
<1>3. Typed' /\ Threaded'
  BY <1>1, TypesStep
<1>4. Whereabouts'
  BY <1>1, <1>2, WhereaboutsStep
<1>5. Unserved'
  BY <1>1, <1>2, UnservedStep
<1>6. AttemptsCounted'
  BY <1>1, <1>2, CountedStep
<1>7. Life'
  BY <1>1, LifeStep
<1>8. Timely'
  BY <1>1, TimelyStep
<1>9. Drained'
  BY <1>1, DrainedStep
<1>10. Clocks' /\ Travels' /\ Courses'
  BY <1>1, MovesStep
<1> QED BY <1>3, <1>4, <1>5, <1>6, <1>7, <1>8, <1>9, <1>10 DEF ScenarioInv

(* The invariant holds in every state: the theorems below follow from it.  *)
THEOREM ScenarioInvariant == Spec => []ScenarioInv
<1>1. Init => ScenarioInv
  BY InitInv
<1>2. ScenarioInv /\ [Next]_vars => ScenarioInv'
  BY StepInv
<1> QED BY <1>1, <1>2, PTL DEF Spec

(* The scenario, the network and the links agree on the nodes there are,   *)
(* from the constructor to the last unregisterNode of the destructor.      *)
THEOREM TypeCorrect == Spec => []TypeOK
<1>1. ScenarioInv => TypeOK
  <2> SUFFICES ASSUME ScenarioInv PROVE TypeOK
    OBVIOUS
  <2>1. /\ phase \in Phases /\ nodes = Ids /\ handler \subseteq Ids /\ todo \subseteq Ids
        /\ clock \in 0 .. MaxTime
    BY DEF ScenarioInv, Typed, LoopsTyped, NodesTyped, ClockTyped, Life
  <2>2. \A t \in Threads : thread[t].left \subseteq NodeIds /\ thread[t].to \in NodeIds \cup {Driver}
    BY ThreadFields DEF ScenarioInv, Typed
  <2>3. ASSUME NEW n \in Ids
        PROVE  runtime[n].next_waypoint_idx \in 0 .. Len(runtime[n].waypoints)
    <3>1. runtime[n] \in Runtime /\ runtime[n].next_waypoint_idx <= Len(runtime[n].waypoints)
      BY DEF ScenarioInv, Typed, NodesTyped
    <3>2. runtime[n].next_waypoint_idx \in Nat /\ Len(runtime[n].waypoints) \in Nat
      BY <3>1 DEF Runtime
    <3> QED BY <3>1, <3>2
  <2> QED BY <2>1, <2>2, <2>3 DEF TypeOK
<1> QED BY <1>1, ScenarioInvariant, PTL

(* However the threads share the event queue, a frame is handed to a node  *)
(* once at most and never to its sender (transmit, processUntil).          *)
THEOREM FramesAreHandedOnce == Spec => []HandedOnce
<1>1. ScenarioInv => HandedOnce
  BY DEF ScenarioInv, Unserved
<1> QED BY <1>1, ScenarioInvariant, PTL

(* No attempt is lost or counted twice: each has been reported as an       *)
(* outcome, or is in the queue or with one thread, though the counters may *)
(* be reset in between (onTxAttempt, onTxOutcome, resetMetrics).           *)
THEOREM AttemptsAreCounted == Spec => []AttemptsCounted
<1>1. ScenarioInv => AttemptsCounted
  BY DEF ScenarioInv
<1> QED BY <1>1, ScenarioInvariant, PTL

(* The copy of a handler that deliverFromNetwork calls without a lock is   *)
(* that of a manager that is still there, and so is the link it came from. *)
THEOREM NothingDangles == Spec => []NoDangling
<1>1. ScenarioInv => NoDangling
  <2> SUFFICES ASSUME ScenarioInv, NEW t \in Threads
               PROVE  /\ Held(t) \subseteq Ids
                      /\ Is(t, "calling") => runtime[thread[t].to].manager # "freed"
                      /\ t \in NodeIds /\ ~Is(t, "out") =>
                            t \in Ids /\ runtime[t].manager # "freed"
    BY DEF NoDangling
  <2>1. Typed /\ Threaded /\ Life
    BY DEF ScenarioInv
  <2>2. Held(t) \subseteq Ids
    BY <2>1 DEF Life
  <2>3. ASSUME Is(t, "calling") PROVE runtime[thread[t].to].manager # "freed"
    <3>1. thread[t].to \in Ids
      BY <2>1, <2>2, <2>3 DEF Threaded, Held, Is
    <3>2. phase # "destroying"
      BY <2>1, <2>3, DestroyingAlone DEF Is
    <3> QED BY <2>1, <3>1, <3>2 DEF Life
  <2>4. ASSUME t \in NodeIds, ~Is(t, "out") PROVE t \in Ids /\ runtime[t].manager # "freed"
    BY <2>1, <2>4 DEF Life
  <2> QED BY <2>2, <2>3, <2>4
<1> QED BY <1>1, ScenarioInvariant, PTL

(* What was queued when a step began is taken before the clock moves, and  *)
(* no event is ahead of it, though the threads of the nodes set the        *)
(* network's time back (transmit, processUntil, step).                     *)
THEOREM StepsDrain == Spec => []NothingLeftBehind
<1>1. ScenarioInv => NothingLeftBehind
  <2> SUFFICES ASSUME ScenarioInv PROVE NothingLeftBehind
    OBVIOUS
  <2>1. QueueTyped /\ Timely /\ Drained
    BY DEF ScenarioInv, Typed
  <2>2. \A i \in DOMAIN event_queue : event_queue[i].time <= 1000 * clock
    BY <2>1, QueuedMembers DEF Timely, Members
  <2> QED BY <2>1, <2>2 DEF Drained, NothingLeftBehind
<1> QED BY <1>1, ScenarioInvariant, PTL

(* Between two calls every node's own time is less than a second behind    *)
(* the clock, however many steps and waypoints there were (advance,        *)
(* applyDueWaypoints).                                                     *)
THEOREM NodesKeepTime == Spec => []NodeClocks
<1>1. ScenarioInv => NodeClocks
  <2> SUFFICES ASSUME ScenarioInv, Ready, NEW n \in Ids
               PROVE  clock - LocalMs(runtime[n].location) \in 0 .. 999
    BY Zenon DEF NodeClocks
  <2>1. Moved_to(n) = clock
    BY DEF Ready, Moved_to
  <2>2. OnTime(Moved_to(n), runtime[n].location)
    BY Zenon DEF ScenarioInv, Clocks
  <2>3. OnTime(clock, runtime[n].location)
    BY <2>1, <2>2, Zenon
  <2> QED BY <2>3 DEF OnTime, UnderASecond
<1> QED BY <1>1, ScenarioInvariant, PTL

(* How far a node is off the way north that its speed takes it: at most a  *)
(* truncated centimetre and half a unit of latitude for each step it has   *)
(* moved at that speed, however long the steps and however fast the node   *)
(* (advance).                                                              *)
THEOREM TravelErrorIsBounded == Spec => []TravelBounded
<1>1. ScenarioInv => TravelBounded
  <2> SUFFICES ASSUME ScenarioInv, Ready, NEW n \in Ids,
                      NEW at, at = runtime[n].location, NEW c, c = Cosine[at.heading_cdeg],
                      NEW l, l = leg[n]
               PROVE  c * at.speed_cm_s * (clock - l.since) - North(at.moved_lat)
                        \in l.steps * LeastGap(c) .. l.steps * MostGap(c)
    BY Zenon DEF TravelBounded
  <2>1. Moved_to(n) = clock
    BY DEF Ready, Moved_to
  <2>i. Travels
    BY Zenon DEF ScenarioInv
  <2>2. OnTrack(Moved_to(n), at, l)
    BY <2>i, Zenon DEF Travels
  <2>3. OnTrack(clock, at, l)
    BY <2>1, <2>2, Zenon
  <2> QED BY <2>3, Zenon DEF OnTrack, Short, Way, Within
<1> QED BY <1>1, ScenarioInvariant, PTL

(* Between two calls a node moves by the last waypoint that is due, or as  *)
(* it was configured when none is (applyDueWaypoints), in whichever order  *)
(* std::sort left those of one time.                                       *)
THEOREM WaypointsAreFollowed == Spec => []WaypointInForce
<1>1. ScenarioInv => WaypointInForce
  <2> SUFFICES ASSUME ScenarioInv, Ready, NEW n \in Ids
               PROVE  LET node == runtime[n]
                          due == {i \in DOMAIN node.waypoints :
                                     node.waypoints[i].at_s <= Seconds(clock)}
                          force == IF due = {} THEN node.device
                                   ELSE node.waypoints[node.next_waypoint_idx]
                      IN  /\ node.next_waypoint_idx = Cardinality(due)
                          /\ \A i \in due : due # {} => node.waypoints[i].at_s <= force.at_s
                          /\ node.location.lat = force.lat /\ node.location.lon = force.lon
                          /\ node.location.speed_cm_s = force.speed_cm_s
                          /\ node.location.heading_cdeg = force.heading_cdeg
    BY DEF WaypointInForce
  <2>0. PICK s : s = Seconds(clock)
    OBVIOUS
  <2>1. PICK node \in Runtime : node = runtime[n]
    BY DEF ScenarioInv, Typed, NodesTyped
  <2>2. Follows(node, s)
    BY <2>0, <2>1 DEF ScenarioInv, Courses, Steered_to, Ready
  <2>3. PICK k \in Nat : k = node.next_waypoint_idx /\ k <= Len(node.waypoints)
    BY <2>1 DEF ScenarioInv, Typed, NodesTyped, Runtime
  <2>4. node.waypoints \in Seq(WaypointConfig)
    BY DEF Runtime
  <2>5. PICK due : due = {i \in DOMAIN node.waypoints : node.waypoints[i].at_s <= s}
    OBVIOUS
  <2>6. due = 1 .. k
    BY <2>2, <2>3, <2>4, <2>5 DEF Follows, Past
  <2>7. Cardinality(due) = k /\ (due = {} <=> k = 0)
    BY <2>6, FS_Interval
  <2>8. PICK force : force = IF due = {} THEN node.device ELSE node.waypoints[k]
    OBVIOUS
  <2>9. /\ node.location.lat = force.lat /\ node.location.lon = force.lon
        /\ node.location.speed_cm_s = force.speed_cm_s
        /\ node.location.heading_cdeg = force.heading_cdeg
    BY <2>2, <2>3, <2>7, <2>8 DEF Follows, OnCourse
  <2>10. ASSUME NEW i \in due PROVE node.waypoints[i].at_s <= force.at_s
    <3>1. i \in 1 .. k /\ k \in 1 .. Len(node.waypoints) /\ force = node.waypoints[k]
      BY <2>3, <2>6, <2>7, <2>8, <2>10
    <3>2. CASE i < k
      BY <2>2, <2>3, <3>1, <3>2 DEF Follows, Sorted
    <3>3. CASE i = k
      <4>1. force \in WaypointConfig
        BY <2>4, <3>1
      <4>2. PICK a \in Nat : a = force.at_s
        BY <4>1 DEF WaypointConfig
      <4> QED BY <3>1, <3>3, <4>2
    <3> QED BY <3>1, <3>2, <3>3
  <2>11. /\ k = Cardinality(due)
         /\ \A i \in due : due # {} => node.waypoints[i].at_s <= force.at_s
    BY <2>7, <2>10, Zenon
  <2> QED BY <2>0, <2>1, <2>3, <2>5, <2>8, <2>9, <2>11, Zenon
<1> QED BY <1>1, ScenarioInvariant, PTL
=============================================================================
