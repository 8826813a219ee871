--------------------------- MODULE NetworkManager ---------------------------
(***************************************************************************)
(* NetworkManager (network_manager.cpp): one node's network layer.         *)
(*                                                                         *)
(*   radio       calls the RX handler with a frame         Arrive          *)
(*   RX thread   rxTaskLoop                                Rx...           *)
(*   forwarding thread  fwdTaskLoop                        Fwd...          *)
(*   senders     application threads in sendMessage        Send...         *)
(*   main        the thread that starts, stops and destroys the manager    *)
(*                                                                         *)
(* It composes the routing engine (with the duplicate filter) and the      *)
(* forwarding queue, whose actions are the calls made here.  The queue's   *)
(* clock stands still and every hold-back is 0: a relay may be sent as     *)
(* soon, or as late, as the forwarding thread comes round to it.           *)
(*                                                                         *)
(* Each frame that can arrive is a token; Header says what it carries.  A  *)
(* frame with an id of this node is a neighbour's relay of a message sent  *)
(* here, and arrives only after that message was sent.                     *)
(***************************************************************************)
EXTENDS Naturals, Sequences, FiniteSets

CONSTANTS
    Frames,         \* the frames that can arrive, one token each
    Header,         \* [Frames -> header]
    Truncated,      \* the frames shorter than a header
    Here,           \* this node's position
    Signal,         \* the [rssi, snr] of every reception
    Clock,          \* loc_.getTimestamp()
    Points, Threshold, Word,
    CacheSize,      \* cfg.duplicate_cache_size
    QueueSize,      \* cfg.forwarding_queue_size
    kMaxSlots,      \* the relay slots there are memory for
    RxDepth,        \* cfg.rx_queue_depth
    Senders,        \* application threads that call sendMessage
    NodeId,         \* link_.getNodeId()
    SeqMod,         \* 2^8 in the code: seq_ is a uint8_t
    MaxSends        \* bound on the calls of sendMessage

MessageId(s) == NodeId * 65536 + s    \* (node_id << 16) | seq
OwnIds == {MessageId(s) : s \in 0 .. SeqMod - 1}
Ids == OwnIds \cup {Header[f].id : f \in Frames}

NoFrame == "none"

ASSUME ManagerAssumption ==
    /\ NoFrame \notin Frames
    /\ Truncated \subseteq Frames
    /\ \A f \in Frames : Header[f].priority \in 0 .. 255    \* uint8_t
    /\ RxDepth \in Nat /\ QueueSize \in Nat /\ CacheSize \in Nat \ {0}
    /\ kMaxSlots \in Nat /\ QueueSize <= kMaxSlots
    /\ SeqMod \in Nat \ {0} /\ SeqMod <= 65536
    /\ NodeId \in Nat
    /\ Word \in Nat \ {0} /\ Clock \in 0 .. Word - 1
    /\ IsFiniteSet(Senders) /\ MaxSends \in Nat

VARIABLES
    main,      \* where the thread that owns the manager is
    doomed,    \* the destructor has begun
    running, started, handler,    \* running_, started_, link_'s RX handler set
    rx_queue,  \* rx_queue_
    rx, evt,   \* where the RX thread is, and the frame it works on
    listening, \* app_cb_ is set
    fwd,       \* whether the forwarding thread runs
    cache, result,                       \* routing engine
    slots, fire_buf, tickPc, fate,       \* forwarding queue
    seq,       \* seq_
    sender,    \* where each sender is, and the id of its message
    sent,      \* the calls of sendMessage that ended, in order (history)
    rxFate,    \* what became of each frame (history)
    delivered  \* how often each id was passed to the application (history)

ownerVars == <<main, doomed, running, started, handler>>
rxVars == <<rx_queue, rx, evt, rxFate>>
routeVars == <<cache, result>>
relayVars == <<slots, fire_buf, tickPc, fate>>
sendVars == <<seq, sender, sent>>
appVars == <<listening, delivered>>
vars == <<ownerVars, fwd, rxVars, routeVars, relayVars, sendVars, appVars>>

Route == INSTANCE RoutingEngine WITH
            clock <- Clock, Headers <- {Header[f] : f \in Frames},
            Capacity <- CacheSize, Places <- {Here}, Signals <- {Signal}

Relays == INSTANCE ForwardingQueue WITH
            Jobs <- Frames, Capacity <- QueueSize, Holdbacks <- {0}, MaxTime <- 0,
            pc <- tickPc, tickNow <- 0, now <- 0

RxStates == {"unborn", "loop", "wait", "checked", "blocked", "awake", "got",
             "heard", "judged", "called", "exited"}
MainStates == {"idle", "installing", "spawning", "stopping", "notified", "joining",
               "stopped"}
RxFates == {"away", "unheard", "overflow", "queued", "processing", "done"}

Init ==
    /\ main = "idle" /\ doomed = FALSE
    /\ running = TRUE /\ started = FALSE /\ handler = FALSE
    /\ rx_queue = <<>> /\ rx = "unborn" /\ evt = NoFrame
    /\ rxFate = [f \in Frames |-> "away"]
    /\ listening = FALSE
    /\ fwd = "unborn"
    /\ cache = Route!Dup!Empty /\ result = Route!NoResult
    /\ Relays!Init
    /\ seq = 0
    /\ sender = [s \in Senders |-> [pc |-> "ready"]]
    /\ sent = <<>>
    /\ delivered = [i \in Ids |-> 0]

-----------------------------------------------------------------------------
(* start(), stop() and the destructor, called by one thread, one after the *)
(* other.  main is "idle" before the first call and after start(), and     *)
(* "stopped" after stop().                                                 *)

StartExchange ==    \* a later start() returns here and changes nothing
    /\ main \in {"idle", "stopped"} /\ ~doomed
    /\ ~started
    /\ started' = TRUE /\ running' = TRUE
    /\ main' = "installing"
    /\ UNCHANGED <<doomed, handler, fwd, rxVars, routeVars, relayVars, sendVars, appVars>>

StartInstall ==
    /\ main = "installing"
    /\ handler' = TRUE
    /\ main' = "spawning"
    /\ UNCHANGED <<doomed, running, started, fwd, rxVars, routeVars, relayVars,
                   sendVars, appVars>>

StartSpawn ==
    /\ main = "spawning"
    /\ rx' = "loop" /\ fwd' = "running"
    /\ main' = "idle"
    /\ UNCHANGED <<doomed, running, started, handler, rx_queue, evt, rxFate,
                   routeVars, relayVars, sendVars, appVars>>

(* The destructor clears the handler, then calls stop(). *)
Destroy ==
    /\ main \in {"idle", "stopped"} /\ ~doomed
    /\ doomed' = TRUE /\ handler' = FALSE
    /\ main' = "idle"
    /\ UNCHANGED <<running, started, fwd, rxVars, routeVars, relayVars, sendVars, appVars>>

StopSignal ==
    /\ main = "idle" \/ (main = "stopped" /\ ~doomed)
    /\ running' = FALSE
    /\ main' = "stopping"
    /\ UNCHANGED <<doomed, started, handler, fwd, rxVars, routeVars, relayVars,
                   sendVars, appVars>>

(* rx_queue_cv_.notify_all(), without the mutex: it wakes the RX thread if *)
(* it is blocked, and is lost if it is about to be.                        *)
StopNotify ==
    /\ main = "stopping"
    /\ rx' = IF rx = "blocked" THEN "wait" ELSE rx
    /\ main' = "notified"
    /\ UNCHANGED <<doomed, running, started, handler, fwd, rx_queue, evt, rxFate,
                   routeVars, relayVars, sendVars, appVars>>

(* Mutant of StopJoinRx: stop() does not wait for the RX thread. *)
StopWithoutJoin ==
    /\ main = "notified"
    /\ main' = "joining"
    /\ UNCHANGED <<doomed, running, started, handler, fwd, rxVars, routeVars,
                   relayVars, sendVars, appVars>>

StopJoinRx ==
    /\ main = "notified"
    /\ rx \in {"unborn", "exited"}
    /\ main' = "joining"
    /\ UNCHANGED <<doomed, running, started, handler, fwd, rxVars, routeVars,
                   relayVars, sendVars, appVars>>

StopJoinFwd ==
    /\ main = "joining"
    /\ fwd \in {"unborn", "exited"}
    /\ main' = "stopped"
    /\ UNCHANGED <<doomed, running, started, handler, fwd, rxVars, routeVars,
                   relayVars, sendVars, appVars>>

Stop == StopNotify \/ StopJoinRx \/ StopJoinFwd
Owner == StartExchange \/ StartInstall \/ StartSpawn \/ Destroy \/ StopSignal \/ Stop

-----------------------------------------------------------------------------
(* The radio calls the handler.  A node that has sent nothing hears no     *)
(* relay of it; a frame that comes when no handler is set is not heard.    *)

MayArrive(f) ==
    /\ rxFate[f] = "away"
    /\ Header[f].id \in OwnIds => \E i \in 1 .. Len(sent) : sent[i] = [id |-> Header[f].id, ok |-> TRUE]

Unheard(f) ==
    /\ MayArrive(f) /\ ~handler
    /\ rxFate' = [rxFate EXCEPT ![f] = "unheard"]
    /\ UNCHANGED <<ownerVars, fwd, rx_queue, rx, evt, routeVars, relayVars,
                   sendVars, appVars>>

(* The handler needs the mutex, which the RX thread holds while it is      *)
(* about to block.                                                         *)
Arrive(f) ==
    /\ MayArrive(f) /\ handler
    /\ rx # "checked"
    /\ IF Len(rx_queue) >= RxDepth
       THEN /\ rxFate' = [rxFate EXCEPT ![f] = "overflow"]
            /\ UNCHANGED <<rx_queue, rx>>
       ELSE /\ rxFate' = [rxFate EXCEPT ![f] = "queued"]
            /\ rx_queue' = Append(rx_queue, f)
            /\ rx' = IF rx = "blocked" THEN "wait" ELSE rx    \* notify_one
    /\ UNCHANGED <<ownerVars, fwd, evt, routeVars, relayVars, sendVars, appVars>>

Radio == \E f \in Frames : Unheard(f) \/ Arrive(f)

-----------------------------------------------------------------------------
(* rxTaskLoop.                                                             *)

RxLoop ==
    /\ rx = "loop"
    /\ rx' = IF running THEN "wait" ELSE "exited"
    /\ UNCHANGED <<ownerVars, fwd, rx_queue, evt, rxFate, routeVars, relayVars,
                   sendVars, appVars>>

(* The predicate of wait_for is false: the thread, holding the mutex, is   *)
(* going to block.                                                         *)
RxCheck ==
    /\ rx = "wait"
    /\ rx_queue = <<>> /\ running
    /\ rx' = "checked"
    /\ UNCHANGED <<ownerVars, fwd, rx_queue, evt, rxFate, routeVars, relayVars,
                   sendVars, appVars>>

RxBlock ==
    /\ rx = "checked"
    /\ rx' = "blocked"
    /\ UNCHANGED <<ownerVars, fwd, rx_queue, evt, rxFate, routeVars, relayVars,
                   sendVars, appVars>>

(* Mutant of RxTimeout: wait instead of wait_for. *)
RxNoTimeout == FALSE /\ UNCHANGED vars

RxTimeout ==    \* 100 ms have passed
    /\ rx = "blocked"
    /\ rx' = "awake"
    /\ UNCHANGED <<ownerVars, fwd, rx_queue, evt, rxFate, routeVars, relayVars,
                   sendVars, appVars>>

RxEmpty ==
    /\ rx = "awake" \/ (rx = "wait" /\ ~running)
    /\ rx_queue = <<>>
    /\ rx' = "loop"
    /\ UNCHANGED <<ownerVars, fwd, rx_queue, evt, rxFate, routeVars, relayVars,
                   sendVars, appVars>>

(* Mutant of RxTake: front() without pop(). *)
RxTakeNoPop ==
    /\ rx \in {"wait", "awake"}
    /\ rx_queue # <<>>
    /\ evt' = Head(rx_queue)
    /\ rxFate' = [rxFate EXCEPT ![Head(rx_queue)] = "processing"]
    /\ rx' = "got"
    /\ UNCHANGED <<ownerVars, fwd, rx_queue, routeVars, relayVars, sendVars, appVars>>

RxTake ==
    /\ rx \in {"wait", "awake"}
    /\ rx_queue # <<>>
    /\ evt' = Head(rx_queue)
    /\ rx_queue' = Tail(rx_queue)
    /\ rxFate' = [rxFate EXCEPT ![Head(rx_queue)] = "processing"]
    /\ rx' = "got"
    /\ UNCHANGED <<ownerVars, fwd, routeVars, relayVars, sendVars, appVars>>

RxDone ==    \* the loop body ends, or continues, for the frame evt
    /\ rx' = "loop"
    /\ rxFate' = [rxFate EXCEPT ![evt] = "done"]
    /\ evt' = NoFrame

(* Mutant of RxTruncated: a short frame ends the loop. *)
RxTruncatedReturns ==
    /\ rx = "got" /\ evt \in Truncated
    /\ rx' = "exited" /\ evt' = NoFrame
    /\ rxFate' = [rxFate EXCEPT ![evt] = "done"]
    /\ UNCHANGED <<ownerVars, fwd, rx_queue, routeVars, relayVars, sendVars, appVars>>

RxTruncated ==
    /\ rx = "got" /\ evt \in Truncated
    /\ RxDone
    /\ UNCHANGED <<ownerVars, fwd, rx_queue, routeVars, relayVars, sendVars, appVars>>

(* Mutant of RxCancel: only a first copy is shown to the queue. *)
RxCancelFirstCopy ==
    /\ rx = "got" /\ evt \notin Truncated
    /\ IF Header[evt].id \in cache.ids THEN UNCHANGED relayVars
       ELSE Relays!OnDuplicateHeard(Header[evt].id, Here, Header[evt].tx)
    /\ rx' = "heard"
    /\ UNCHANGED <<ownerVars, fwd, rx_queue, evt, rxFate, routeVars, sendVars, appVars>>

RxCancel ==
    /\ rx = "got" /\ evt \notin Truncated
    /\ Relays!OnDuplicateHeard(Header[evt].id, Here, Header[evt].tx)
    /\ rx' = "heard"
    /\ UNCHANGED <<ownerVars, fwd, rx_queue, evt, rxFate, routeVars, sendVars, appVars>>

RxEvaluate ==
    /\ rx = "heard"
    /\ Route!Evaluate(Header[evt], Here, Signal)
    /\ rx' = "judged"
    /\ UNCHANGED <<ownerVars, fwd, rx_queue, evt, rxFate, relayVars, sendVars, appVars>>

RxDrop ==
    /\ rx = "judged" /\ result.verdict = "DROP"
    /\ RxDone
    /\ UNCHANGED <<ownerVars, fwd, rx_queue, routeVars, relayVars, sendVars, appVars>>

(* Copies app_cb_ under its mutex and, if it is set, calls it. *)
RxDeliver ==
    /\ rx = "judged" /\ result.verdict # "DROP"
    /\ delivered' = IF listening THEN [delivered EXCEPT ![result.id] = @ + 1]
                    ELSE delivered
    /\ rx' = "called"
    /\ UNCHANGED <<ownerVars, fwd, rx_queue, evt, rxFate, routeVars, relayVars,
                   sendVars, listening>>

RxForward ==
    /\ rx = "called"
    /\ IF result.verdict = "DELIVER_AND_FORWARD"
       THEN Relays!Enqueue(evt, 0)
       ELSE UNCHANGED relayVars
    /\ RxDone
    /\ UNCHANGED <<ownerVars, fwd, rx_queue, routeVars, sendVars, appVars>>

RxThread ==
    \/ RxLoop \/ RxCheck \/ RxBlock \/ RxTimeout \/ RxEmpty \/ RxTake \/ RxTruncated
    \/ RxCancel \/ RxEvaluate \/ RxDrop \/ RxDeliver \/ RxForward

-----------------------------------------------------------------------------
(* fwdTaskLoop.                                                            *)

FwdTick ==
    /\ fwd = "running"
    /\ tickPc = "asleep" => running
    /\ Relays!ProcessTick
    /\ UNCHANGED <<ownerVars, fwd, rxVars, routeVars, sendVars, appVars>>

(* Mutant of FwdExit: the loop ends when there is nothing to relay. *)
FwdExitIdle ==
    /\ fwd = "running"
    /\ tickPc = "asleep" /\ Relays!Active = {}
    /\ fwd' = "exited"
    /\ UNCHANGED <<ownerVars, rxVars, routeVars, relayVars, sendVars, appVars>>

FwdExit ==
    /\ fwd = "running"
    /\ tickPc = "asleep" /\ ~running
    /\ fwd' = "exited"
    /\ UNCHANGED <<ownerVars, rxVars, routeVars, relayVars, sendVars, appVars>>

FwdThread == FwdTick \/ FwdExit

-----------------------------------------------------------------------------
(* sendMessage and setAppRxCallback.  A payload that is too long is turned *)
(* away before anything changes.                                           *)

(* The threads inside sendMessage.                                         *)
Sending == {s \in Senders : sender[s].pc # "ready"}

(* Bound: MaxSends calls. *)
SendNumber(s) ==
    /\ sender[s].pc = "ready"
    /\ Len(sent) + Cardinality(Sending) < MaxSends
    /\ seq' = (seq + 1) % SeqMod
    /\ sender' = [sender EXCEPT ![s] = [pc |-> "numbered", id |-> MessageId(seq)]]
    /\ UNCHANGED <<ownerVars, fwd, rxVars, routeVars, relayVars, appVars, sent>>

(* Mutant of SendMark: the message is not marked as seen. *)
SendUnmarked(s) ==
    /\ sender[s].pc = "numbered"
    /\ sender' = [sender EXCEPT ![s] = [pc |-> "marked", id |-> sender[s].id]]
    /\ UNCHANGED <<ownerVars, fwd, rxVars, cache, result, relayVars, appVars, seq, sent>>

SendMark(s) ==    \* dup_filter_.markSeen
    /\ sender[s].pc = "numbered"
    /\ cache' = Route!Dup!Touch(cache, sender[s].id)
    /\ sender' = [sender EXCEPT ![s] = [pc |-> "marked", id |-> sender[s].id]]
    /\ UNCHANGED <<ownerVars, fwd, rxVars, result, relayVars, appVars, seq, sent>>

(* Mutant of SendLink: when link_.send fails the number is given back. *)
SendLinkGivesBack(s) ==
    /\ sender[s].pc = "marked"
    /\ \E ok \in BOOLEAN :
          /\ sent' = Append(sent, [id |-> sender[s].id, ok |-> ok])
          /\ seq' = IF ok THEN seq ELSE (seq + SeqMod - 1) % SeqMod
    /\ sender' = [sender EXCEPT ![s] = [pc |-> "ready"]]
    /\ UNCHANGED <<ownerVars, fwd, rxVars, routeVars, relayVars, appVars>>

(* link_.send; when it fails the message is lost, its number is not used   *)
(* again and its mark stays.                                               *)
SendLink(s) ==
    /\ sender[s].pc = "marked"
    /\ \E ok \in BOOLEAN : sent' = Append(sent, [id |-> sender[s].id, ok |-> ok])
    /\ sender' = [sender EXCEPT ![s] = [pc |-> "ready"]]
    /\ UNCHANGED <<ownerVars, fwd, rxVars, routeVars, relayVars, appVars, seq>>

Send == \E s \in Senders : SendNumber(s) \/ SendMark(s) \/ SendLink(s)

SetAppRxCallback ==
    /\ ~listening
    /\ listening' = TRUE
    /\ UNCHANGED <<ownerVars, fwd, rxVars, routeVars, relayVars, sendVars, delivered>>

-----------------------------------------------------------------------------

Next == Owner \/ Radio \/ RxThread \/ FwdThread \/ Send \/ SetAppRxCallback

Spec == Init /\ [][Next]_vars

(* The operating system runs both threads, the 100 ms wait ends, and the   *)
(* owner, once in start() or stop(), goes on.  Nothing makes frames        *)
(* arrive, messages be sent, or stop() be called.                          *)
FairSpec == /\ Spec
            /\ WF_vars(RxThread) /\ WF_vars(FwdThread)
            /\ WF_vars(Stop) /\ WF_vars(StartInstall \/ StartSpawn)

-----------------------------------------------------------------------------

TypeOK ==
    /\ main \in MainStates
    /\ {doomed, running, started, handler, listening} \subseteq BOOLEAN
    /\ rx_queue \in Seq(Frames) /\ Len(rx_queue) <= RxDepth
    /\ rx \in RxStates
    /\ evt \in Frames \cup {NoFrame}
    /\ rxFate \in [Frames -> RxFates]
    /\ fwd \in {"unborn", "running", "exited"}
    /\ Route!TypeOK
    /\ Relays!TypeOK
    /\ seq \in 0 .. SeqMod - 1
    /\ \A s \in Senders : /\ sender[s].pc \in {"ready", "numbered", "marked"}
                          /\ sender[s].pc # "ready" => sender[s].id \in OwnIds
    /\ sent \in Seq([id : OwnIds, ok : BOOLEAN]) /\ Len(sent) <= MaxSends
    /\ delivered \in [Ids -> Nat]

(* With room in the duplicate filter for every id about, the application   *)
(* gets each message at most once, whichever copies arrive, and never one  *)
(* of its own: sendMessage marks the id before the frame can come back     *)
(* (network_manager.cpp:116-125).                                          *)
DeliveredOnce ==
    /\ \A i \in Ids : delivered[i] <= 1
    /\ \A i \in OwnIds : delivered[i] = 0

Committed == {f \in Frames : fate[f] \in {"held", "leaving", "sent"}}

(* The node has, sends or has sent at most one relay of a message, and     *)
(* none of its own messages.                                               *)
RelayedOnce ==
    /\ \A f, g \in Committed : Header[f].id = Header[g].id => f = g
    /\ \A f \in Committed : Header[f].id \notin OwnIds

(* Whatever copies arrive, and echoes of its own frames: one delivery and  *)
(* one relay of a message at most (network_manager.cpp:116-125, 147-179).  *)
HandledOnce == DeliveredOnce /\ RelayedOnce

(* A relay that another processed copy has overtaken is not held any more: *)
(* it was cancelled, or had left the queue before the copy was processed.  *)
(* This takes the queue being shown every copy, duplicates included        *)
(* (network_manager.cpp:152), and the filter refusing the relay when the   *)
(* farther copy came first.  (The copy that brings a relay does not cancel *)
(* it, even when it was itself sent from farther away: the queue is shown  *)
(* each frame before the relay is queued.)                                 *)
OvertakenNotHeld ==
    \A f \in Frames : \A g \in Frames \ {f} :
        /\ fate[f] = "held" /\ rxFate[g] = "done" /\ g \notin Truncated
        /\ Header[f].id = Header[g].id
        => ~Relays!IsBetween(Header[f].origin, Here, Header[g].tx)

(* Each frame the handler took is in the queue once, or in the RX thread's *)
(* hands, or done with.                                                    *)
FramesAccounted ==
    /\ \A i, k \in 1 .. Len(rx_queue) : rx_queue[i] = rx_queue[k] => i = k
    /\ {rx_queue[i] : i \in 1 .. Len(rx_queue)} = {f \in Frames : rxFate[f] = "queued"}
    /\ {f \in Frames : rxFate[f] = "processing"} = {evt} \ {NoFrame}

(* Once stop() has returned, frames are neither processed nor delivered    *)
(* and nothing is relayed: both threads have been joined.                  *)
QuietAfterStop ==
    [][main = "stopped" /\ main' = "stopped" =>
          UNCHANGED <<delivered, result, relayVars, evt>>]_vars

(* stop() returns, even when its notification falls between the RX         *)
(* thread's look at running_ and its going to sleep                        *)
(* (network_manager.cpp:41-44, 138-139).                                   *)
StopReturns == main = "stopping" ~> main = "stopped"

(* A frame taken by the handler is processed, unless the node is stopped.  *)
FramesProcessed ==
    \A f \in Frames : rxFate[f] = "queued" ~> rxFate[f] = "done" \/ ~running

(* A relay accepted is sent, cancelled or evicted, unless the node is      *)
(* stopped first.                                                          *)
RelaysSettle ==
    \A f \in Frames : fate[f] = "held"
                        ~> fate[f] \in {"sent", "cancelled", "evicted"} \/ ~running

(* A message that could not be sent has used its number up: in one round   *)
(* of sequence numbers no two calls of sendMessage have one id, whether    *)
(* they ended well or failed, or are still under way in several threads    *)
(* (network_manager.cpp:98, 125).  The node's filter keeps the mark of a   *)
(* failed message, and a number given back while another thread holds the  *)
(* next one would come out twice.                                          *)
NumbersUsedUp ==
    Len(sent) + Cardinality(Sending) <= SeqMod =>
        /\ \A i, k \in 1 .. Len(sent) : sent[i].id = sent[k].id => i = k
        /\ \A s, t \in Sending : sender[s].id = sender[t].id => s = t
        /\ \A s \in Sending : \A i \in 1 .. Len(sent) : sent[i].id # sender[s].id

(* "message identity (`message_id`)" (docs/architecture.md:23): different  *)
(* messages that a node has sent have different ids.                       *)
IdsIdentify ==
    \A i, k \in 1 .. Len(sent) :
        sent[i].ok /\ sent[k].ok /\ sent[i].id = sent[k].id => i = k

=============================================================================
