----------------------------- MODULE ClusterLog -----------------------------
(***************************************************************************)
(* The log stream of a cluster: GET /ws/.../clusters/{name}/logs.           *)
(*                                                                          *)
(* GetClusterLog runs an informer on the Events of the cluster's namespace  *)
(* and writes those the BKE controller annotated to the websocket.  An      *)
(* event annotated as complete ends the stream, unless it belongs to the    *)
(* history the informer lists first.  Four goroutines share the stop        *)
(* channel and the flag cacheSynced:                                        *)
(*   - the reflector lists and watches the API server and fills a queue;    *)
(*   - the process loop pops the queue and calls AddFunc and UpdateFunc;    *)
(*   - the syncer waits for the informer to have synced and sets the flag;  *)
(*   - the request's own waits for the informer to stop, then closes the    *)
(*     connection.                                                          *)
(* The informer is client-go's, modelled from how cluster.go uses it: its   *)
(* queue holds an event once, an event it knows already is an update, and   *)
(* HasSynced holds when everything of the first list has been handled.      *)
(***************************************************************************)
EXTENDS Naturals, Sequences, FiniteSets, SequencesExt

CONSTANTS
    Events,     \* the Events of the namespace
    Kind,       \* what their annotations say
    MaxBreaks,  \* bound: how often the watch is lost
    MaxRepeats  \* bound: how often an existing Event is updated

Kinds == {"plain", "log", "finish"}
ASSUME KindAssumption == Kind \in [Events -> Kinds]
ASSUME BoundsAssumption == MaxBreaks \in Nat /\ MaxRepeats \in Nat

VARIABLES
    server,     \* the Events that exist
    wire,       \* watch notifications on their way to the reflector
    reflector,  \* "start", "watch", "down" or "stopped"
    queue,      \* Events the process loop has still to handle
    store,      \* Events it has handled
    listed,     \* the Events of the first list
    owed,       \* how many of them are still to be popped
    cacheSynced,
    syncer,     \* "waiting" or "gone"
    stop,       \* the stop channel is closed
    loop,       \* "running" or "ended"
    conn,       \* "open" or "closed"
    client,     \* "there" or "gone"
    sent,       \* the Events written to the client, in order
    breaks, repeats

informer == <<wire, reflector, queue, store, listed, owed, loop>>
control == <<cacheSynced, syncer, stop>>
socket == <<conn, client, sent>>
world == <<server, breaks, repeats>>
vars == <<informer, control, socket, world>>

Init ==
    /\ server \in SUBSET Events /\ IsFiniteSet(server)
    /\ wire = <<>> /\ reflector = "start" /\ queue = <<>> /\ store = {}
    /\ listed = {} /\ owed = 0 /\ loop = "running"
    /\ cacheSynced = FALSE /\ syncer = "waiting" /\ stop = FALSE
    /\ conn = "open" /\ client = "there" /\ sent = <<>>
    /\ breaks = 0 /\ repeats = 0

-----------------------------------------------------------------------------
(* The cluster, the network and the client.                                 *)

Notify(e) == wire' = IF reflector = "watch" THEN Append(wire, e) ELSE wire

(* The BKE controller records an Event. *)
Emit(e) ==
    /\ e \notin server
    /\ server' = server \cup {e}
    /\ Notify(e)
    /\ UNCHANGED <<reflector, queue, store, listed, owed, loop, control, socket,
                   breaks, repeats>>

(* It records it again: the count of the Event grows. *)
Repeat(e) ==
    /\ e \in server /\ repeats < MaxRepeats
    /\ repeats' = repeats + 1
    /\ Notify(e)
    /\ UNCHANGED <<reflector, queue, store, listed, owed, loop, control, socket,
                   server, breaks>>

(* The watch is lost, with the notifications on it. *)
Break ==
    /\ reflector = "watch" /\ breaks < MaxBreaks
    /\ breaks' = breaks + 1
    /\ reflector' = "down" /\ wire' = <<>>
    /\ UNCHANGED <<queue, store, listed, owed, loop, control, socket, server, repeats>>

(* The client goes away: writes fail from now on, and nothing else happens. *)
ClientLeaves ==
    /\ client = "there" /\ client' = "gone"
    /\ UNCHANGED <<informer, control, conn, sent, world>>

-----------------------------------------------------------------------------
(* The informer.                                                            *)

(* A list, first or again, and the watch that starts where it ends.  The    *)
(* order of a list means nothing.                                           *)
List ==
    /\ reflector \in {"start", "down"}
    /\ reflector' = "watch"
    /\ \E s \in SetToSeqs(server \ ToSet(queue)) :
        /\ queue' = queue \o s
        /\ IF reflector = "start"
           THEN listed' = server /\ owed' = Len(s)
           ELSE UNCHANGED <<listed, owed>>
    /\ UNCHANGED <<wire, store, loop, control, socket, world>>

Deliver ==
    /\ reflector = "watch" /\ wire # <<>>
    /\ wire' = Tail(wire)
    /\ queue' = IF Head(wire) \in ToSet(queue) THEN queue ELSE Append(queue, Head(wire))
    /\ UNCHANGED <<reflector, store, listed, owed, loop, control, socket, world>>

(* Fault: synced as soon as the first list has come. *)
HasListed == reflector # "start"
HasSynced == reflector # "start" /\ owed = 0

ReflectorStop ==
    /\ stop /\ reflector # "stopped"
    /\ reflector' = "stopped"
    /\ UNCHANGED <<wire, queue, store, listed, owed, loop, control, socket, world>>

(* The process loop ends when the queue is closed and empty. *)
LoopEnd ==
    /\ stop /\ loop = "running" /\ queue = <<>>
    /\ loop' = "ended"
    /\ UNCHANGED <<wire, reflector, queue, store, listed, owed, control, socket, world>>

(* Fault: the count goes on below zero. *)
PopCounting ==
    /\ loop = "running" /\ queue # <<>>
    /\ queue' = Tail(queue)
    /\ store' = store \cup {Head(queue)}
    /\ owed' = owed - 1
    /\ UNCHANGED <<wire, reflector, listed, loop>>
Pop ==
    /\ loop = "running" /\ queue # <<>>
    /\ queue' = Tail(queue)
    /\ store' = store \cup {Head(queue)}
    /\ owed' = IF owed > 0 THEN owed - 1 ELSE 0
    /\ UNCHANGED <<wire, reflector, listed, loop>>

-----------------------------------------------------------------------------
(* The callbacks.                                                           *)

(* A write to a client that is gone, or to a connection that was closed,    *)
(* fails; the error is logged and the callback goes on.                     *)
Write(e) ==
    /\ sent' = IF client = "there" /\ conn = "open" THEN Append(sent, e) ELSE sent
    /\ UNCHANGED <<conn, client>>

(* A finish event closes the channel if the history is over and the channel *)
(* is open: queued events are handled after the close, too.  The check and  *)
(* the close are one step, for nobody else closes it while the loop runs.   *)
CloseStop ==
    /\ stop' = (stop \/ cacheSynced)
    /\ UNCHANGED <<cacheSynced, syncer>>
(* Faults: a write that fails ends the callback; the history is not sent.   *)
AddFuncGivesUp(e) ==
    CASE Kind[e] = "plain" -> UNCHANGED <<socket, control>>
      [] Kind[e] = "log" -> Write(e) /\ UNCHANGED control
      [] Kind[e] = "finish" -> Write(e) /\ IF client = "there" THEN CloseStop
                                                               ELSE UNCHANGED control
AddFuncSkipsHistory(e) ==
    CASE Kind[e] = "plain" \/ ~cacheSynced -> UNCHANGED <<socket, control>>
      [] Kind[e] = "log" /\ cacheSynced -> Write(e) /\ UNCHANGED control
      [] Kind[e] = "finish" /\ cacheSynced -> Write(e) /\ CloseStop

AddFunc(e) ==
    CASE Kind[e] = "plain" -> UNCHANGED <<socket, control>>
      [] Kind[e] = "log" -> Write(e) /\ UNCHANGED control
      [] Kind[e] = "finish" -> Write(e) /\ CloseStop

(* Fault: an updated event is written again. *)
UpdateFuncWrites(e) ==
    /\ IF Kind[e] = "plain" THEN UNCHANGED socket ELSE Write(e)
    /\ UNCHANGED control
UpdateFunc(e) == UNCHANGED <<socket, control>>

(* One turn of the process loop. *)
Handle ==
    /\ Pop
    /\ LET e == Head(queue) IN IF e \in store THEN UpdateFunc(e) ELSE AddFunc(e)
    /\ UNCHANGED world

-----------------------------------------------------------------------------
(* The other two goroutines of the request.                                 *)

(* WaitForCacheSync polls, and what it saw takes effect with the Store that *)
(* follows: up to a poll interval after HasSynced became true.  (It would   *)
(* give up at a stop, which nothing can close before the flag is set.)      *)
Sync ==
    /\ syncer = "waiting" /\ ~stop /\ HasSynced
    /\ cacheSynced' = TRUE
    /\ syncer' = "gone"
    /\ UNCHANGED <<informer, stop, socket, world>>

(* Fault: the request does not wait for the process loop. *)
ReturnAtStop ==
    /\ conn = "open" /\ stop
    /\ conn' = "closed"
    /\ UNCHANGED <<informer, control, client, sent, world>>

(* controller.Run returns when its goroutines have, which they only do once *)
(* stop is closed: the first deferred function finds it closed, and that of *)
(* the handler closes the connection.                                       *)
Return ==
    /\ conn = "open" /\ loop = "ended" /\ reflector = "stopped"
    /\ conn' = "closed"
    /\ UNCHANGED <<informer, control, client, sent, world>>

Next ==
    \/ \E e \in Events : Emit(e) \/ Repeat(e)
    \/ Break \/ ClientLeaves
    \/ List \/ Deliver \/ ReflectorStop \/ LoopEnd
    \/ Handle \/ Sync \/ Return

(* The goroutines run and the API server answers. *)
Fairness ==
    /\ WF_vars(List) /\ WF_vars(Deliver) /\ WF_vars(ReflectorStop)
    /\ WF_vars(LoopEnd) /\ WF_vars(Handle) /\ WF_vars(Sync) /\ WF_vars(Return)

Spec == Init /\ [][Next]_vars /\ Fairness

-----------------------------------------------------------------------------
(* PROPERTIES                                                               *)

TypeOK ==
    /\ server \in SUBSET Events /\ store \in SUBSET Events
    /\ listed \in SUBSET Events
    /\ wire \in Seq(Events) /\ queue \in Seq(Events) /\ sent \in Seq(Events)
    /\ reflector \in {"start", "watch", "down", "stopped"}
    /\ owed \in Nat
    /\ cacheSynced \in BOOLEAN /\ stop \in BOOLEAN
    /\ syncer \in {"waiting", "gone"} /\ loop \in {"running", "ended"}
    /\ conn \in {"open", "closed"} /\ client \in {"there", "gone"}
    /\ breaks \in 0..MaxBreaks /\ repeats \in 0..MaxRepeats

(* "These history events must not trigger the close of stop": the stream    *)
(* ends only after a finish event that the first list did not hold.         *)
HistoryNeverCloses ==
    stop => \E e \in store : Kind[e] = "finish" /\ e \notin listed

(* A stream that a finish event ends has shown the whole history first,     *)
(* however late in the queue that was, if its client is still there.        *)
HistoryStreamed ==
    stop /\ client = "there" =>
        \A e \in listed : Kind[e] # "plain" => e \in ToSet(sent)

(* No event is dropped between the queue and the client: what was queued    *)
(* behind the finish event is handled after stop is closed, and a write to  *)
(* a connection that is closed by then would fail with a log line.          *)
HandledIsSent ==
    client = "there" =>
        \A e \in store : Kind[e] # "plain" => e \in ToSet(sent)

(* The client gets no event twice, however often it is updated or listed.   *)
SentOnce == \A i, j \in DOMAIN sent : sent[i] = sent[j] => i = j

(* Every annotated event reaches the client, over lost watches too, unless  *)
(* the stream ends or the client leaves.                                    *)
EveryEventStreamed ==
    \A e \in Events :
        e \in server /\ Kind[e] # "plain"
            ~> e \in ToSet(sent) \/ stop \/ client = "gone"

(* A finish event not yet handled when the flag is set ends the stream,     *)
(* whether or not the client is still there.                                *)
FinishAfterSyncEnds ==
    \A e \in Events :
        Kind[e] = "finish" /\ e \in server \ store /\ cacheSynced
            ~> conn = "closed"

(* "Check whether it is complete: if complete, close the connection": a     *)
(* finish event recorded after the stream's first list ends the stream.  It *)
(* does not when it is handled before the syncer's next poll.               *)
FinishEnds ==
    \A e \in Events :
        Kind[e] = "finish" /\ e \in server \ listed /\ reflector # "start"
            ~> conn = "closed"
=============================================================================
