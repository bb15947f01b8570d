-------------------------- MODULE ClusterLogProofs --------------------------
(***************************************************************************)
(* What is proved of ClusterLog, for any number of Events, recorded and     *)
(* updated in any order, and any number of lost watches: its typing, what   *)
(* ends the stream, and what its client has been sent by then.              *)
(***************************************************************************)
EXTENDS ClusterLog, FiniteSetTheorems, FunctionTheorems, TLAPS

(* A list is finite, because the Events that exist at a time are.           *)
Typed == TypeOK /\ IsFiniteSet(server)

(* While the flag is not set yet, whatever of the first list has not been   *)
(* handled is at the head of the queue, among the events counted by owed.   *)
(* So the flag, set when none is owed, is set after the whole history.      *)
History ==
    /\ reflector = "start" => /\ queue = <<>> /\ wire = <<>> /\ owed = 0
                              /\ ~cacheSynced /\ ~stop
    /\ owed <= Len(queue)
    /\ \A e \in listed : e \in store \/ \E i \in 1..owed : queue[i] = e
    /\ cacheSynced => owed = 0
    /\ stop => cacheSynced

(* The connection outlives the process loop.                                *)
Open == loop = "running" => conn = "open"

(* What has been written has been handled, so it is not written again.      *)
Handled == \A i \in DOMAIN sent : sent[i] \in store

Inv == Typed /\ History /\ HistoryNeverCloses /\ Open /\ Handled /\ SentOnce /\ HandledIsSent

-----------------------------------------------------------------------------
(* Lists and callbacks.                                                     *)

(* A list in any order is a sequence of what is listed, all of it.          *)
LEMMA ListOfSet ==
    ASSUME NEW S, IsFiniteSet(S), NEW s \in SetToSeqs(S)
    PROVE  /\ s \in Seq(S)
           /\ \A e \in S : \E i \in 1..Len(s) : s[i] = e
<1> DEFINE n == Cardinality(S)
<1>1. n \in Nat
  BY FS_CardinalityType
<1>2. s \in [1..n -> S] /\ \A i, j \in 1..n : i # j => s[i] # s[j]
  BY DEF SetToSeqs
<1> HIDE DEF n
<1>3. s \in Seq(S) /\ Len(s) = n
  BY <1>1, <1>2
<1>4. s \in Injection(1..n, S)
  BY <1>2, Fun_IsInj
<1>5. Cardinality(1..n) = n
  BY <1>1, FS_Interval
<1>6. s \in Surjection(1..n, S)
  BY <1>4, <1>5, FS_Injection DEF n
<1> QED BY <1>3, <1>6, Fun_SurjectionProperties

(* What a callback may do: write the event, and, if it is a finish event    *)
(* and the history is over, close the channel.                              *)
LEMMA AddFuncEffect ==
    ASSUME TypeOK, NEW e \in Events, AddFunc(e)
    PROVE  /\ UNCHANGED <<conn, client, cacheSynced, syncer>>
           /\ sent' = sent \/ sent' = Append(sent, e)
           /\ client = "there" /\ conn = "open" /\ Kind[e] # "plain" => sent' = Append(sent, e)
           /\ stop' = stop \/ (Kind[e] = "finish" /\ cacheSynced /\ stop' = TRUE)
<1>1. Kind[e] \in Kinds
  BY KindAssumption
<1>2. CASE Kind[e] = "plain"
  BY <1>2 DEF AddFunc, socket, control
<1>3. CASE Kind[e] = "log"
  BY <1>3 DEF AddFunc, Write, control
<1>4. CASE Kind[e] = "finish"
  <2>1. Write(e) /\ CloseStop
    BY <1>4 DEF AddFunc
  <2>2. /\ UNCHANGED <<conn, client>>
        /\ sent' = sent \/ sent' = Append(sent, e)
        /\ client = "there" /\ conn = "open" => sent' = Append(sent, e)
    BY <2>1 DEF Write
  <2>3. UNCHANGED <<cacheSynced, syncer>> /\ stop' = (stop \/ cacheSynced)
    BY <2>1 DEF CloseStop
  <2>4. CASE cacheSynced
    <3>1. stop' = TRUE
      BY <2>3, <2>4
    <3> QED BY <1>4, <2>2, <2>3, <2>4, <3>1
  <2>5. CASE ~cacheSynced
    <3>1. stop' = stop
      BY <2>3, <2>5 DEF TypeOK
    <3> QED BY <1>4, <2>2, <2>3, <3>1
  <2> QED BY <2>4, <2>5
<1> QED BY <1>1, <1>2, <1>3, <1>4 DEF Kinds

(* One turn of the process loop: only an event that was not known yet is    *)
(* written, and only a finish event among these closes the channel.         *)
Turn(e) ==
    /\ e \in Events /\ Tail(queue) \in Seq(Events)
    /\ queue # <<>> /\ queue' = Tail(queue) /\ store' = store \cup {e}
    /\ owed' = IF owed > 0 THEN owed - 1 ELSE 0
    /\ loop = "running"
    /\ UNCHANGED <<wire, reflector, listed, loop, server, breaks, repeats>>
    /\ UNCHANGED <<conn, client, cacheSynced, syncer>>
    /\ \/ e \in store /\ UNCHANGED <<sent, stop>>
       \/ /\ e \notin store
          /\ sent' = sent \/ sent' = Append(sent, e)
          /\ client = "there" /\ conn = "open" /\ Kind[e] # "plain" => sent' = Append(sent, e)
          /\ stop' = stop \/ (Kind[e] = "finish" /\ cacheSynced /\ stop' = TRUE)
LEMMA HandleEffect ==
    ASSUME TypeOK, Handle
    PROVE  Turn(Head(queue))
<1>1. queue \in Seq(Events) /\ queue # <<>>
  BY DEF TypeOK, Handle, Pop
<1>2. Head(queue) \in Events /\ Tail(queue) \in Seq(Events)
  BY <1>1
<1>3. CASE Head(queue) \in store
  BY <1>2, <1>3 DEF Handle, Pop, UpdateFunc, socket, control, world, Turn
<1>4. CASE Head(queue) \notin store
  <2>1. AddFunc(Head(queue))
    BY <1>4 DEF Handle
  <2> HIDE DEF AddFunc
  <2> QED BY <1>2, <1>4, <2>1, AddFuncEffect DEF Handle, Pop, world, Turn
<1> QED BY <1>3, <1>4

(* What a list does to the queue.                                           *)
LEMMA ListEffect ==
    ASSUME Typed, List
    PROVE  \E s \in Seq(Events) :
              /\ \A e \in server \ ToSet(queue) : \E i \in 1..Len(s) : s[i] = e
              /\ queue' = queue \o s
              /\ IF reflector = "start"
                 THEN listed' = server /\ owed' = Len(s)
                 ELSE UNCHANGED <<listed, owed>>
<1> DEFINE S == server \ ToSet(queue)
<1>1. IsFiniteSet(S)
  BY FS_Subset DEF Typed
<1>2. PICK s \in SetToSeqs(S) :
          /\ queue' = queue \o s
          /\ IF reflector = "start"
             THEN listed' = server /\ owed' = Len(s)
             ELSE UNCHANGED <<listed, owed>>
  BY DEF List
<1> HIDE DEF S
<1>3. s \in Seq(S) /\ \A e \in S : \E i \in 1..Len(s) : s[i] = e
  BY <1>1, ListOfSet
<1>4. S \subseteq Events
  BY DEF Typed, TypeOK, S
<1>5. s \in Seq(Events)
  BY <1>3, <1>4
<1> QED BY <1>2, <1>3, <1>5 DEF S

-----------------------------------------------------------------------------
(* Typing.                                                                  *)

LEMMA TypedInit == Init => Typed
<1> SUFFICES ASSUME Init PROVE Typed
  OBVIOUS
<1>1. <<>> \in Seq(Events) /\ 0 \in 0..MaxBreaks /\ 0 \in 0..MaxRepeats
  BY BoundsAssumption
<1> QED BY <1>1 DEF Init, Typed, TypeOK

LEMMA TurnTyped ==
    ASSUME TypeOK, NEW e, Turn(e)
    PROVE  sent' \in Seq(Events) /\ stop' \in BOOLEAN
<1>1. e \in Events /\ sent \in Seq(Events) /\ stop \in BOOLEAN
  BY DEF Turn, TypeOK
<1>2. sent' = sent \/ sent' = Append(sent, e)
  BY DEF Turn
<1>3. stop' = stop \/ stop' = TRUE
  BY DEF Turn
<1>4. sent' \in Seq(Events)
  BY <1>1, <1>2
<1>5. stop' \in BOOLEAN
  BY <1>1, <1>3
<1> QED BY <1>4, <1>5

LEMMA TypedStep ==
    ASSUME Typed, [Next]_vars
    PROVE  Typed'
<1>h. Handle => Turn(Head(queue))
  BY HandleEffect DEF Typed
<1>t. Handle => sent' \in Seq(Events) /\ stop' \in BOOLEAN
  BY <1>h, TurnTyped DEF Typed
<1> USE BoundsAssumption DEF Typed, TypeOK
<1>1. ASSUME NEW e \in Events, Emit(e) \/ Repeat(e)
      PROVE  Typed'
  <2>1. wire' \in Seq(Events)
    <3>1. wire' = wire \/ wire' = Append(wire, e)
      BY <1>1 DEF Emit, Repeat, Notify
    <3> QED BY <3>1
  <2>2. IsFiniteSet(server')
    BY <1>1, FS_AddElement DEF Emit, Repeat
  <2> QED BY <1>1, <2>1, <2>2 DEF Emit, Repeat, control, socket
<1>2. CASE Break
  BY <1>2 DEF Break, control, socket
<1>3. CASE ClientLeaves
  BY <1>3 DEF ClientLeaves, informer, control, world
<1>4. CASE List
  <2>1. PICK s \in Seq(Events) :
            /\ queue' = queue \o s
            /\ IF reflector = "start"
               THEN listed' = server /\ owed' = Len(s)
               ELSE UNCHANGED <<listed, owed>>
    BY <1>4, ListEffect
  <2>2. queue' \in Seq(Events) /\ owed' \in Nat /\ listed' \in SUBSET Events
    BY <2>1
  <2> QED BY <1>4, <2>2 DEF List, control, socket, world
<1>5. CASE Deliver
  <2>1. Head(wire) \in Events /\ wire' \in Seq(Events)
    BY <1>5 DEF Deliver
  <2>2. queue' \in Seq(Events)
    BY <1>5, <2>1 DEF Deliver
  <2> QED BY <1>5, <2>1, <2>2 DEF Deliver, control, socket, world
<1>6. CASE ReflectorStop
  BY <1>6 DEF ReflectorStop, control, socket, world
<1>7. CASE LoopEnd
  BY <1>7 DEF LoopEnd, control, socket, world
<1>8. CASE Handle
  <2>1. Turn(Head(queue))
    BY <1>8, <1>h
  <2>2. owed' \in Nat /\ queue' \in Seq(Events) /\ store' \in SUBSET Events
    BY <2>1 DEF Turn
  <2> QED BY <1>8, <1>t, <2>1, <2>2 DEF Turn
<1>9. CASE Sync
  BY <1>9 DEF Sync, informer, socket, world
<1>10. CASE Return
  BY <1>10 DEF Return, informer, control, world
<1>11. CASE UNCHANGED vars
  BY <1>11 DEF vars, informer, control, socket, world
<1> QED BY <1>1, <1>2, <1>3, <1>4, <1>5, <1>6, <1>7, <1>8, <1>9, <1>10, <1>11 DEF Next

-----------------------------------------------------------------------------
(* The history.                                                             *)

LEMMA HistoryStep ==
    ASSUME Typed, History, [Next]_vars
    PROVE  History'
<1>h. Handle => Turn(Head(queue))
  BY HandleEffect DEF Typed
<1> USE DEF Typed, TypeOK, History
<1>1. ASSUME NEW e \in Events, Emit(e) \/ Repeat(e)
      PROVE  History'
  <2>1. /\ UNCHANGED <<reflector, queue, store, listed, owed, cacheSynced, stop>>
        /\ reflector # "watch" => UNCHANGED wire
    BY <1>1 DEF Emit, Repeat, Notify, control
  <2> QED BY <2>1
<1>2. CASE Break
  BY <1>2 DEF Break, control, socket
<1>3. CASE ClientLeaves
  BY <1>3 DEF ClientLeaves, informer, control, world
<1>4. CASE List
  <2>1. PICK s \in Seq(Events) :
            /\ \A e \in server \ ToSet(queue) : \E i \in 1..Len(s) : s[i] = e
            /\ queue' = queue \o s
            /\ IF reflector = "start"
               THEN listed' = server /\ owed' = Len(s)
               ELSE UNCHANGED <<listed, owed>>
    BY <1>4, ListEffect
  <2>2. reflector' = "watch" /\ UNCHANGED <<store, cacheSynced, stop>>
    BY <1>4 DEF List, control
  <2>3. CASE reflector = "start"
    <3>1. queue' = s /\ owed' = Len(s) /\ ~cacheSynced
      BY <2>1, <2>3
    <3>2. server \ ToSet(queue) = server
      BY <2>3 DEF ToSet
    <3> QED BY <2>1, <2>2, <2>3, <3>1, <3>2
  <2>4. CASE reflector # "start"
    <3>1. Len(queue') = Len(queue) + Len(s) /\ \A i \in 1..Len(queue) : queue'[i] = queue[i]
      BY <2>1
    <3> QED BY <2>1, <2>2, <2>4, <3>1
  <2> QED BY <2>3, <2>4
<1>5. CASE Deliver
  <2>1. Head(wire) \in Events
    BY <1>5 DEF Deliver
  <2>2. Len(queue') >= Len(queue) /\ \A i \in 1..Len(queue) : queue'[i] = queue[i]
    BY <1>5, <2>1 DEF Deliver
  <2>3. Len(queue') \in Nat
    BY <1>5, <2>1 DEF Deliver
  <2> QED BY <1>5, <2>2, <2>3 DEF Deliver, control
<1>6. CASE ReflectorStop
  BY <1>6 DEF ReflectorStop, control
<1>7. CASE LoopEnd
  BY <1>7 DEF LoopEnd, control
<1>8. CASE Handle
  <2>1. /\ queue # <<>> /\ queue' = Tail(queue) /\ store' = store \cup {Head(queue)}
        /\ owed' = IF owed > 0 THEN owed - 1 ELSE 0
        /\ UNCHANGED <<wire, reflector, listed, cacheSynced>>
    BY <1>8, <1>h DEF Turn
  <2>2. Len(queue') = Len(queue) - 1 /\ \A i \in 1..Len(queue) - 1 : queue'[i] = queue[i + 1]
    BY <2>1
  <2>3. reflector' # "start" /\ owed' <= Len(queue')
    BY <2>1, <2>2
  <2>4. ASSUME NEW e \in listed, e \notin store'
        PROVE  \E i \in 1..owed' : queue'[i] = e
    <3>1. PICK i \in 1..owed : queue[i] = e
      BY <2>1, <2>4
    <3>2. i # 1
      BY <2>1, <2>4, <3>1
    <3>3. i - 1 \in 1..owed' /\ queue'[i - 1] = e
      BY <2>1, <2>2, <3>1, <3>2
    <3> QED BY <3>3
  <2>5. (cacheSynced => owed' = 0) /\ UNCHANGED cacheSynced /\ (stop' => cacheSynced)
    BY <1>8, <1>h, <2>1 DEF Turn
  <2> QED BY <2>1, <2>3, <2>4, <2>5
<1>9. CASE Sync
  BY <1>9 DEF Sync, HasSynced, informer
<1>10. CASE Return
  BY <1>10 DEF Return, informer, control
<1>11. CASE UNCHANGED vars
  BY <1>11 DEF vars, informer, control
<1> QED BY <1>1, <1>2, <1>3, <1>4, <1>5, <1>6, <1>7, <1>8, <1>9, <1>10, <1>11 DEF Next

-----------------------------------------------------------------------------
(* The channel and what is sent.  Only the process loop touches either.     *)

(* A step is a turn of the process loop, or leaves the channel, what was    *)
(* sent and what was handled alone.                                         *)
LEMMA OnlyTurns ==
    ASSUME Typed, [Next]_vars
    PROVE  Turn(Head(queue)) \/ UNCHANGED <<stop, sent, store>>
<1>1. Handle => Turn(Head(queue))
  BY HandleEffect DEF Typed
<1> QED
  BY <1>1 DEF Next, Emit, Repeat, Break, ClientLeaves, List, Deliver, ReflectorStop,
              LoopEnd, Sync, Return, vars, informer, control, socket, world

(* The first list is made once.                                             *)
LEMMA ListedOnce ==
    ASSUME Typed, [Next]_vars, reflector # "start"
    PROVE  UNCHANGED listed
<1>1. Handle => Turn(Head(queue))
  BY HandleEffect DEF Typed
<1> QED
  BY <1>1 DEF Turn, Next, Emit, Repeat, Break, ClientLeaves, List, Deliver, ReflectorStop,
              LoopEnd, Sync, Return, vars, informer, control, socket, world

(* A finish event closes the channel when nothing of the history is owed    *)
(* any more: it was not known, so it is not of the history.                 *)
LEMMA HistoryKept ==
    ASSUME Typed, History, HistoryNeverCloses, [Next]_vars
    PROVE  HistoryNeverCloses'
<1> SUFFICES ASSUME stop'
             PROVE  \E e \in store' : Kind[e] = "finish" /\ e \notin listed'
  BY DEF HistoryNeverCloses
<1>0. store \subseteq store'
  BY OnlyTurns DEF Turn
<1>1. CASE stop
  <2>1. PICK e \in store : Kind[e] = "finish" /\ e \notin listed
    BY <1>1 DEF HistoryNeverCloses
  <2>2. UNCHANGED listed
    BY <1>1, ListedOnce DEF History
  <2> QED BY <1>0, <2>1, <2>2
<1>2. CASE ~stop
  <2> DEFINE e == Head(queue)
  <2>1. Turn(e) /\ stop' # stop
    BY <1>2, OnlyTurns
  <2> HIDE DEF e
  <2>2. Kind[e] = "finish" /\ cacheSynced /\ e \notin store /\ e \in store' /\ UNCHANGED listed
    BY <2>1 DEF Turn
  <2>3. e \notin listed
    BY <2>2 DEF History
  <2> QED BY <2>2, <2>3
<1> QED BY <1>1, <1>2

LEMMA OpenKept ==
    ASSUME Typed, Open, [Next]_vars
    PROVE  Open'
<1>1. Handle => Turn(Head(queue))
  BY HandleEffect DEF Typed
<1> QED
  BY <1>1 DEF Open, Typed, TypeOK, Turn, Next, Emit, Repeat, Break, ClientLeaves, List,
              Deliver, ReflectorStop, LoopEnd, Sync, Return, vars, informer, control, socket, world

(* What a turn handles it sends, because the connection is still open.      *)
LEMMA HandledSent ==
    ASSUME Typed, Open, HandledIsSent, [Next]_vars
    PROVE  HandledIsSent'
<1> SUFFICES ASSUME client' = "there", NEW e \in store', Kind[e] # "plain"
             PROVE  e \in ToSet(sent')
  BY DEF HandledIsSent
<1>1. Handle => Turn(Head(queue))
  BY HandleEffect DEF Typed
<1>2. client = "there"
  BY <1>1 DEF Turn, Next, Emit, Repeat, Break, ClientLeaves, List, Deliver, ReflectorStop,
              LoopEnd, Sync, Return, vars, informer, control, socket, world
<1>3. sent \in Seq(Events)
  BY DEF Typed, TypeOK
<1>4. CASE UNCHANGED <<sent, store>>
  BY <1>2, <1>4 DEF HandledIsSent
<1>5. CASE Turn(Head(queue))
  <2> DEFINE x == Head(queue)
  <2>1. x \in Events /\ store' = store \cup {x} /\ conn = "open"
    BY <1>5 DEF Turn, Open
  <2>2. sent' = sent \/ sent' = Append(sent, x)
    BY <1>5 DEF Turn
  <2>3. e \in store \/ (x \notin store /\ e = x)
    BY <2>1
  <2>4. x \notin store /\ e = x => sent' = Append(sent, x)
    BY <1>2, <1>5, <2>1 DEF Turn
  <2> HIDE DEF x
  <2>5. ToSet(sent) \subseteq ToSet(sent')
    BY <1>3, <2>1, <2>2 DEF ToSet
  <2>6. CASE e \in store
    BY <1>2, <2>5, <2>6 DEF HandledIsSent
  <2>7. CASE x \notin store /\ e = x
    <3>1. sent' = Append(sent, x)
      BY <2>4, <2>7
    <3>2. Len(sent) + 1 \in DOMAIN sent' /\ sent'[Len(sent) + 1] = x
      BY <1>3, <2>1, <3>1
    <3> QED BY <2>7, <3>2 DEF ToSet
  <2> QED BY <2>3, <2>6, <2>7
<1> QED BY <1>4, <1>5, OnlyTurns

(* Only an event that was not known is written, and it is known then.       *)
LEMMA SentKept ==
    ASSUME Typed, Handled, SentOnce, [Next]_vars
    PROVE  Handled' /\ SentOnce'
<1>0. store \subseteq store'
  BY OnlyTurns DEF Turn
<1>1. CASE sent' = sent
  BY <1>0, <1>1 DEF Handled, SentOnce
<1>2. CASE sent' # sent
  <2> DEFINE e == Head(queue)
             n == Len(sent)
  <2>1. e \notin store /\ e \in store' /\ sent' = Append(sent, e)
    BY <1>2, OnlyTurns DEF Turn
  <2>2. sent \in Seq(Events) /\ e \in Events
    BY <1>2, OnlyTurns DEF Turn, Typed, TypeOK
  <2> HIDE DEF e
  <2>3. /\ DOMAIN sent' = 1..(n + 1) /\ DOMAIN sent = 1..n /\ n \in Nat
        /\ sent'[n + 1] = e
        /\ \A i \in 1..n : sent'[i] = sent[i]
    BY <2>1, <2>2
  <2> HIDE DEF n
  <2>4. \A i \in 1..n : sent'[i] \in store
    BY <2>3 DEF Handled
  <2>5. Handled'
    BY <1>0, <2>1, <2>3, <2>4 DEF Handled
  <2>6. SentOnce'
    <3> SUFFICES ASSUME NEW i \in 1..(n + 1), NEW j \in 1..(n + 1), sent'[i] = sent'[j]
                 PROVE  i = j
      BY <2>3 DEF SentOnce
    <3>1. CASE i \in 1..n /\ j \in 1..n
      BY <2>3, <3>1 DEF SentOnce
    <3>2. CASE i = n + 1 \/ j = n + 1
      BY <2>1, <2>3, <2>4, <3>2
    <3> QED BY <2>3, <3>1, <3>2
  <2> QED BY <2>5, <2>6
<1> QED BY <1>1, <1>2

-----------------------------------------------------------------------------
(* THEOREMS                                                                 *)

LEMMA InvInvariant == Spec => []Inv
<1>1. Init => Inv
  <2> SUFFICES ASSUME Init PROVE Inv
    OBVIOUS
  <2>1. Len(queue) = 0 /\ DOMAIN sent = {}
    BY DEF Init
  <2> QED BY <2>1, TypedInit DEF Init, Inv, History, HistoryNeverCloses, Open, Handled, SentOnce, HandledIsSent
<1>2. Inv /\ [Next]_vars => Inv'
  BY TypedStep, HistoryStep, HistoryKept, OpenKept, SentKept, HandledSent DEF Inv
<1> QED BY <1>1, <1>2, PTL DEF Spec

(* Every variable keeps its type, the sequences that lists, watches and     *)
(* callbacks build among them.                                              *)
THEOREM TypeCorrect == Spec => []TypeOK
<1>1. Inv => TypeOK
  BY DEF Inv, Typed
<1> QED BY <1>1, InvInvariant, PTL

(* The history never ends the stream, however its events, new ones, polls   *)
(* of the syncer and lost watches interleave.                               *)
THEOREM HistoryHarmless == Spec => []HistoryNeverCloses
<1>1. Inv => HistoryNeverCloses
  BY DEF Inv
<1> QED BY <1>1, InvInvariant, PTL

(* Every annotated event that is handled reaches a client that stays, those *)
(* that are handled after the close of stop among them: the connection is   *)
(* open as long as the process loop runs.                                   *)
THEOREM NothingDropped == Spec => []HandledIsSent
<1>1. Inv => HandledIsSent
  BY DEF Inv
<1> QED BY <1>1, InvInvariant, PTL

(* No finish event cuts the history off: it has been sent in full by then.  *)
THEOREM HistoryComplete == Spec => []HistoryStreamed
<1>1. Inv => HistoryStreamed
  <2> SUFFICES ASSUME Inv, stop, client = "there", NEW e \in listed, Kind[e] # "plain"
               PROVE  e \in ToSet(sent)
    BY DEF HistoryStreamed
  <2>1. owed = 0
    BY DEF Inv, History
  <2>2. e \in store
    BY <2>1 DEF Inv, History
  <2> QED BY <2>2 DEF Inv, HandledIsSent
<1> QED BY <1>1, InvInvariant, PTL

(* No event is written twice, listed, watched or updated again as it may be.*)
THEOREM SentAtMostOnce == Spec => []SentOnce
<1>1. Inv => SentOnce
  BY DEF Inv
<1> QED BY <1>1, InvInvariant, PTL
=============================================================================
