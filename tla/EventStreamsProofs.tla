------------------------- MODULE EventStreamsProofs -------------------------
(***************************************************************************)
(* Proofs about EventStreams, for any number of calls, processors,         *)
(* committers and histories.                                               *)
(***************************************************************************)
EXTENDS EventStreams, SequenceTheorems, TLAPS

-----------------------------------------------------------------------------
(***************************************************************************)
(* The inductive invariant.  A wakeup is not lost because the channel of a *)
(* call is subscribed from before its first find until it returns, carries *)
(* only signals about the call's own history, and a signal is dropped only *)
(* if another one is in the channel.  The shutdown is safe because ctx is  *)
(* cancelled when every goroutine has returned.                            *)
(***************************************************************************)

\* Exactly the subscribers that have not returned are in the notifier.
SubscribedInv ==
    /\ \A s \in Subscribers :
          s \in outputs <=>
              pc[s] \in {"find", "found", "select", "unsubscribe"}
    /\ sending.todo \subseteq outputs

\* Subscribers hear and find only what they are about.
TopicInv ==
    /\ \A s \in Subscribers :
          /\ ch[s] \in Seq(Topics(s))
          /\ upd[s] \subseteq Topics(s)
          /\ s \in sending.todo => sending.topic \in Topics(s)

\* A stream subscribes with a signal in its channel.
FirstSignal ==
    \A s \in Streams : pc[s] = "subscribe" => ch[s] # << >>

\* A committer posts one commit at a time.
OnePost == \A c \in Committers : \A h, k \in post[c] : h = k

\* Nobody is left when ctx is cancelled.
ReturnedInv == level \in {"cancel", "stopped"} => AllReturned

Wakeup(s) ==
    pc[s] \in {"found", "select"} =>
        \/ seen[s][TopicOf[s]] >= posted[TopicOf[s]]
        \/ ch[s] # << >>
        \/ OnItsWay(s, TopicOf[s])

\* Only what is in the history is posted.
PostedInv == \A h \in Histories : posted[h] <= head[h]

WakeupInv == \A s \in Calls : Wakeup(s)

IInv ==
    /\ TypeOK
    /\ SubscribedInv
    /\ TopicInv
    /\ FirstSignal
    /\ OnePost
    /\ ReturnedInv
    /\ PostedInv
    /\ WakeupInv

-----------------------------------------------------------------------------
\* The topics of a subscriber are histories, and its channel has room.
LEMMA TopicsType ==
    ASSUME NEW s \in Subscribers
    PROVE  /\ Topics(s) \subseteq Histories
           /\ Cap(s) \in Nat \ {0}
           /\ s \in Calls => TopicOf[s] \in Histories /\ Topics(s) = {TopicOf[s]}
                             /\ Cap(s) = 1
BY StreamsAssumption DEF Topics, Cap, Subscribers

\* The local variables of goroutines that have just started are well typed.
LEMMA FreshType ==
    /\ Fresh.seen \in [Subscribers -> [Histories -> Nat]]
    /\ Fresh.ch = [s \in Subscribers |-> << >>]
    /\ Fresh.pc = [s \in Subscribers |->
                     IF s \in Processors THEN "subscribe" ELSE "closed"]
    /\ Fresh.upd = [s \in Subscribers |-> Topics(s)]
    /\ Fresh.post = [c \in Committers |-> {}]
    /\ \A s \in Subscribers :
          Fresh.seen[s] \in [Histories -> Nat]
BY DEF Fresh

\* A notifier that is not sending is in a well typed state.
LEMMA IdleType ==
    Idle \in [topic: Histories, todo: SUBSET Subscribers] /\ Idle.todo = {}
BY StreamsAssumption DEF Idle

\* Streams and jobs are subscribers.
LEMMA CallsSubscribe == Calls \subseteq Subscribers /\ Streams \subseteq Calls
BY DEF Calls, Subscribers

\* A process that has just started satisfies the invariant.
LEMMA InitInv == Init => IInv
<1> SUFFICES ASSUME Init PROVE IInv
  OBVIOUS
<1>1. /\ seen = Fresh.seen /\ ch = Fresh.ch /\ pc = Fresh.pc
      /\ upd = Fresh.upd /\ post = Fresh.post /\ outputs = {}
      /\ sending = Idle /\ level = "running"
      /\ head = [h \in Histories |-> 0] /\ posted = head
  BY DEF Init
<1>2. \A s \in Subscribers : ch[s] = << >> /\ upd[s] = Topics(s)
                             /\ pc[s] \in {"subscribe", "closed"}
                             /\ (s \in Calls => pc[s] = "closed")
  BY <1>1, FreshType, StreamsAssumption DEF Subscribers
<1>3. TypeOK
  <2>1. head \in [Histories -> Nat] /\ posted \in [Histories -> Nat]
    BY <1>1
  <2>2. seen \in [Subscribers -> [Histories -> Nat]]
    BY <1>1, FreshType
  <2>3. ch \in [Subscribers -> Seq(Histories)]
    BY <1>1, FreshType, EmptySeq
  <2>4. \A s \in Subscribers : Len(ch[s]) <= Cap(s)
    BY <1>2, EmptySeq, TopicsType
  <2>5. pc \in [Subscribers -> {"closed", "subscribe", "find", "found",
                                "select", "unsubscribe"}]
    BY <1>1, FreshType
  <2>6. upd \in [Subscribers -> SUBSET Histories]
    BY <1>1, FreshType, TopicsType
  <2>7. post \in [Committers -> SUBSET Histories]
    BY <1>1, FreshType
  <2> QED
    BY <1>1, <2>1, <2>2, <2>3, <2>4, <2>5, <2>6, <2>7, IdleType
    DEF TypeOK, Levels
<1>4. SubscribedInv
  BY <1>1, <1>2, IdleType DEF SubscribedInv
<1>5. TopicInv
  <2> SUFFICES ASSUME NEW s \in Subscribers
               PROVE  /\ ch[s] \in Seq(Topics(s))
                      /\ upd[s] \subseteq Topics(s)
                      /\ ~(s \in sending.todo)
    BY DEF TopicInv
  <2>1. << >> \in Seq(Topics(s))
    BY EmptySeq
  <2> QED
    BY <1>1, <1>2, <2>1, IdleType
<1>6. FirstSignal /\ WakeupInv
  BY <1>2, CallsSubscribe DEF FirstSignal, WakeupInv, Wakeup
<1>7. OnePost
  BY <1>1, FreshType DEF OnePost
<1>8. ReturnedInv
  BY <1>1 DEF ReturnedInv
<1>9. PostedInv
  <2>1. head = [h \in Histories |-> 0] /\ posted = head
    BY <1>1
  <2>2. \A h \in Histories : head[h] = 0 /\ posted[h] = 0
    BY <2>1, Zenon
  <2>3. 0 <= 0
    OBVIOUS
  <2>4. \A h \in Histories : posted[h] <= head[h]
    BY <2>2, <2>3, Zenon
  <2> QED
    BY <2>4 DEF PostedInv
<1> QED
  BY <1>3, <1>4, <1>5, <1>6, <1>7, <1>8, <1>9 DEF IInv

\* A process that exits leaves the histories and starts afresh.
LEMMA ExitInv ==
    ASSUME IInv, NEW l \in {"running", "forced"}, Exit(l)
    PROVE  IInv'
<1>1. /\ seen' = Fresh.seen /\ ch' = Fresh.ch /\ pc' = Fresh.pc
      /\ upd' = Fresh.upd /\ post' = Fresh.post /\ outputs' = {}
      /\ sending' = Idle /\ level' = l /\ posted' = head /\ head' = head
  BY DEF Exit
<1>2. \A s \in Subscribers : ch'[s] = << >> /\ upd'[s] = Topics(s)
                             /\ pc'[s] \in {"subscribe", "closed"}
                             /\ (s \in Calls => pc'[s] = "closed")
  BY <1>1, FreshType, StreamsAssumption DEF Subscribers
<1>3. TypeOK'
  <2>1. head' \in [Histories -> Nat] /\ posted' \in [Histories -> Nat]
    BY <1>1 DEF IInv, TypeOK
  <2>2. seen' \in [Subscribers -> [Histories -> Nat]]
    BY <1>1, FreshType
  <2>3. ch' \in [Subscribers -> Seq(Histories)]
    BY <1>1, FreshType, EmptySeq
  <2>4. \A s \in Subscribers : Len(ch'[s]) <= Cap(s)
    BY <1>2, EmptySeq, TopicsType
  <2>5. pc' \in [Subscribers -> {"closed", "subscribe", "find", "found",
                                 "select", "unsubscribe"}]
    BY <1>1, FreshType
  <2>6. upd' \in [Subscribers -> SUBSET Histories]
    BY <1>1, FreshType, TopicsType
  <2>7. post' \in [Committers -> SUBSET Histories]
    BY <1>1, FreshType
  <2> QED
    BY <1>1, <2>1, <2>2, <2>3, <2>4, <2>5, <2>6, <2>7, IdleType
    DEF TypeOK, Levels
<1>4. SubscribedInv'
  BY <1>1, <1>2, IdleType DEF SubscribedInv
<1>5. TopicInv'
  <2> SUFFICES ASSUME NEW s \in Subscribers
               PROVE  /\ ch'[s] \in Seq(Topics(s))
                      /\ upd'[s] \subseteq Topics(s)
                      /\ ~(s \in sending'.todo)
    BY DEF TopicInv
  <2>1. << >> \in Seq(Topics(s))
    BY EmptySeq
  <2> QED
    BY <1>1, <1>2, <2>1, IdleType
<1>6. FirstSignal' /\ WakeupInv'
  BY <1>2, CallsSubscribe DEF FirstSignal, WakeupInv, Wakeup
<1>7. OnePost'
  BY <1>1, FreshType DEF OnePost
<1>8. ReturnedInv'
  BY <1>1 DEF ReturnedInv
<1>9. PostedInv'
  BY <1>1 DEF IInv, TypeOK, PostedInv
<1> QED
  BY <1>3, <1>4, <1>5, <1>6, <1>7, <1>8, <1>9 DEF IInv

-----------------------------------------------------------------------------
(***************************************************************************)
(* The steps.                                                              *)
(***************************************************************************)

\* A commit leaves its post to be made, which is a signal on its way.
LEMMA CommitInv ==
    ASSUME IInv, NEW c \in Committers, NEW h \in Histories, Commit(c, h)
    PROVE  IInv'
<1>1. /\ level \in {"running", "cancel2"} /\ post[c] = {}
      /\ head' = [head EXCEPT ![h] = head[h] + 1]
      /\ posted' = [posted EXCEPT ![h] = head'[h]]
      /\ post' = [post EXCEPT ![c] = {h}]
      /\ UNCHANGED <<seen, ch, pc, upd, outputs, sending, level>>
  BY DEF Commit
<1>2. TypeOK'
  <2>1. head' \in [Histories -> Nat]
    BY <1>1 DEF IInv, TypeOK
  <2>2. posted' \in [Histories -> Nat]
    BY <1>1, <2>1 DEF IInv, TypeOK
  <2>3. post' \in [Committers -> SUBSET Histories]
    BY <1>1 DEF IInv, TypeOK
  <2> QED
    BY <1>1, <2>1, <2>2, <2>3 DEF IInv, TypeOK
<1>3. SubscribedInv' /\ TopicInv' /\ FirstSignal'
  BY <1>1 DEF IInv, SubscribedInv, TopicInv, FirstSignal
<1>4. OnePost'
  BY <1>1 DEF IInv, TypeOK, OnePost
<1>5. ReturnedInv'
  BY <1>1 DEF IInv, ReturnedInv
<1>6. PostedInv'
  BY <1>1 DEF IInv, TypeOK, PostedInv
<1>7. WakeupInv'
  <2> SUFFICES ASSUME NEW s \in Calls, pc[s] \in {"found", "select"},
                      ch[s] = << >>, ~(seen[s][TopicOf[s]] >= posted'[TopicOf[s]])
               PROVE  OnItsWay(s, TopicOf[s])'
    BY <1>1 DEF WakeupInv, Wakeup
  <2>1. CASE TopicOf[s] = h
    BY <1>1, <2>1 DEF OnItsWay, IInv, TypeOK
  <2>2. CASE TopicOf[s] # h
    <3>1. TopicOf[s] \in Histories
      BY StreamsAssumption
    <3>2. posted'[TopicOf[s]] = posted[TopicOf[s]]
      BY <1>1, <2>2, <3>1 DEF IInv, TypeOK
    <3>3. OnItsWay(s, TopicOf[s])
      BY <3>2 DEF IInv, WakeupInv, Wakeup
    <3> QED
      BY <1>1, <3>3 DEF OnItsWay, IInv, TypeOK
  <2> QED
    BY <2>1, <2>2
<1> QED
  BY <1>2, <1>3, <1>4, <1>5, <1>6, <1>7 DEF IInv

\* A commit whose reply is lost promises nobody a signal.
LEMMA CommitLostInv ==
    ASSUME IInv, NEW c \in Committers, NEW h \in Histories, CommitLost(c, h)
    PROVE  IInv'
<1>1. /\ head' = [head EXCEPT ![h] = head[h] + 1]
      /\ UNCHANGED <<posted, seen, ch, pc, upd, post, outputs, sending, level>>
  BY DEF CommitLost
<1>2. TypeOK'
  <2>1. head' \in [Histories -> Nat]
    BY <1>1 DEF IInv, TypeOK
  <2> QED
    BY <1>1, <2>1 DEF IInv, TypeOK
<1>3. SubscribedInv' /\ TopicInv' /\ FirstSignal' /\ OnePost'
  BY <1>1 DEF IInv, SubscribedInv, TopicInv, FirstSignal, OnePost
<1>4. ReturnedInv'
  BY <1>1 DEF IInv, ReturnedInv, AllReturned
<1>5. PostedInv'
  BY <1>1 DEF IInv, TypeOK, PostedInv
<1>6. WakeupInv'
  BY <1>1 DEF IInv, WakeupInv, Wakeup, OnItsWay
<1> QED
  BY <1>2, <1>3, <1>4, <1>5, <1>6 DEF IInv

\* serve() takes a post and owes it to every subscriber of its topic.
LEMMA PostInv ==
    ASSUME IInv, NEW c \in Committers, Post(c)
    PROVE  IInv'
<1>1. PICK h \in post[c] :
          sending' = [topic |-> h, todo |-> {s \in outputs : h \in Topics(s)}]
  BY DEF Post
<1>2. /\ level \notin Exited /\ sending.todo = {}
      /\ post' = [post EXCEPT ![c] = {}]
      /\ UNCHANGED <<head, posted, seen, ch, pc, upd, outputs, level>>
  BY DEF Post, Serving
<1>3. h \in Histories
  BY <1>1 DEF IInv, TypeOK
<1>4. TypeOK'
  <2>1. post' \in [Committers -> SUBSET Histories]
    BY <1>2 DEF IInv, TypeOK
  <2>2. sending' \in [topic: Histories, todo: SUBSET Subscribers]
    BY <1>1, <1>3 DEF IInv, TypeOK
  <2> QED
    BY <1>2, <2>1, <2>2 DEF IInv, TypeOK
<1>5. SubscribedInv' /\ FirstSignal'
  BY <1>1, <1>2 DEF IInv, SubscribedInv, FirstSignal
<1>6. TopicInv'
  BY <1>1, <1>2 DEF IInv, TopicInv
<1>7. OnePost' /\ PostedInv'
  BY <1>2 DEF IInv, TypeOK, OnePost, PostedInv
<1>8. ReturnedInv'
  BY <1>2 DEF IInv, TypeOK, ReturnedInv, AllReturned
<1>9. WakeupInv'
  <2> SUFFICES ASSUME NEW s \in Calls, pc[s] \in {"found", "select"},
                      ch[s] = << >>, ~(seen[s][TopicOf[s]] >= posted[TopicOf[s]])
               PROVE  OnItsWay(s, TopicOf[s])'
    BY <1>2 DEF WakeupInv, Wakeup
  <2>1. OnItsWay(s, TopicOf[s])
    BY DEF IInv, WakeupInv, Wakeup
  <2>2. PICK d \in Committers : TopicOf[s] \in post[d]
    BY <1>2, <2>1 DEF OnItsWay
  <2>3. s \in Subscribers /\ TopicOf[s] \in Topics(s)
    BY CallsSubscribe, TopicsType
  <2>4. s \in outputs
    BY <2>3 DEF IInv, SubscribedInv
  <2>5. CASE d = c
    <3>1. TopicOf[s] = h
      BY <2>2, <2>5, <1>1 DEF IInv, OnePost
    <3> QED
      BY <1>1, <2>3, <2>4, <3>1 DEF OnItsWay
  <2>6. CASE d # c
    BY <1>2, <2>2, <2>6 DEF OnItsWay, IInv, TypeOK
  <2> QED
    BY <2>5, <2>6
<1> QED
  BY <1>4, <1>5, <1>6, <1>7, <1>8, <1>9 DEF IInv

\* A signal that is dropped at a full channel leaves another one there.
LEMMA SendInv ==
    ASSUME IInv, NEW s \in Subscribers, Send(s)
    PROVE  IInv'
<1> DEFINE q == IF Len(ch[s]) < Cap(s) THEN Append(ch[s], sending.topic)
                ELSE ch[s]
<1>1. /\ s \in sending.todo /\ level \notin Exited
      /\ sending' = [sending EXCEPT !.todo = sending.todo \ {s}]
      /\ ch' = [ch EXCEPT ![s] = q]
      /\ UNCHANGED <<head, posted, seen, pc, upd, post, outputs, level>>
  BY DEF Send, Alive
<1>2. /\ ch[s] \in Seq(Topics(s)) /\ sending.topic \in Topics(s)
      /\ Topics(s) \subseteq Histories /\ Cap(s) \in Nat \ {0}
      /\ ch[s] \in Seq(Histories) /\ Len(ch[s]) \in Nat /\ Len(ch[s]) <= Cap(s)
  BY <1>1, TopicsType, LenProperties DEF IInv, TypeOK, TopicInv
<1>3. q \in Seq(Topics(s)) /\ q \in Seq(Histories)
  BY <1>2, AppendProperties
<1>4. Len(q) <= Cap(s) /\ q # << >>
  <2>1. CASE Len(ch[s]) < Cap(s)
    <3>1. Len(q) = Len(ch[s]) + 1
      BY <1>2, <2>1, AppendProperties
    <3> HIDE DEF q
    <3>2. Len(q) <= Cap(s) /\ Len(q) # 0
      BY <1>2, <2>1, <3>1
    <3> QED
      BY <3>2, EmptySeq
  <2>2. CASE ~(Len(ch[s]) < Cap(s))
    BY <1>2, <2>2, EmptySeq
  <2> QED
    BY <2>1, <2>2
<1> HIDE DEF q
<1>5. /\ ch'[s] = q
      /\ \A t \in Subscribers : t # s => ch'[t] = ch[t]
      /\ ch' \in [Subscribers -> Seq(Histories)]
  BY <1>1, <1>3 DEF IInv, TypeOK
<1>6. /\ sending' \in [topic: Histories, todo: SUBSET Subscribers]
      /\ sending'.topic = sending.topic
      /\ sending'.todo = sending.todo \ {s}
  BY <1>1 DEF IInv, TypeOK
<1>7. TypeOK'
  <2>1. \A t \in Subscribers : Len(ch'[t]) <= Cap(t)
    BY <1>4, <1>5 DEF IInv, TypeOK
  <2> QED
    BY <1>1, <1>5, <1>6, <2>1 DEF IInv, TypeOK, Cap
<1>8. SubscribedInv'
  BY <1>1, <1>6 DEF IInv, SubscribedInv
<1>9. TopicInv'
  BY <1>1, <1>3, <1>5, <1>6 DEF IInv, TopicInv
<1>10. FirstSignal'
  BY <1>1, <1>4, <1>5, CallsSubscribe DEF IInv, FirstSignal
<1>11. OnePost' /\ PostedInv' /\ ReturnedInv'
  BY <1>1 DEF IInv, OnePost, PostedInv, ReturnedInv, AllReturned
<1>12. WakeupInv'
  <2> SUFFICES ASSUME NEW t \in Calls, pc[t] \in {"found", "select"},
                      ch'[t] = << >>, ~(seen[t][TopicOf[t]] >= posted[TopicOf[t]])
               PROVE  OnItsWay(t, TopicOf[t])'
    BY <1>1 DEF WakeupInv, Wakeup
  <2>1. t # s /\ ch[t] = << >>
    BY <1>4, <1>5, CallsSubscribe
  <2>2. OnItsWay(t, TopicOf[t])
    BY <2>1 DEF IInv, WakeupInv, Wakeup
  <2> QED
    BY <1>1, <1>6, <2>1, <2>2 DEF OnItsWay
<1> QED
  BY <1>7, <1>8, <1>9, <1>10, <1>11, <1>12 DEF IInv

\* Who subscribes has yet to find, so it misses nothing.
LEMMA SubscribeInv ==
    ASSUME IInv, NEW s \in Subscribers, Subscribe(s)
    PROVE  IInv'
<1> DEFINE l == IF s \in Streams THEN "select" ELSE "find"
<1>1. /\ pc[s] = "subscribe" /\ level \notin Exited /\ sending.todo = {}
      /\ outputs' = outputs \cup {s} /\ pc' = [pc EXCEPT ![s] = l]
      /\ UNCHANGED <<head, posted, seen, ch, upd, post, sending, level>>
  BY DEF Subscribe, Serving, Goto
<1>2. /\ pc'[s] = l /\ l \in {"select", "find"}
      /\ \A t \in Subscribers : t # s => pc'[t] = pc[t]
  BY <1>1 DEF IInv, TypeOK
<1>3. TypeOK'
  <2>1. pc' \in [Subscribers -> {"closed", "subscribe", "find", "found",
                                 "select", "unsubscribe"}]
    BY <1>1 DEF IInv, TypeOK
  <2>2. outputs' \in SUBSET Subscribers
    BY <1>1 DEF IInv, TypeOK
  <2> QED
    BY <1>1, <2>1, <2>2 DEF IInv, TypeOK
<1>4. SubscribedInv'
  BY <1>1, <1>2 DEF IInv, SubscribedInv
<1>5. TopicInv' /\ OnePost' /\ PostedInv'
  BY <1>1 DEF IInv, TopicInv, OnePost, PostedInv
<1>6. FirstSignal'
  BY <1>1, <1>2, CallsSubscribe DEF IInv, FirstSignal
<1>7. ReturnedInv'
  BY <1>1 DEF IInv, ReturnedInv, AllReturned
<1>8. WakeupInv'
  <2> SUFFICES ASSUME NEW t \in Calls, pc'[t] \in {"found", "select"},
                      ch[t] = << >>, ~(seen[t][TopicOf[t]] >= posted[TopicOf[t]])
               PROVE  OnItsWay(t, TopicOf[t])'
    BY <1>1 DEF WakeupInv, Wakeup
  <2>1. t # s
    BY <1>1, <1>2 DEF IInv, FirstSignal
  <2>2. OnItsWay(t, TopicOf[t])
    BY <1>2, <2>1, CallsSubscribe DEF IInv, WakeupInv, Wakeup
  <2> QED
    BY <1>1, <2>2 DEF OnItsWay
<1> QED
  BY <1>3, <1>4, <1>5, <1>6, <1>7, <1>8 DEF IInv

\* Nothing is owed to a subscriber that has left.
LEMMA UnsubscribeInv ==
    ASSUME IInv, NEW s \in Subscribers, Unsubscribe(s)
    PROVE  IInv'
<1>1. /\ pc[s] = "unsubscribe" /\ level \notin Exited /\ sending.todo = {}
      /\ outputs' = outputs \ {s} /\ pc' = [pc EXCEPT ![s] = "closed"]
      /\ seen' = [seen EXCEPT ![s] = Fresh.seen[s]]
      /\ ch' = [ch EXCEPT ![s] = << >>]
      /\ upd' = [upd EXCEPT ![s] = Topics(s)]
      /\ UNCHANGED <<head, posted, post, sending, level>>
  BY DEF Unsubscribe, Serving, Closed, Goto
<1>2. /\ pc'[s] = "closed" /\ ch'[s] = << >> /\ upd'[s] = Topics(s)
      /\ \A t \in Subscribers \ {s} :
            pc'[t] = pc[t] /\ ch'[t] = ch[t] /\ upd'[t] = upd[t]
            /\ seen'[t] = seen[t]
  BY <1>1 DEF IInv, TypeOK
<1>3. TypeOK'
  <2>1. seen' \in [Subscribers -> [Histories -> Nat]]
    BY <1>1, FreshType DEF IInv, TypeOK
  <2>2. ch' \in [Subscribers -> Seq(Histories)]
    BY <1>1, EmptySeq DEF IInv, TypeOK
  <2>3. \A t \in Subscribers : Len(ch'[t]) <= Cap(t)
    <3>1. Len(<< >>) <= Cap(s)
      BY EmptySeq, TopicsType
    <3> QED
      BY <1>2, <3>1 DEF IInv, TypeOK
  <2>4. pc' \in [Subscribers -> {"closed", "subscribe", "find", "found",
                                 "select", "unsubscribe"}]
    BY <1>1 DEF IInv, TypeOK
  <2>5. upd' \in [Subscribers -> SUBSET Histories]
    BY <1>1, TopicsType DEF IInv, TypeOK
  <2>6. outputs' \in SUBSET Subscribers
    BY <1>1 DEF IInv, TypeOK
  <2> QED
    BY <1>1, <2>1, <2>2, <2>3, <2>4, <2>5, <2>6 DEF IInv, TypeOK, Cap
<1>4. SubscribedInv'
  BY <1>1, <1>2 DEF IInv, SubscribedInv
<1>5. TopicInv'
  <2>1. << >> \in Seq(Topics(s))
    BY EmptySeq
  <2> QED
    BY <1>1, <1>2, <2>1 DEF IInv, TopicInv
<1>6. FirstSignal'
  BY <1>2, CallsSubscribe DEF IInv, FirstSignal
<1>7. OnePost' /\ PostedInv'
  BY <1>1 DEF IInv, OnePost, PostedInv
<1>8. ReturnedInv'
  BY <1>1 DEF IInv, ReturnedInv, AllReturned
<1>9. WakeupInv'
  <2> SUFFICES ASSUME NEW t \in Calls, Wakeup(t) PROVE Wakeup(t)'
    BY DEF IInv, WakeupInv
  <2>1. CASE t = s
    BY <1>2, <2>1 DEF Wakeup
  <2>2. CASE t # s
    BY <1>1, <1>2, <2>2, CallsSubscribe DEF Wakeup, OnItsWay
  <2> QED
    BY <2>1, <2>2
<1> QED
  BY <1>3, <1>4, <1>5, <1>6, <1>7, <1>8, <1>9 DEF IInv

\* A call that opens is not subscribed; a stream has a signal to find at once.
LEMMA OpenInv ==
    ASSUME IInv, NEW s \in Subscribers, Open(s)
    PROVE  IInv'
<1> DEFINE q == IF s \in Streams THEN <<TopicOf[s]>> ELSE << >>
<1>1. /\ level \in {"running", "cancel2"} /\ pc[s] = "closed" /\ s \in Calls
      /\ ch' = [ch EXCEPT ![s] = q] /\ pc' = [pc EXCEPT ![s] = "subscribe"]
      /\ UNCHANGED <<head, posted, seen, upd, post, outputs, sending, level>>
  BY DEF Open, Goto
<1>2. /\ q \in Seq(Topics(s)) /\ q \in Seq(Histories) /\ Len(q) <= Cap(s)
      /\ (s \in Streams => q # << >>)
  <2>1. TopicOf[s] \in Topics(s) /\ TopicOf[s] \in Histories /\ Cap(s) = 1
    BY <1>1, TopicsType
  <2>2. CASE s \in Streams
    BY <2>1, <2>2
  <2>3. CASE s \notin Streams
    BY <2>1, <2>3, EmptySeq
  <2> QED
    BY <2>2, <2>3
<1> HIDE DEF q
<1>3. /\ pc'[s] = "subscribe" /\ ch'[s] = q
      /\ \A t \in Subscribers \ {s} : pc'[t] = pc[t] /\ ch'[t] = ch[t]
  BY <1>1 DEF IInv, TypeOK
<1>4. TypeOK'
  <2>1. ch' \in [Subscribers -> Seq(Histories)]
    BY <1>1, <1>2 DEF IInv, TypeOK
  <2>2. \A t \in Subscribers : Len(ch'[t]) <= Cap(t)
    BY <1>2, <1>3 DEF IInv, TypeOK
  <2>3. pc' \in [Subscribers -> {"closed", "subscribe", "find", "found",
                                 "select", "unsubscribe"}]
    BY <1>1 DEF IInv, TypeOK
  <2> QED
    BY <1>1, <2>1, <2>2, <2>3 DEF IInv, TypeOK, Cap
<1>5. SubscribedInv'
  BY <1>1, <1>3 DEF IInv, SubscribedInv
<1>6. TopicInv'
  BY <1>1, <1>2, <1>3 DEF IInv, TopicInv
<1>7. FirstSignal'
  BY <1>2, <1>3, CallsSubscribe DEF IInv, FirstSignal
<1>8. OnePost' /\ PostedInv' /\ ReturnedInv'
  BY <1>1 DEF IInv, OnePost, PostedInv, ReturnedInv
<1>9. WakeupInv'
  <2> SUFFICES ASSUME NEW t \in Calls, Wakeup(t) PROVE Wakeup(t)'
    BY DEF IInv, WakeupInv
  <2>1. CASE t = s
    BY <1>3, <2>1 DEF Wakeup
  <2>2. CASE t # s
    BY <1>1, <1>3, <2>2, CallsSubscribe DEF Wakeup, OnItsWay
  <2> QED
    BY <2>1, <2>2
<1> QED
  BY <1>4, <1>5, <1>6, <1>7, <1>8, <1>9 DEF IInv

\* A subscriber that is in its loop goes on or leaves: Found, Tick, Cancelled
\* and Shutdown.
LEMMA MoveInv ==
    ASSUME IInv, NEW s \in Subscribers,
           NEW l \in {"find", "select", "unsubscribe"},
           NEW u \in SUBSET Topics(s),
           pc[s] \in {"find", "found", "select"},
           l = "select" => pc[s] = "found",
           pc' = [pc EXCEPT ![s] = l],
           upd' = [upd EXCEPT ![s] = u],
           UNCHANGED <<head, posted, seen, ch, post, outputs, sending, level>>
    PROVE  IInv'
<1>1. /\ pc'[s] = l /\ upd'[s] = u
      /\ \A t \in Subscribers \ {s} : pc'[t] = pc[t] /\ upd'[t] = upd[t]
  BY DEF IInv, TypeOK
<1>2. TypeOK'
  <2>1. upd' \in [Subscribers -> SUBSET Histories]
    BY TopicsType DEF IInv, TypeOK
  <2>2. pc' \in [Subscribers -> {"closed", "subscribe", "find", "found",
                                 "select", "unsubscribe"}]
    BY DEF IInv, TypeOK
  <2> QED
    BY <2>1, <2>2 DEF IInv, TypeOK
<1>3. SubscribedInv'
  BY <1>1 DEF IInv, SubscribedInv
<1>4. TopicInv'
  BY <1>1 DEF IInv, TopicInv
<1>5. FirstSignal'
  BY <1>1, CallsSubscribe DEF IInv, FirstSignal
<1>6. OnePost' /\ PostedInv'
  BY DEF IInv, OnePost, PostedInv
<1>7. ReturnedInv'
  BY DEF IInv, ReturnedInv, AllReturned
<1>8. WakeupInv'
  <2> SUFFICES ASSUME NEW t \in Calls, Wakeup(t) PROVE Wakeup(t)'
    BY DEF IInv, WakeupInv
  <2>1. CASE t = s
    BY <1>1, <2>1 DEF Wakeup, OnItsWay
  <2>2. CASE t # s
    BY <1>1, <2>2, CallsSubscribe DEF Wakeup, OnItsWay
  <2> QED
    BY <2>1, <2>2
<1> QED
  BY <1>2, <1>3, <1>4, <1>5, <1>6, <1>7, <1>8 DEF IInv

\* The steps of the loops that read neither history nor channel.
LEMMA LoopInv ==
    ASSUME IInv, NEW s \in Subscribers,
           Found(s) \/ Tick(s) \/ Cancelled(s) \/ Shutdown(s)
    PROVE  IInv'
<1>1. upd[s] \in SUBSET Topics(s) /\ upd = [upd EXCEPT ![s] = upd[s]]
  BY DEF IInv, TypeOK, TopicInv
<1>2. CASE Found(s)
  <2> DEFINE l == IF s \in Jobs /\ seen[s][TopicOf[s]] = MaxCommits[TopicOf[s]]
                  THEN "unsubscribe" ELSE "select"
  <2>1. /\ l \in {"select", "unsubscribe"} /\ pc[s] = "found"
        /\ pc' = [pc EXCEPT ![s] = l] /\ upd' = upd
        /\ UNCHANGED <<head, posted, seen, ch, post, outputs, sending, level>>
    BY <1>2 DEF Found, Goto
  <2> HIDE DEF l
  <2>2. upd' = [upd EXCEPT ![s] = upd[s]]
    BY <1>1, <2>1
  <2> QED
    BY <1>1, <2>1, <2>2, MoveInv
<1>3. CASE Tick(s)
  <2>1. /\ pc[s] = "select" /\ pc' = [pc EXCEPT ![s] = "find"]
        /\ upd' = [upd EXCEPT ![s] = Topics(s)]
        /\ UNCHANGED <<head, posted, seen, ch, post, outputs, sending, level>>
    BY <1>3 DEF Tick, Goto
  <2> QED
    BY <2>1, MoveInv
<1>4. CASE Cancelled(s) \/ Shutdown(s)
  <2>1. /\ pc[s] \in {"find", "found", "select"}
        /\ pc' = [pc EXCEPT ![s] = "unsubscribe"] /\ upd' = upd
        /\ UNCHANGED <<head, posted, seen, ch, post, outputs, sending, level>>
    BY <1>4 DEF Cancelled, Shutdown, Goto
  <2>2. upd' = [upd EXCEPT ![s] = upd[s]]
    BY <1>1, <2>1
  <2> QED
    BY <1>1, <2>1, <2>2, MoveInv
<1> QED
  BY <1>2, <1>3, <1>4

\* Who has read a history knows all that has been posted about it.
LEMMA FindInv ==
    ASSUME IInv, NEW s \in Subscribers, Find(s)
    PROVE  IInv'
<1>1. PICK h \in upd[s] : /\ seen' = [seen EXCEPT ![s][h] = head[h]]
                          /\ upd' = [upd EXCEPT ![s] = upd[s] \ {h}]
  BY DEF Find
<1> DEFINE l == IF upd'[s] = {} THEN "found" ELSE "find"
<1>2. /\ pc[s] = "find" /\ pc' = [pc EXCEPT ![s] = l] /\ l \in {"found", "find"}
      /\ UNCHANGED <<head, posted, ch, post, outputs, sending, level>>
  BY DEF Find, Goto
<1> HIDE DEF l
<1>3. /\ h \in Topics(s) /\ h \in Histories
      /\ head[h] \in Nat /\ posted[h] \in Nat /\ posted[h] <= head[h]
  BY <1>1 DEF IInv, TypeOK, TopicInv, PostedInv
<1>4. /\ pc'[s] = l /\ upd'[s] = upd[s] \ {h} /\ seen'[s][h] = head[h]
      /\ \A t \in Subscribers \ {s} :
            pc'[t] = pc[t] /\ upd'[t] = upd[t] /\ seen'[t] = seen[t]
  BY <1>1, <1>2, <1>3 DEF IInv, TypeOK
<1>5. TypeOK'
  <2>1. seen' \in [Subscribers -> [Histories -> Nat]]
    BY <1>1, <1>3 DEF IInv, TypeOK
  <2>2. pc' \in [Subscribers -> {"closed", "subscribe", "find", "found",
                                 "select", "unsubscribe"}]
    BY <1>2 DEF IInv, TypeOK
  <2>3. upd' \in [Subscribers -> SUBSET Histories]
    BY <1>1 DEF IInv, TypeOK
  <2> QED
    BY <1>2, <2>1, <2>2, <2>3 DEF IInv, TypeOK
<1>6. SubscribedInv'
  BY <1>2, <1>4 DEF IInv, SubscribedInv
<1>7. TopicInv'
  BY <1>2, <1>4 DEF IInv, TopicInv
<1>8. FirstSignal'
  BY <1>2, <1>4, CallsSubscribe DEF IInv, FirstSignal
<1>9. OnePost' /\ PostedInv'
  BY <1>2 DEF IInv, OnePost, PostedInv
<1>10. ReturnedInv'
  BY <1>2 DEF IInv, ReturnedInv, AllReturned
<1>11. WakeupInv'
  <2> SUFFICES ASSUME NEW t \in Calls, Wakeup(t) PROVE Wakeup(t)'
    BY DEF IInv, WakeupInv
  <2>1. CASE t = s
    <3>1. h = TopicOf[t]
      BY <1>3, <2>1, TopicsType
    <3>2. seen'[t][TopicOf[t]] >= posted'[TopicOf[t]]
      BY <1>2, <1>3, <1>4, <2>1, <3>1
    <3> QED
      BY <3>2 DEF Wakeup
  <2>2. CASE t # s
    BY <1>2, <1>4, <2>2, CallsSubscribe DEF Wakeup, OnItsWay
  <2> QED
    BY <2>1, <2>2
<1> QED
  BY <1>5, <1>6, <1>7, <1>8, <1>9, <1>10, <1>11 DEF IInv

\* Who takes a signal from its channel reads the history before it waits.
LEMMA UpdatedInv ==
    ASSUME IInv, NEW s \in Subscribers, Updated(s)
    PROVE  IInv'
<1>1. /\ pc[s] = "select" /\ ch[s] # << >>
      /\ ch' = [ch EXCEPT ![s] = Tail(ch[s])]
      /\ upd' = [upd EXCEPT ![s] = {Head(ch[s])}]
      /\ pc' = [pc EXCEPT ![s] = "find"]
      /\ UNCHANGED <<head, posted, seen, post, outputs, sending, level>>
  BY DEF Updated, Goto
<1>2. /\ ch[s] \in Seq(Topics(s)) /\ ch[s] \in Seq(Histories)
      /\ Len(ch[s]) \in Nat /\ Len(ch[s]) <= Cap(s) /\ Cap(s) \in Nat
  BY TopicsType, LenProperties DEF IInv, TypeOK, TopicInv
<1>3. /\ Head(ch[s]) \in Topics(s) /\ Head(ch[s]) \in Histories
      /\ Tail(ch[s]) \in Seq(Topics(s)) /\ Tail(ch[s]) \in Seq(Histories)
      /\ Len(Tail(ch[s])) = Len(ch[s]) - 1
  BY <1>1, <1>2, HeadTailProperties
<1>4. /\ pc'[s] = "find" /\ ch'[s] = Tail(ch[s]) /\ upd'[s] = {Head(ch[s])}
      /\ \A t \in Subscribers \ {s} :
            pc'[t] = pc[t] /\ upd'[t] = upd[t] /\ ch'[t] = ch[t]
  BY <1>1 DEF IInv, TypeOK
<1>5. TypeOK'
  <2>1. ch' \in [Subscribers -> Seq(Histories)]
    BY <1>1, <1>3 DEF IInv, TypeOK
  <2>2. \A t \in Subscribers : Len(ch'[t]) <= Cap(t)
    <3>1. Len(Tail(ch[s])) <= Cap(s)
      BY <1>2, <1>3
    <3> QED
      BY <1>4, <3>1 DEF IInv, TypeOK
  <2>3. pc' \in [Subscribers -> {"closed", "subscribe", "find", "found",
                                 "select", "unsubscribe"}]
    BY <1>1 DEF IInv, TypeOK
  <2>4. upd' \in [Subscribers -> SUBSET Histories]
    BY <1>1, <1>3 DEF IInv, TypeOK
  <2> QED
    BY <1>1, <2>1, <2>2, <2>3, <2>4 DEF IInv, TypeOK, Cap
<1>6. SubscribedInv'
  BY <1>1, <1>4 DEF IInv, SubscribedInv
<1>7. TopicInv'
  BY <1>1, <1>3, <1>4 DEF IInv, TopicInv
<1>8. FirstSignal'
  BY <1>4, CallsSubscribe DEF IInv, FirstSignal
<1>9. OnePost' /\ PostedInv'
  BY <1>1 DEF IInv, OnePost, PostedInv
<1>10. ReturnedInv'
  BY <1>1 DEF IInv, ReturnedInv, AllReturned
<1>11. WakeupInv'
  <2> SUFFICES ASSUME NEW t \in Calls, Wakeup(t) PROVE Wakeup(t)'
    BY DEF IInv, WakeupInv
  <2>1. CASE t = s
    BY <1>4, <2>1 DEF Wakeup
  <2>2. CASE t # s
    BY <1>1, <1>4, <2>2, CallsSubscribe DEF Wakeup, OnItsWay
  <2> QED
    BY <2>1, <2>2
<1> QED
  BY <1>5, <1>6, <1>7, <1>8, <1>9, <1>10, <1>11 DEF IInv

\* The shutdown goes on.
LEMMA LevelInv ==
    ASSUME IInv, Cancel2 \/ GracefulStop \/ Cancel \/ Stop
    PROVE  IInv'
<1>1. UNCHANGED <<head, posted, seen, ch, pc, upd, post, outputs, sending>>
  BY DEF Cancel2, GracefulStop, Cancel, Stop, ToLevel
<1>2. /\ level' \in {"cancel2", "graceful", "cancel", "stopped"}
      /\ level' = "cancel" => AllReturned
      /\ level' = "stopped" => level = "cancel"
  BY DEF Cancel2, GracefulStop, Cancel, Stop, ToLevel
<1>3. TypeOK'
  BY <1>1, <1>2 DEF IInv, TypeOK, Levels
<1>4. SubscribedInv' /\ TopicInv' /\ FirstSignal' /\ OnePost' /\ PostedInv'
  BY <1>1 DEF IInv, SubscribedInv, TopicInv, FirstSignal, OnePost, PostedInv
<1>5. ReturnedInv'
  BY <1>1, <1>2 DEF IInv, ReturnedInv, AllReturned
<1>6. WakeupInv'
  BY <1>1 DEF IInv, WakeupInv, Wakeup, OnItsWay
<1> QED
  BY <1>3, <1>4, <1>5, <1>6 DEF IInv

\* Every step keeps the invariant.
LEMMA NextInv == IInv /\ [Next]_vars => IInv'
<1> SUFFICES ASSUME IInv, [Next]_vars PROVE IInv'
  OBVIOUS
<1>1. CASE \E c \in Committers, h \in Histories :
               Commit(c, h) \/ CommitLost(c, h)
  BY <1>1, CommitInv, CommitLostInv
<1>2. CASE ServerStep
  BY <1>2, PostInv, SendInv DEF ServerStep
<1>3. CASE \E s \in Subscribers :
               SubscriberStep(s) \/ Open(s) \/ Cancelled(s)
  BY <1>3, SubscribeInv, FindInv, UpdatedInv, UnsubscribeInv, OpenInv, LoopInv
  DEF SubscriberStep
<1>4. CASE Cancel2 \/ GracefulStop \/ Cancel \/ Stop
  BY <1>4, LevelInv
<1>5. CASE Timeout \/ Restart
  BY <1>5, ExitInv DEF Timeout, Restart
<1>6. CASE UNCHANGED vars
  <2>1. UNCHANGED <<head, posted, seen, ch, pc, upd, post, outputs, sending, level>>
    BY <1>6 DEF vars
  <2>2. TypeOK'
    BY <2>1 DEF IInv, TypeOK
  <2>3. SubscribedInv' /\ TopicInv' /\ FirstSignal' /\ OnePost' /\ PostedInv'
    BY <2>1 DEF IInv, SubscribedInv, TopicInv, FirstSignal, OnePost, PostedInv
  <2>4. ReturnedInv'
    BY <2>1 DEF IInv, ReturnedInv, AllReturned
  <2>5. WakeupInv'
    BY <2>1 DEF IInv, WakeupInv, Wakeup, OnItsWay
  <2> QED
    BY <2>2, <2>3, <2>4, <2>5 DEF IInv
<1> QED
  BY <1>1, <1>2, <1>3, <1>4, <1>5, <1>6 DEF Next

-----------------------------------------------------------------------------
(***************************************************************************)
(* The theorems.                                                           *)
(***************************************************************************)

\* The notifier, its subscribers and the shutdown keep the types; no channel
\* holds more than its capacity.
THEOREM StreamsTypeCorrect == Spec => []TypeOK
<1>1. IInv => TypeOK
  BY DEF IInv
<1> QED
  BY <1>1, InitInv, NextInv, PTL DEF Spec

\* Subscribing before the first find and a buffer of one signal suffice: a
\* stream or a job that waits knows every commit that Commit() has posted, or is
\* about to be woken up.  Commits whose reply was lost are not posted.
THEOREM WakeupsAreNotLost == Spec => []NoLostWakeup
<1>1. IInv => NoLostWakeup
  BY DEF IInv, WakeupInv, Wakeup, NoLostWakeup
<1> QED
  BY <1>1, InitInv, NextInv, PTL DEF Spec

\* A channel is not signaled after unsubscribe() has returned.
THEOREM UnsubscribeIsFinal == Spec => []ClosedIsNotSignaled
<1>1. IInv => ClosedIsNotSignaled
  BY DEF IInv, SubscribedInv, ClosedIsNotSignaled
<1> QED
  BY <1>1, InitInv, NextInv, PTL DEF Spec

\* The staged shutdown does not leave a goroutine blocked on the notifier.
THEOREM NotifierStopsLast == Spec => []NobodyWaitsForStopped
<1>1. IInv => NobodyWaitsForStopped
  BY DEF IInv, ReturnedInv, AllReturned, NobodyWaitsForStopped
<1> QED
  BY <1>1, InitInv, NextInv, PTL DEF Spec
=============================================================================
