------------------------ MODULE StreamPipelineProofs ------------------------
(***************************************************************************)
(* Proofs about StreamPipeline for any amount of text, any stop string and *)
(* any hold-back of the filter: its types, that the final event follows    *)
(* all the text, that no part of a complete stop string is let out, and    *)
(* the order of the events.  The argument counts the chunks: those that    *)
(* the consumer has posted are those the filter has had and those in the   *)
(* queue.                                                                  *)
(***************************************************************************)
EXTENDS StreamPipeline, TLAPS, FiniteSetTheorems, SequenceTheorems

Texts(q) == Cardinality({i \in DOMAIN q : q[i] = "text"})
NoText(q) == \A i \in DOMAIN q : q[i] # "text"
AllText(s) == \A i \in DOMAIN s : s[i] = "text"

(* What the end of the streamer means for the threads.                     *)
ThreadInv ==
  /\ read <= made
  /\ ended => worker \in {"posting", "ended"}
  /\ consumer = "ended" => read = made /\ ended

(* The end of the text is the last that the consumer says of it.           *)
QueueInv ==
  /\ \A i, j \in DOMAIN queue : i < j /\ queue[i] = "stream_done" => queue[j] # "text"
  /\ Contains(queue, "stream_done") \/ finished => consumer = "ended"
  /\ finished => NoText(queue)

(* No chunk is lost between the consumer and the filter.                   *)
TextInv == /\ received + Texts(queue) <= read
           /\ ~stopped => received + Texts(queue) = read

(* What the filter has let out.                                            *)
FilterInv ==
  /\ stopped <=> StopFound(received)
  /\ \/ emitted = LetOut(received)
     \/ emitted = received /\ ~stopped /\ generated /\ finished
  /\ pc \in {"getting", "text"} => ~Complete(generated, finished)
  /\ pc \in {"tail", "final", "done"} \/ Contains(sent, "final") =>
       generated /\ finished /\ (stopped \/ emitted = received)

(* What has been sent, by where the task is.                               *)
SentInv ==
  /\ EventsInOrder
  /\ pc \in Checking \cup {"getting"} => AllText(sent) /\ outcome = "none"
  /\ pc = "done" => /\ outcome = "none"
                    /\ \A i \in DOMAIN sent :
                         sent[i] = "text" \/ (sent[i] = "final" /\ i = Len(sent))
  /\ pc = "joining" => /\ ~Contains(sent, "error") /\ outcome # "none"
                       /\ outcome # "success" => AllText(sent)

IInv == TypeOK /\ ThreadInv /\ QueueInv /\ TextInv /\ FilterInv /\ SentInv

-----------------------------------------------------------------------------
(* A sequence holds finitely many texts.                                   *)
LEMMA TextsFinite ==
  ASSUME NEW q, NEW n \in Nat, DOMAIN q = 1 .. n
  PROVE  /\ IsFiniteSet({i \in DOMAIN q : q[i] = "text"})
         /\ Texts(q) \in Nat
<1>1. IsFiniteSet(1 .. n)
  BY FS_Interval
<1>2. {i \in DOMAIN q : q[i] = "text"} \in SUBSET (1 .. n)
  OBVIOUS
<1>3. IsFiniteSet({i \in DOMAIN q : q[i] = "text"})
  BY <1>1, <1>2, FS_Subset
<1> QED BY <1>3, FS_CardinalityType DEF Texts

(* The types, of the threads and of the request's task.                    *)
ThreadTypes ==
  /\ stopAt \in 0 .. MaxChunks
  /\ worker \in {"running", "ending", "posting", "ended", "failed"}
  /\ made \in 0 .. MaxChunks /\ read \in 0 .. MaxChunks
  /\ ended \in BOOLEAN /\ consumer \in {"reading", "ended"}

TaskTypes ==
  /\ cancelled \in BOOLEAN
  /\ pc \in Sending \cup {"getting", "joining", "abandoned", "finalizing", "over"}
  /\ received \in 0 .. MaxChunks /\ emitted \in 0 .. MaxChunks
  /\ stopped \in BOOLEAN /\ generated \in BOOLEAN /\ finished \in BOOLEAN
  /\ sent \in Seq({"text", "final", "done", "error"})
  /\ outcome \in {"none", "success", "timeout", "error", "broken", "cut",
                  "dropped", "disconnected"}

LEMMA TypeParts ==
  /\ TypeOK <=> ThreadTypes /\ queue \in Seq(Messages) /\ TaskTypes
  /\ TypeOK' <=> ThreadTypes' /\ queue' \in Seq(Messages) /\ TaskTypes'
  BY DEF TypeOK, ThreadTypes, TaskTypes

(* The counts are natural numbers.                                         *)
LEMMA Counts ==
  ASSUME TypeOK
  PROVE  /\ made \in Nat /\ read \in Nat /\ received \in Nat /\ emitted \in Nat
         /\ stopAt \in Nat /\ made <= MaxChunks /\ received <= MaxChunks
         /\ queue \in Seq(Messages) /\ Texts(queue) \in Nat
<1>1. /\ made \in Nat /\ read \in Nat /\ received \in Nat /\ emitted \in Nat
      /\ stopAt \in Nat /\ made <= MaxChunks /\ received <= MaxChunks
  BY TypeParts, StreamAssumption DEF ThreadTypes, TaskTypes, StreamAssumption
<1>2. queue \in Seq(Messages) /\ Len(queue) \in Nat /\ DOMAIN queue = 1 .. Len(queue)
  BY TypeParts, LenProperties
<1> QED BY <1>1, <1>2, TextsFinite

LEMMA TaskUnchanged ==
  ASSUME TaskTypes, UNCHANGED task
  PROVE  TaskTypes'
  BY DEF TaskTypes, task, filter, flags

LEMMA ThreadsUnchanged ==
  ASSUME ThreadTypes, UNCHANGED threads
  PROVE  ThreadTypes'
  BY DEF ThreadTypes, threads

-----------------------------------------------------------------------------
(* Sequences.                                                              *)

(* A message arrives.                                                      *)
LEMMA AppendFacts ==
  ASSUME NEW S, NEW q \in Seq(S), NEW m \in S
  PROVE  /\ Append(q, m) \in Seq(S) /\ Len(Append(q, m)) = Len(q) + 1 /\ Len(q) \in Nat
         /\ DOMAIN q = 1 .. Len(q) /\ DOMAIN Append(q, m) = 1 .. Len(q) + 1
         /\ \A i \in 1 .. Len(q) : Append(q, m)[i] = q[i]
         /\ Append(q, m)[Len(q) + 1] = m
         /\ \A e : Contains(Append(q, m), e) <=> Contains(q, e) \/ e = m
         /\ Texts(q) \in Nat
         /\ Texts(Append(q, m)) = Texts(q) + (IF m = "text" THEN 1 ELSE 0)
<1> DEFINE p == Append(q, m)
           A == {i \in DOMAIN q : q[i] = "text"}
           B == {i \in DOMAIN p : p[i] = "text"}
<1>1. /\ p \in Seq(S) /\ Len(p) = Len(q) + 1 /\ Len(q) \in Nat
      /\ DOMAIN q = 1 .. Len(q) /\ DOMAIN p = 1 .. Len(q) + 1
      /\ \A i \in 1 .. Len(q) : p[i] = q[i]
      /\ p[Len(q) + 1] = m
  BY AppendProperties, LenProperties
<1> HIDE DEF p
<1>2. \A e : Contains(p, e) <=> Contains(q, e) \/ e = m
  BY <1>1 DEF Contains
<1>3. IsFiniteSet(A) /\ Cardinality(A) \in Nat
  BY <1>1, TextsFinite DEF Texts
<1>4. B = IF m = "text" THEN A \cup {Len(q) + 1} ELSE A
  BY <1>1
<1>5. Len(q) + 1 \notin A
  BY <1>1
<1>6. Cardinality(A \cup {Len(q) + 1}) = Cardinality(A) + 1
  BY <1>3, <1>5, FS_AddElement
<1>7. Texts(q) = Cardinality(A) /\ Texts(p) = Cardinality(B)
  BY DEF Texts
<1> HIDE DEF A, B
<1>8. Texts(q) \in Nat /\ Texts(p) = Texts(q) + (IF m = "text" THEN 1 ELSE 0)
  BY <1>3, <1>4, <1>6, <1>7
<1> QED BY <1>1, <1>2, <1>8 DEF p

(* A message is taken.                                                     *)
LEMMA TailFacts ==
  ASSUME NEW S, NEW q \in Seq(S), q # <<>>
  PROVE  /\ Tail(q) \in Seq(S) /\ Len(q) \in Nat \ {0} /\ Head(q) = q[1]
         /\ DOMAIN q = 1 .. Len(q) /\ DOMAIN Tail(q) = 1 .. Len(q) - 1
         /\ \A i \in 1 .. Len(q) - 1 : Tail(q)[i] = q[i + 1]
         /\ \A e : Contains(Tail(q), e) => Contains(q, e)
         /\ Contains(q, Head(q))
         /\ Texts(q) \in Nat /\ Texts(Tail(q)) \in Nat
         /\ Texts(q) = Texts(Tail(q)) + (IF Head(q) = "text" THEN 1 ELSE 0)
<1> DEFINE n == Len(q)
           p == Tail(q)
           A == {i \in DOMAIN q : q[i] = "text"}
           B == {i \in DOMAIN p : p[i] = "text"}
<1>1. /\ n \in Nat \ {0} /\ DOMAIN q = 1 .. n /\ Head(q) = q[1]
  BY EmptySeq, LenProperties
<1>2. /\ p \in Seq(S) /\ DOMAIN p = 1 .. n - 1
      /\ \A i \in 1 .. n - 1 : p[i] = q[i + 1]
  BY HeadTailProperties, LenProperties
<1> HIDE DEF p, n
<1>3. Contains(q, Head(q)) /\ \A e : Contains(p, e) => Contains(q, e)
  BY <1>1, <1>2, LenProperties DEF Contains, n
<1>4. /\ IsFiniteSet(A) /\ Cardinality(A) \in Nat
      /\ IsFiniteSet(B) /\ Cardinality(B) \in Nat
  <2>1. n \in Nat /\ n - 1 \in Nat
    BY <1>1
  <2> QED BY <1>1, <1>2, <2>1, TextsFinite DEF Texts
<1>5. Cardinality(A \ {1}) = Cardinality(B)
  <2> DEFINE f == [i \in B |-> i + 1]
  <2>1. f \in [B -> A \ {1}] /\ \A i, j \in B : f[i] = f[j] => i = j
    BY <1>1, <1>2
  <2>2. \A k \in A \ {1} : \E i \in B : f[i] = k
    <3> SUFFICES ASSUME NEW k \in A \ {1} PROVE k - 1 \in B /\ f[k - 1] = k
      BY <1>2
    <3> QED BY <1>1, <1>2
  <2>3. f \in Bijection(B, A \ {1})
    BY <2>1, <2>2 DEF Bijection, Injection, Surjection, IsInjective
  <2> HIDE DEF f, A, B
  <2> QED BY <1>4, <2>3, FS_Bijection, FS_RemoveElement DEF ExistsBijection
<1>6. (1 \in A) = (Head(q) = "text")
  BY <1>1
<1>7. Cardinality(A \ {1}) = IF 1 \in A THEN Cardinality(A) - 1 ELSE Cardinality(A)
  BY <1>4, FS_RemoveElement
<1>8. Texts(q) = Cardinality(A) /\ Texts(p) = Cardinality(B)
  BY DEF Texts
<1> HIDE DEF A, B
<1>9. /\ Texts(q) \in Nat /\ Texts(p) \in Nat
      /\ Texts(q) = Texts(p) + (IF Head(q) = "text" THEN 1 ELSE 0)
  BY <1>4, <1>5, <1>6, <1>7, <1>8
<1> QED BY <1>1, <1>2, <1>3, <1>9 DEF p, n

(* A queue without text has none to count.                                 *)
LEMMA NoTextIsNone ==
  ASSUME NEW q, NoText(q)
  PROVE  Texts(q) = 0
  BY FS_EmptySet DEF NoText, Texts

-----------------------------------------------------------------------------
(* The filter lets out no more than it has had, and nothing of a stop      *)
(* string that will be complete.                                           *)
LEMMA LetOutFacts ==
  ASSUME NEW r \in Nat, stopAt \in Nat
  PROVE  /\ LetOut(r) \in 0 .. r /\ ~StopFound(0) /\ LetOut(0) = 0
         /\ StopFound(r) => LetOut(r) = stopAt - 1
         /\ \A s \in Nat : r <= s /\ StopFound(s) => LetOut(r) < stopAt
         /\ \A s \in Nat : r <= s /\ StopFound(r) => StopFound(s)
  BY StreamAssumption DEF StreamAssumption, LetOut, StopFound

LEMMA InitInv == Init => IInv
<1> SUFFICES ASSUME Init PROVE IInv
  OBVIOUS
<1>1. stopAt \in Nat /\ DOMAIN queue = {} /\ DOMAIN sent = {} /\ Texts(queue) = 0
  <2>1. DOMAIN queue = {} /\ DOMAIN sent = {}
    BY DEF Init
  <2>2. NoText(queue)
    BY <2>1 DEF NoText
  <2> QED BY <2>1, <2>2, NoTextIsNone, StreamAssumption DEF Init, StreamAssumption
<1>2. TypeOK
  <2>1. ThreadTypes
    <3>1. stopAt \in 0 .. MaxChunks /\ made \in 0 .. MaxChunks /\ read \in 0 .. MaxChunks
      BY StreamAssumption DEF Init, StreamAssumption
    <3>2. worker \in {"running"} /\ ended \in BOOLEAN /\ consumer \in {"reading", "ended"}
      BY Zenon DEF Init
    <3> QED BY <3>1, <3>2 DEF ThreadTypes
  <2>2. TaskTypes
    <3>1. received \in 0 .. MaxChunks /\ emitted \in 0 .. MaxChunks
      BY StreamAssumption DEF Init, StreamAssumption
    <3>2. /\ cancelled \in BOOLEAN /\ stopped \in BOOLEAN
          /\ generated \in BOOLEAN /\ finished \in BOOLEAN
      BY Zenon DEF Init
    <3>3. sent \in Seq({"text", "final", "done", "error"}) /\ pc = "getting" /\ outcome = "none"
      BY EmptySeq DEF Init
    <3> QED BY <3>1, <3>2, <3>3 DEF TaskTypes
  <2>3. queue \in Seq(Messages)
    BY EmptySeq DEF Init
  <2> QED BY <2>1, <2>2, <2>3, TypeParts
<1>3. ThreadInv /\ TextInv
  BY <1>1 DEF Init, ThreadInv, TextInv
<1>4. QueueInv /\ SentInv
  BY <1>1 DEF Init, QueueInv, NoText, SentInv, EventsInOrder, AllText, Contains, Checking,
              Sending
<1>5. FilterInv
  BY <1>1, LetOutFacts DEF Init, FilterInv, Complete, Contains
<1> QED BY <1>2, <1>3, <1>4, <1>5 DEF IInv

(* A thread posts a message that is neither text nor the end of it.        *)
LEMMA PostFacts ==
  ASSUME IInv, NEW m \in {"generated", "error"}, Post(m)
  PROVE  /\ queue' \in Seq(Messages) /\ Texts(queue') = Texts(queue)
         /\ Contains(queue', "stream_done") <=> Contains(queue, "stream_done")
         /\ NoText(queue) => NoText(queue')
         /\ \A i, j \in DOMAIN queue' :
              i < j /\ queue'[i] = "stream_done" => queue'[j] # "text"
<1>1. /\ queue \in Seq(Messages) /\ m \in Messages /\ queue' = Append(queue, m)
      /\ m # "text" /\ m # "stream_done"
  BY DEF IInv, TypeOK, Post, Messages
<1>2. \A i, j \in DOMAIN queue : i < j /\ queue[i] = "stream_done" => queue[j] # "text"
  BY DEF IInv, QueueInv
<1> QED BY <1>1, <1>2, AppendFacts DEF NoText

LEMMA WorkerPreserves ==
  ASSUME IInv, Worker
  PROVE  IInv'
<1>1. UNCHANGED <<stopAt, consumer, read, task>>
  BY DEF Worker, Token, LastToken, EndStreamer, PostGenerated, WorkerFails
<1>2. FilterInv' /\ SentInv'
  BY <1>1 DEF task, filter, flags, IInv, FilterInv, SentInv, EventsInOrder, AllText,
     StopFound, LetOut, Contains
<1>3. CASE UNCHANGED queue
  <2>1. CASE Token \/ LastToken \/ EndStreamer
    <3>1. TypeOK'
      <4>1. ThreadTypes'
        <5>1. made' \in 0 .. MaxChunks
          BY <2>1, TypeParts, StreamAssumption DEF Token, LastToken, EndStreamer, IInv,
             ThreadTypes, StreamAssumption
        <5>2. worker' \in {"running", "ending", "posting"}
          BY <2>1 DEF Token, LastToken, EndStreamer
        <5>3. ended' \in BOOLEAN
          BY <2>1, TypeParts, Zenon DEF Token, LastToken, EndStreamer, IInv, ThreadTypes
        <5> QED BY <1>1, <5>1, <5>2, <5>3, TypeParts DEF IInv, ThreadTypes
      <4> QED BY <1>1, <1>3, <4>1, TypeParts, TaskUnchanged DEF IInv
    <3>2. ThreadInv'
      BY <1>1, <1>3, <2>1 DEF Token, LastToken, EndStreamer, IInv, TypeOK, ThreadInv
    <3>3. QueueInv' /\ TextInv'
      BY <1>1, <1>3 DEF IInv, QueueInv, TextInv, Texts, NoText, task, filter, flags, Contains
    <3> QED BY <1>2, <3>1, <3>2, <3>3 DEF IInv
  <2>2. CASE PostGenerated \/ WorkerFails
    <3>1. PICK m \in {"generated", "error"} : Post(m)
      BY <2>2 DEF PostGenerated, WorkerFails
    <3>2. queue \in Seq(Messages) /\ m \in Messages
      BY DEF IInv, TypeOK, Messages
    <3> QED BY <1>3, <3>1, <3>2, AppendFacts DEF Post
  <2> QED BY <2>1, <2>2 DEF Worker
<1>4. ASSUME NEW m \in {"generated", "error"}, Post(m), PostGenerated \/ WorkerFails
      PROVE  IInv'
  <2>1. TypeOK'
    <3>1. ThreadTypes'
      BY <1>1, <1>4, TypeParts DEF PostGenerated, WorkerFails, IInv, ThreadTypes
    <3> QED BY <1>1, <1>4, <3>1, PostFacts, TypeParts, TaskUnchanged DEF IInv
  <2>2. ThreadInv'
    BY <1>1, <1>4 DEF PostGenerated, WorkerFails, IInv, ThreadInv
  <2>3. QueueInv' /\ TextInv'
    BY <1>1, <1>4, PostFacts DEF IInv, QueueInv, TextInv, task, filter, flags
  <2> QED BY <1>2, <2>1, <2>2, <2>3 DEF IInv
<1> QED BY <1>3, <1>4 DEF Worker, Token, LastToken, EndStreamer, PostGenerated, WorkerFails

LEMMA ConsumerPreserves ==
  ASSUME IInv, Consumer
  PROVE  IInv'
<1>1. UNCHANGED <<stopAt, worker, made, ended, task>>
  BY DEF Consumer, Read, ReadEnd
<1>2. FilterInv' /\ SentInv'
  BY <1>1 DEF task, filter, flags, IInv, FilterInv, SentInv, EventsInOrder, AllText,
     StopFound, LetOut, Contains
<1>3. /\ queue \in Seq(Messages) /\ "text" \in Messages /\ "stream_done" \in Messages
      /\ received \in Nat /\ read \in Nat /\ made \in Nat
      /\ made <= MaxChunks /\ Texts(queue) \in Nat
  BY Counts DEF IInv, Messages
<1>4. CASE Read
  <2>1. /\ queue' = Append(queue, "text") /\ read' = read + 1 /\ read < made
        /\ consumer = "reading" /\ consumer' = consumer
    BY <1>4 DEF Read, Post
  <2>2. ~Contains(queue, "stream_done") /\ ~finished
    BY <2>1 DEF IInv, QueueInv
  <2>3. queue' \in Seq(Messages) /\ ~Contains(queue', "stream_done")
    BY <1>3, <2>1, <2>2, AppendFacts
  <2>4. Texts(queue') = Texts(queue) + 1 /\ Texts(queue) \in Nat
    BY <1>3, <2>1, AppendFacts
  <2>5. TypeOK' /\ ThreadInv'
    <3>1. ThreadTypes'
      BY <1>1, <1>3, <2>1, TypeParts, StreamAssumption DEF IInv, ThreadTypes, StreamAssumption
    <3>2. ThreadInv'
      BY <1>1, <1>3, <2>1 DEF IInv, ThreadInv
    <3> QED BY <1>1, <2>3, <3>1, <3>2, TypeParts, TaskUnchanged DEF IInv
  <2>6. QueueInv'
    <3>1. \A i \in DOMAIN queue' : queue'[i] # "stream_done"
      BY <2>3, LenProperties DEF Contains
    <3> QED BY <1>1, <2>2, <2>3, <3>1 DEF QueueInv, task, flags
  <2>7. TextInv'
    <3>1. received' = received /\ stopped' = stopped
      BY <1>1 DEF task, filter
    <3> QED BY <1>3, <2>1, <2>4, <3>1 DEF IInv, TextInv
  <2> QED BY <1>2, <2>5, <2>6, <2>7 DEF IInv
<1>5. CASE ReadEnd
  <2>1. /\ queue' = Append(queue, "stream_done") /\ read' = read /\ read = made
        /\ ended /\ consumer' = "ended" /\ consumer = "reading"
    BY <1>5 DEF ReadEnd, Post
  <2>2. ~Contains(queue, "stream_done") /\ ~finished
    BY <2>1 DEF IInv, QueueInv
  <2>3. queue' \in Seq(Messages) /\ Texts(queue') = Texts(queue)
    BY <1>3, <2>1, AppendFacts
  <2>4. TypeOK' /\ ThreadInv'
    <3>1. ThreadTypes' /\ ThreadInv'
      BY <1>1, <2>1, TypeParts DEF IInv, ThreadTypes, ThreadInv
    <3> QED BY <1>1, <2>3, <3>1, TypeParts, TaskUnchanged DEF IInv
  <2>5. QueueInv'
    <3>1. \A i, j \in DOMAIN queue' :
            i < j /\ queue'[i] = "stream_done" => queue'[j] # "text"
      <4>1. \A i \in DOMAIN queue : queue[i] # "stream_done"
        BY <1>3, <2>2, LenProperties DEF Contains
      <4> QED BY <1>3, <2>1, <4>1, AppendFacts
    <3> QED BY <1>1, <2>1, <2>2, <3>1 DEF QueueInv, task, flags
  <2>6. TextInv'
    BY <1>1, <2>1, <2>3 DEF IInv, TextInv, task, filter
  <2> QED BY <1>2, <2>4, <2>5, <2>6 DEF IInv
<1> QED BY <1>4, <1>5 DEF Consumer

-----------------------------------------------------------------------------
(* The task takes a message: once it is the end of the text, the queue     *)
(* holds no text.                                                          *)
LEMMA TakeFacts ==
  ASSUME IInv, NEW m, Message(m)
  PROVE  /\ queue' \in Seq(Messages) /\ Contains(queue, m) /\ Texts(queue') \in Nat
         /\ Texts(queue) = Texts(queue') + (IF m = "text" THEN 1 ELSE 0)
         /\ \A e : Contains(queue', e) => Contains(queue, e)
         /\ NoText(queue) \/ m = "stream_done" => NoText(queue')
         /\ \A i, j \in DOMAIN queue' :
              i < j /\ queue'[i] = "stream_done" => queue'[j] # "text"
<1>1. /\ queue \in Seq(Messages) /\ queue # <<>> /\ Head(queue) = m /\ queue' = Tail(queue)
  BY Counts DEF IInv, Message
<1>2. \A i, j \in DOMAIN queue : i < j /\ queue[i] = "stream_done" => queue[j] # "text"
  BY DEF IInv, QueueInv
<1>3. /\ DOMAIN queue = 1 .. Len(queue) /\ DOMAIN queue' = 1 .. Len(queue) - 1
      /\ Len(queue) \in Nat \ {0} /\ queue[1] = m
      /\ \A i \in 1 .. Len(queue) - 1 : queue'[i] = queue[i + 1]
  BY <1>1, TailFacts
<1>4. NoText(queue) \/ m = "stream_done" => NoText(queue')
  BY <1>2, <1>3 DEF NoText
<1>5. \A i, j \in DOMAIN queue' : i < j /\ queue'[i] = "stream_done" => queue'[j] # "text"
  BY <1>2, <1>3
<1> QED BY <1>1, <1>4, <1>5, TailFacts

(* Nothing that is being waited for, or said, is an event.                 *)
LEMMA OnlyText ==
  ASSUME IInv, AllText(sent)
  PROVE  \A e \in {"final", "done", "error"} : ~Contains(sent, e)
<1>1. DOMAIN sent = 1 .. Len(sent)
  BY TypeParts, LenProperties DEF IInv, TaskTypes
<1> QED BY <1>1 DEF AllText, Contains

LEMMA GetTextPreserves ==
  ASSUME IInv, GetText
  PROVE  IInv'
<1>1. /\ Message("text") /\ pc = "getting"
      /\ UNCHANGED <<stopAt, worker, made, ended, consumer, read>>
      /\ UNCHANGED <<generated, finished, sent, outcome>>
  BY DEF GetText, Message, threads, flags
<1>2. ThreadTypes' /\ ThreadInv'
  BY <1>1, TypeParts, ThreadsUnchanged DEF threads, IInv, ThreadInv
<1>3. QueueInv'
  BY <1>1, TakeFacts DEF IInv, QueueInv
<1>4. /\ AllText(sent) /\ ~Contains(sent, "final") /\ outcome = "none"
      /\ ~Complete(generated, finished)
  BY <1>1, OnlyText DEF IInv, SentInv, FilterInv
<1>5. /\ read \in Nat /\ made \in Nat /\ received \in Nat /\ stopAt \in Nat
      /\ received + Texts(queue) <= read /\ read <= made /\ made <= MaxChunks
      /\ Texts(queue') \in Nat /\ Texts(queue) = Texts(queue') + 1
  BY <1>1, Counts, TakeFacts DEF IInv, TextInv, ThreadInv
<1>6. CASE stopped
  <2>1. UNCHANGED <<pc, received, emitted, stopped, cancelled>>
    BY <1>6 DEF GetText, filter
  <2>2. TaskTypes'
    BY <1>1, <2>1, TypeParts, TaskUnchanged DEF IInv, task, filter, flags
  <2>3. TextInv'
    BY <1>1, <1>5, <1>6, <2>1 DEF TextInv
  <2>4. FilterInv' /\ SentInv'
    BY <1>1, <2>1 DEF IInv, FilterInv, SentInv, EventsInOrder, AllText, Contains, StopFound,
       LetOut
  <2> QED BY <1>1, <1>2, <1>3, <2>2, <2>3, <2>4, TypeParts, TakeFacts DEF IInv
<1>7. CASE ~stopped
  <2>1. /\ received' = received + 1 /\ stopped' = StopFound(received + 1)
        /\ emitted' = LetOut(received + 1) /\ pc' \in {"text", "getting"}
        /\ cancelled' = (cancelled \/ stopped')
    BY <1>7 DEF GetText
  <2>2. received + Texts(queue) = read
    BY <1>7 DEF IInv, TextInv
  <2>3. received' \in Nat /\ received' <= MaxChunks
    BY <1>5, <2>1, <2>2, StreamAssumption DEF StreamAssumption
  <2>4. emitted' \in 0 .. received'
    BY <1>5, <2>1, <2>3, LetOutFacts
  <2>5. TaskTypes'
    <3>1. received' \in 0 .. MaxChunks /\ emitted' \in 0 .. MaxChunks
      BY <2>3, <2>4, StreamAssumption DEF StreamAssumption
    <3>2. stopped' \in BOOLEAN /\ cancelled' \in BOOLEAN
      BY <2>1, Zenon DEF StopFound
    <3>3. pc' \in Sending \cup {"getting"}
      BY <2>1 DEF Sending
    <3> QED BY <1>1, <3>1, <3>2, <3>3, TypeParts DEF IInv, TaskTypes
  <2>6. TextInv'
    BY <1>1, <1>5, <2>1, <2>2 DEF TextInv
  <2>7. FilterInv'
    <3>1. stopped' <=> StopFound(received)'
      BY <1>1, <2>1 DEF StopFound
    <3>2. emitted' = LetOut(received)'
      BY <1>1, <2>1 DEF LetOut, StopFound
    <3>3. ~Contains(sent, "final")' /\ ~Complete(generated, finished)'
      BY <1>1, <1>4 DEF Complete
    <3> QED BY <2>1, <3>1, <3>2, <3>3 DEF FilterInv
  <2>8. SentInv'
    BY <1>1, <1>4, <2>1 DEF IInv, SentInv, EventsInOrder, AllText, Contains, Checking, Sending
  <2> QED BY <1>1, <1>2, <1>3, <2>5, <2>6, <2>7, <2>8, TypeParts, TakeFacts DEF IInv
<1> QED BY <1>6, <1>7

(* What a message that may be the last does to the filter and the task.    *)
LEMMA FinishPreserves ==
  ASSUME IInv, pc = "getting", Finish(generated', finished'),
         generated' \in BOOLEAN, finished' \in BOOLEAN,
         generated => generated', finished => finished',
         UNCHANGED <<stopAt, cancelled, received, stopped, sent, outcome>>
  PROVE  TaskTypes' /\ FilterInv' /\ SentInv'
<1>1. /\ AllText(sent) /\ ~Contains(sent, "final") /\ outcome = "none"
      /\ ~Complete(generated, finished) /\ (stopped <=> StopFound(received))
      /\ emitted = LetOut(received)
  BY OnlyText DEF IInv, SentInv, FilterInv, Complete
<1>2. /\ received \in Nat /\ stopAt \in Nat /\ emitted \in Nat /\ emitted <= received
  BY <1>1, Counts, LetOutFacts DEF IInv
<1>3. /\ pc' \in {"getting", "tail", "final"} /\ emitted' \in {emitted, received}
      /\ pc' = "getting" => ~Complete(generated', finished') /\ emitted' = emitted
      /\ pc' = "tail" => Complete(generated', finished') /\ ~stopped /\ emitted' = received
      /\ pc' = "final" => /\ Complete(generated', finished') /\ emitted' = emitted
                          /\ ~(~stopped /\ received > emitted)
  BY DEF Finish
<1>4. TaskTypes'
  BY <1>3, TypeParts DEF IInv, TaskTypes, Sending
<1>5. FilterInv'
  <2>1. (stopped <=> StopFound(received))' /\ LetOut(received)' = LetOut(received)
    BY <1>1 DEF StopFound, LetOut
  <2>2. pc' = "final" => stopped \/ emitted' = received
    BY <1>2, <1>3
  <2> QED BY <1>1, <1>3, <2>1, <2>2 DEF FilterInv, Complete
<1>6. SentInv'
  BY <1>1, <1>3 DEF IInv, SentInv, EventsInOrder, AllText, Contains, Checking, Sending
<1> QED BY <1>4, <1>5, <1>6

LEMMA GetEndPreserves ==
  ASSUME IInv, GetGenerated \/ GetStreamDone
  PROVE  IInv'
<1>1. PICK m \in {"generated", "stream_done"} : Message(m) /\
        (m = "stream_done" => GetStreamDone) /\ (m = "generated" => GetGenerated)
  BY DEF GetGenerated, GetStreamDone
<1>2. /\ pc = "getting" /\ Finish(generated', finished')
      /\ generated' \in BOOLEAN /\ finished' \in BOOLEAN
      /\ (generated => generated') /\ (finished => finished')
      /\ finished' => finished \/ m = "stream_done"
      /\ UNCHANGED <<stopAt, worker, made, ended, consumer, read>>
      /\ UNCHANGED <<cancelled, received, stopped, sent, outcome>>
  <2>1. CASE m = "generated"
    BY <1>1, <2>1, TypeParts DEF GetGenerated, Message, threads, IInv, TaskTypes
  <2>2. CASE m = "stream_done"
    BY <1>1, <2>2, TypeParts DEF GetStreamDone, Message, threads, IInv, TaskTypes
  <2> QED BY <2>1, <2>2
<1>3. ThreadTypes' /\ ThreadInv'
  BY <1>2, TypeParts, ThreadsUnchanged DEF threads, IInv, ThreadInv
<1>4. TaskTypes' /\ FilterInv' /\ SentInv'
  BY <1>2, FinishPreserves
<1>5. QueueInv'
  <2>1. Contains(queue', "stream_done") \/ finished' => consumer = "ended"
    BY <1>1, <1>2, TakeFacts DEF IInv, QueueInv
  <2>2. finished' => NoText(queue')
    BY <1>1, <1>2, TakeFacts DEF IInv, QueueInv
  <2> QED BY <1>1, <1>2, <2>1, <2>2, TakeFacts DEF QueueInv
<1>6. TextInv'
  <2>1. Texts(queue') = Texts(queue)
    BY <1>1, TakeFacts
  <2> QED BY <1>2, <2>1 DEF IInv, TextInv
<1> QED BY <1>1, <1>3, <1>4, <1>5, <1>6, TypeParts, TakeFacts DEF IInv

-----------------------------------------------------------------------------
(* A step of the task that takes no message and pushes no text.            *)
LEMMA QuietKeeps ==
  ASSUME IInv, UNCHANGED <<threads, queue, filter, flags>>, cancelled' \in BOOLEAN,
         pc' \in {"getting", "final", "done", "joining", "abandoned", "finalizing", "over"},
         sent' \in Seq({"text", "final", "done", "error"}),
         outcome' \in {"none", "success", "timeout", "error", "broken", "cut", "dropped",
                       "disconnected"},
         pc' = "getting" => ~Complete(generated, finished),
         pc' \in {"final", "done"} \/ Contains(sent', "final") =>
           pc \in {"tail", "final", "done"} \/ Contains(sent, "final"),
         SentInv'
  PROVE  IInv'
<1>1. /\ UNCHANGED <<stopAt, worker, made, ended, consumer, read>>
      /\ UNCHANGED <<queue, received, emitted, stopped, generated, finished>>
  BY DEF threads, filter, flags
<1>2. ThreadTypes' /\ ThreadInv'
  BY <1>1, TypeParts, ThreadsUnchanged DEF threads, IInv, ThreadInv
<1>3. TaskTypes'
  BY <1>1, TypeParts DEF IInv, TaskTypes, Sending
<1>4. QueueInv' /\ TextInv'
  BY <1>1 DEF IInv, QueueInv, TextInv, Texts, NoText, Contains
<1>5. FilterInv'
  <2>1. (stopped <=> StopFound(received))' /\ LetOut(received)' = LetOut(received)
    BY <1>1 DEF IInv, FilterInv, StopFound, LetOut
  <2>2. Complete(generated, finished)' <=> Complete(generated, finished)
    BY <1>1 DEF Complete
  <2> QED BY <1>1, <2>1, <2>2 DEF IInv, FilterInv
<1>6. queue' \in Seq(Messages)
  BY <1>1, Counts DEF IInv
<1> QED BY <1>2, <1>3, <1>4, <1>5, <1>6, TypeParts DEF IInv

LEMMA SendPreserves ==
  ASSUME IInv, Send
  PROVE  IInv'
<1> DEFINE e == IF pc = "tail" THEN "text" ELSE pc
           Kinds == {"text", "final", "done", "error"}
           n == Len(sent)
<1>1. /\ UNCHANGED <<threads, queue, filter, flags>> /\ sent' = Append(sent, e)
      /\ pc \in Sending /\ e \in Kinds
  BY DEF Send, Sending
<1>2. cancelled' \in BOOLEAN
  BY Zenon DEF Send
<1>3. /\ sent \in Seq(Kinds)
      /\ (pc \in Checking => AllText(sent)) /\ outcome = "none"
  BY <1>1, TypeParts DEF IInv, TaskTypes, SentInv, Checking
<1>4. /\ sent' \in Seq(Kinds) /\ n \in Nat /\ DOMAIN sent = 1 .. n /\ DOMAIN sent' = 1 .. n + 1
      /\ (\A i \in 1 .. n : sent'[i] = sent[i]) /\ sent'[n + 1] = e
      /\ (\A x : Contains(sent', x) <=> Contains(sent, x) \/ x = e) /\ Len(sent') = n + 1
  BY <1>1, <1>3, AppendFacts
<1> HIDE DEF n
<1>5. CASE pc \in {"text", "tail"}
  <2>1. e = "text" /\ pc' = (IF pc = "text" THEN "getting" ELSE "final") /\ outcome' = outcome
    BY <1>5 DEF Send
  <2>2. AllText(sent') /\ ~Contains(sent', "final") /\ ~Contains(sent', "done")
    BY <1>3, <1>4, <1>5, <2>1, OnlyText DEF AllText, Checking, Sending
  <2>3. SentInv'
    BY <1>3, <1>5, <2>1, <2>2 DEF SentInv, EventsInOrder, AllText, Checking, Sending
  <2>4. pc = "text" => ~Complete(generated, finished)
    BY DEF IInv, FilterInv
  <2>5. pc' \in {"getting", "final"} /\ outcome' = "none"
    BY ONLY <1>3, <1>5, <2>1
  <2>6. pc' = "getting" => ~Complete(generated, finished)
    BY ONLY <1>5, <2>1, <2>4
  <2>7. pc' \in {"final", "done"} \/ Contains(sent', "final") =>
          pc \in {"tail", "final", "done"} \/ Contains(sent, "final")
    BY ONLY <1>5, <2>1, <2>2
  <2>8. /\ pc' \in {"getting", "final", "done", "joining", "abandoned", "finalizing", "over"}
        /\ outcome' \in {"none", "success", "timeout", "error", "broken", "cut", "dropped",
                         "disconnected"}
    BY ONLY <2>5
  <2>9. sent' \in Seq({"text", "final", "done", "error"})
    BY ONLY <1>4
  <2>10. UNCHANGED <<threads, queue, filter, flags>>
    BY ONLY <1>1
  <2> QED BY ONLY IInv, <1>2, <2>3, <2>6, <2>7, <2>8, <2>9, <2>10, QuietKeeps, Zenon
<1>6. CASE pc = "final"
  <2>1. e = "final" /\ pc' = "done" /\ outcome' = outcome
    BY <1>6 DEF Send
  <2>2. /\ \A i \in 1 .. n : sent'[i] = "text"
        /\ ~Contains(sent', "done") /\ ~Contains(sent', "error")
    BY <1>3, <1>4, <1>6, <2>1, OnlyText DEF AllText, Checking, Sending
  <2>3. SentInv'
    BY <1>3, <1>4, <2>1, <2>2 DEF SentInv, EventsInOrder, Checking, Sending
  <2> HIDE DEF e
  <2> QED BY <1>1, <1>2, <1>3, <1>4, <1>6, <2>1, <2>3, QuietKeeps
<1>7. CASE pc = "done"
  <2>1. e = "done" /\ pc' = "joining" /\ outcome' = "success"
    <3>1. outcome' = IF pc = "done" THEN "success" ELSE outcome
      BY Zenon DEF Send
    <3>2. pc' = CASE pc = "text" -> "getting" [] pc = "tail" -> "final"
                  [] pc = "final" -> "done" [] pc = "done" -> "joining"
      BY Zenon DEF Send
    <3> QED BY ONLY <1>7, <3>1, <3>2
  <2>2. \A i \in 1 .. n : sent[i] = "text" \/ (sent[i] = "final" /\ i = n)
    BY <1>4, <1>7 DEF IInv, SentInv, n
  <2>3. ~Contains(sent', "error") /\ Contains(sent', "done")
    BY <1>4, <2>1, <2>2 DEF Contains
  <2>4. EventsInOrder'
    <3>1. ASSUME NEW i \in DOMAIN sent', NEW j \in DOMAIN sent', i < j
          PROVE  /\ sent'[i] # "error" /\ (sent'[i] = "done" => sent'[j] = "error")
                 /\ (sent'[i] = "final" => sent'[j] \in {"done", "error"})
      BY <1>4, <2>1, <2>2, <3>1
    <3> QED BY <2>1, <2>3, <3>1 DEF EventsInOrder
  <2>5. SentInv'
    BY <2>1, <2>3, <2>4 DEF SentInv, Checking, Sending
  <2> HIDE DEF e
  <2> QED BY <1>1, <1>2, <1>3, <1>4, <1>7, <2>1, <2>5, QuietKeeps
<1> QED BY <1>1, <1>5, <1>6, <1>7 DEF Sending

(* The one event that may follow others when the request is cut short.     *)
LEMMA ErrorFollows ==
  ASSUME IInv, NEW how, outcome' = how, how \notin {"success", "none"},
         ~Contains(sent, "error"), Contains(sent, "done") => how = "timeout",
         sent' = sent \/ sent' = Append(sent, "error")
  PROVE  /\ sent' \in Seq({"text", "final", "done", "error"}) /\ EventsInOrder'
         /\ Contains(sent', "final") => Contains(sent, "final")
<1>1. sent \in Seq({"text", "final", "done", "error"}) /\ EventsInOrder
  BY TypeParts DEF IInv, TaskTypes, SentInv
<1>2. CASE sent' = sent
  BY <1>1, <1>2 DEF EventsInOrder, Contains
<1>3. CASE sent' = Append(sent, "error")
  <2> DEFINE n == Len(sent)
  <2>1. /\ sent' \in Seq({"text", "final", "done", "error"})
        /\ n \in Nat /\ DOMAIN sent = 1 .. n /\ DOMAIN sent' = 1 .. n + 1
        /\ (\A i \in 1 .. n : sent'[i] = sent[i]) /\ sent'[n + 1] = "error"
        /\ (\A x : Contains(sent', x) <=> Contains(sent, x) \/ x = "error")
    BY <1>1, <1>3, AppendFacts
  <2>2. \A i \in 1 .. n : sent[i] # "error"
    BY <2>1 DEF Contains
  <2> HIDE DEF n
  <2>3. ASSUME NEW i \in DOMAIN sent', NEW j \in DOMAIN sent', i < j
        PROVE  /\ sent'[i] # "error" /\ (sent'[i] = "done" => sent'[j] = "error")
               /\ (sent'[i] = "final" => sent'[j] \in {"done", "error"})
    <3>1. i \in 1 .. n /\ (j \in 1 .. n \/ j = n + 1)
      BY <2>1, <2>3
    <3> QED BY <1>1, <2>1, <2>2, <2>3, <3>1 DEF EventsInOrder
  <2>4. Contains(sent', "done") => outcome' = "timeout"
    BY <2>1
  <2> QED BY <2>1, <2>3, <2>4 DEF EventsInOrder
<1> QED BY <1>2, <1>3

LEMMA GetErrorPreserves ==
  ASSUME IInv, GetError
  PROVE  IInv'
<1>1. /\ Message("error") /\ pc = "getting" /\ pc' = "joining"
      /\ outcome' \in {"error", "broken"} /\ sent' = sent
      /\ UNCHANGED <<stopAt, worker, made, ended, consumer, read>>
      /\ UNCHANGED <<received, emitted, stopped, generated, finished>>
  BY DEF GetError, Message, threads, filter, flags
<1>2. cancelled' \in BOOLEAN
  BY Zenon DEF GetError
<1>3. /\ AllText(sent) /\ ~Contains(sent, "final") /\ ~Contains(sent, "done")
      /\ ~Contains(sent, "error")
  BY <1>1, OnlyText DEF IInv, SentInv
<1>4. ThreadTypes' /\ ThreadInv'
  BY <1>1, TypeParts, ThreadsUnchanged DEF threads, IInv, ThreadInv
<1>5. TaskTypes'
  BY <1>1, <1>2, TypeParts DEF IInv, TaskTypes
<1>6. QueueInv' /\ TextInv'
  <2>1. QueueInv'
    BY <1>1, TakeFacts DEF IInv, QueueInv
  <2>2. Texts(queue') = Texts(queue)
    BY <1>1, TakeFacts
  <2> QED BY <1>1, <2>1, <2>2 DEF IInv, TextInv
<1>7. FilterInv'
  BY <1>1, <1>3 DEF IInv, FilterInv, StopFound, LetOut, Contains
<1>8. SentInv'
  <2>1. EventsInOrder'
    BY <1>1, <1>3, ErrorFollows
  <2> QED BY <1>1, <1>3, <2>1 DEF SentInv, Checking, Sending, AllText, Contains
<1> QED BY <1>1, <1>4, <1>5, <1>6, <1>7, <1>8, TypeParts, TakeFacts DEF IInv

(* The task stops waiting or sending: the client left, or it is cut short. *)
LEMMA CutPreserves ==
  ASSUME IInv, NEW how \in {"timeout", "error", "cut", "dropped", "disconnected"},
         outcome' = how, pc' \in {"joining", "abandoned", "over"},
         UNCHANGED <<threads, queue, filter, flags>>, cancelled' \in BOOLEAN,
         pc' = "joining" => AllText(sent) /\ sent' = sent,
         ~Contains(sent, "error"), Contains(sent, "done") => how = "timeout",
         sent' = sent \/ sent' = Append(sent, "error")
  PROVE  IInv'
<1>1. /\ sent' \in Seq({"text", "final", "done", "error"}) /\ EventsInOrder'
      /\ Contains(sent', "final") => Contains(sent, "final")
  BY ErrorFollows
<1>2. SentInv'
  BY <1>1 DEF SentInv, Checking, Sending, AllText, Contains
<1> QED BY <1>1, <1>2, QuietKeeps

LEMMA InterruptPreserves ==
  ASSUME IInv, NEW how \in {"timeout", "cut"}, Interrupt(how)
  PROVE  IInv'
<1>1. UNCHANGED <<threads, queue, filter, flags>>
  BY DEF Interrupt
<1>2. cancelled \in BOOLEAN
  BY TypeParts DEF IInv, TaskTypes
<1>3. CASE /\ pc = "getting" /\ pc' = "joining" /\ cancelled' = TRUE
           /\ outcome' = how /\ UNCHANGED sent
  <2>1. AllText(sent) /\ ~Contains(sent, "error") /\ ~Contains(sent, "done")
    BY <1>3, OnlyText DEF IInv, SentInv
  <2> QED BY <1>1, <1>3, <2>1, CutPreserves
<1>4. CASE /\ pc = "joining" /\ outcome \notin {how, "cut"} /\ pc' = "over"
           /\ outcome' = how /\ sent' = Event(how) /\ UNCHANGED cancelled
  <2>1. ~Contains(sent, "error") /\ (outcome # "success" => AllText(sent))
    BY <1>4 DEF IInv, SentInv
  <2>2. CASE how = "timeout"
    BY <1>1, <1>2, <1>4, <2>1, <2>2, CutPreserves DEF Event
  <2>3. CASE how = "cut"
    <3>1. sent' = sent
      BY <1>4, <2>3 DEF Event
    <3>2. SentInv'
      BY <1>4, <2>1, <2>3, <3>1 DEF IInv, SentInv, EventsInOrder, Checking, Sending, Contains
    <3>3. sent \in Seq({"text", "final", "done", "error"})
      BY TypeParts DEF IInv, TaskTypes
    <3> QED BY <1>1, <1>2, <1>4, <2>3, <3>1, <3>2, <3>3, QuietKeeps
  <2> QED BY <2>2, <2>3
<1>5. CASE /\ pc \in Checking /\ pc' = "abandoned"
           /\ outcome' = how /\ sent' = Event(how) /\ UNCHANGED cancelled
  <2>1. AllText(sent) /\ ~Contains(sent, "error") /\ ~Contains(sent, "done")
    BY <1>5, OnlyText DEF IInv, SentInv
  <2>2. sent' = sent \/ sent' = Append(sent, "error")
    BY <1>5 DEF Event
  <2> QED BY <1>1, <1>2, <1>5, <2>1, <2>2, CutPreserves
<1>6. CASE /\ pc \in Sending /\ pc' = "abandoned"
           /\ outcome' = "dropped" /\ UNCHANGED <<cancelled, sent>>
  <2>1. ~Contains(sent, "error") /\ ~Contains(sent, "done")
    <3>1. CASE pc \in Checking
      BY <3>1, OnlyText DEF IInv, SentInv
    <3>2. CASE pc = "done"
      <4>1. DOMAIN sent = 1 .. Len(sent)
        BY TypeParts, LenProperties DEF IInv, TaskTypes
      <4> QED BY <3>2, <4>1 DEF IInv, SentInv, Contains
    <3> QED BY <1>6, <3>1, <3>2 DEF Checking
  <2> QED BY <1>1, <1>2, <1>6, <2>1, CutPreserves
<1> QED BY <1>3, <1>4, <1>5, <1>6 DEF Interrupt

LEMMA ClosePreserves ==
  ASSUME IInv, Disconnect \/ Close
  PROVE  IInv'
<1>1. cancelled \in BOOLEAN /\ sent \in Seq({"text", "final", "done", "error"})
  BY TypeParts DEF IInv, TaskTypes
<1>2. CASE Disconnect
  <2>1. AllText(sent) /\ ~Contains(sent, "error") /\ ~Contains(sent, "done")
    BY <1>2, OnlyText DEF Disconnect, IInv, SentInv
  <2> QED BY <1>1, <1>2, <2>1, CutPreserves DEF Disconnect
<1>3. CASE Finalize
  <2>1. SentInv'
    BY <1>3 DEF Finalize, IInv, SentInv, EventsInOrder, Checking, Sending, Contains
  <2>2. outcome \in {"none", "success", "timeout", "error", "broken", "cut", "dropped",
                     "disconnected"}
    BY TypeParts DEF IInv, TaskTypes
  <2> QED BY <1>1, <1>3, <2>1, <2>2, QuietKeeps DEF Finalize
<1>4. CASE Joined
  <2>1. /\ UNCHANGED <<threads, queue, cancelled, filter, flags, outcome>> /\ pc' = "over"
        /\ sent' = IF pc = "joining" THEN Event(outcome) ELSE sent
    BY <1>4 DEF Joined
  <2>2. CASE pc = "joining" /\ outcome \in {"timeout", "error"}
    <3>1. AllText(sent) /\ ~Contains(sent, "error") /\ ~Contains(sent, "done")
      BY <2>2, OnlyText DEF IInv, SentInv
    <3> QED BY <1>1, <2>1, <2>2, <3>1, CutPreserves DEF Event
  <2>3. CASE ~(pc = "joining" /\ outcome \in {"timeout", "error"})
    <3>1. sent' = sent
      BY <2>1, <2>3 DEF Event
    <3>2. SentInv'
      BY <2>1, <3>1 DEF IInv, SentInv, EventsInOrder, Checking, Sending, Contains
    <3>3. outcome \in {"none", "success", "timeout", "error", "broken", "cut", "dropped",
                       "disconnected"}
      BY TypeParts DEF IInv, TaskTypes
    <3> QED BY <1>1, <2>1, <3>1, <3>2, <3>3, QuietKeeps
  <2> QED BY <2>2, <2>3
<1> QED BY <1>2, <1>3, <1>4 DEF Close

LEMMA StutterKeeps ==
  ASSUME IInv, UNCHANGED vars
  PROVE  IInv'
<1>1. /\ UNCHANGED <<threads, queue, filter, flags>>
      /\ UNCHANGED <<stopAt, worker, made, ended, consumer, read>>
      /\ UNCHANGED <<cancelled, pc, received, emitted, stopped, generated, finished>>
      /\ UNCHANGED <<sent, outcome, task>>
  BY DEF vars, threads, filter, flags, task
<1>2. TypeOK' /\ ThreadInv'
  BY <1>1, TypeParts, ThreadsUnchanged, TaskUnchanged DEF IInv, ThreadInv
<1>3. QueueInv' /\ TextInv'
  BY <1>1 DEF IInv, QueueInv, TextInv, Texts, NoText, Contains
<1>4. FilterInv' /\ SentInv'
  BY <1>1 DEF IInv, FilterInv, SentInv, EventsInOrder, AllText, Contains, StopFound, LetOut
<1> QED BY <1>2, <1>3, <1>4 DEF IInv

(* The invariant holds of every state of the stream.                       *)
THEOREM Invariance == Spec => []IInv
<1>1. ASSUME IInv, [Next]_vars PROVE IInv'
  <2>1. CASE Worker
    BY <1>1, <2>1, WorkerPreserves
  <2>2. CASE Consumer
    BY <1>1, <2>2, ConsumerPreserves
  <2>3. CASE Get
    BY <1>1, <2>3, GetTextPreserves, GetEndPreserves, GetErrorPreserves DEF Get
  <2>4. CASE Send
    BY <1>1, <2>4, SendPreserves
  <2>5. CASE Disconnect \/ Close
    BY <1>1, <2>5, ClosePreserves
  <2>6. CASE \E how \in {"timeout", "cut"} : Interrupt(how)
    BY <1>1, <2>6, InterruptPreserves
  <2>7. CASE Over \/ UNCHANGED vars
    BY <1>1, <2>7, StutterKeeps DEF Over
  <2> QED BY <1>1, <2>1, <2>2, <2>3, <2>4, <2>5, <2>6, <2>7 DEF Next
<1> QED BY <1>1, InitInv, PTL DEF Spec

-----------------------------------------------------------------------------
(* Every variable keeps its type: no chunk is counted twice, so that the   *)
(* filter never has more than was generated.                               *)
THEOREM TypeCorrect == Spec => []TypeOK
<1>1. IInv => TypeOK
  BY DEF IInv
<1> QED BY <1>1, Invariance, PTL

(* When both threads have said that they are done, and the filter has met  *)
(* no stop string, it has had everything that was generated.               *)
LEMMA AllReceived ==
  ASSUME IInv, finished, ~stopped
  PROVE  received = made
<1>1. Texts(queue) = 0
  BY NoTextIsNone DEF IInv, QueueInv
<1> QED BY <1>1, Counts DEF IInv, QueueInv, ThreadInv, TextInv

(* For any amount of text, whichever thread ends first, the final event    *)
(* follows all of it up to the stop string (transformers.py:270-281).      *)
THEOREM FinalFollowsAll == Spec => []FinalIsComplete
<1>1. ASSUME IInv PROVE FinalIsComplete
  <2> SUFFICES ASSUME pc \in {"final", "done"} \/ Contains(sent, "final")
               PROVE  emitted = IF StopFound(made) THEN stopAt - 1 ELSE made
    BY DEF FinalIsComplete, StopFound
  <2>1. generated /\ finished /\ (stopped \/ emitted = received)
    BY <1>1 DEF IInv, FilterInv
  <2>2. /\ received \in Nat /\ made \in Nat /\ stopAt \in Nat /\ received <= made
        /\ (stopped <=> StopFound(received))
    BY <1>1, Counts DEF IInv, ThreadInv, TextInv, FilterInv
  <2>3. CASE stopped
    <3>1. emitted = LetOut(received)
      BY <1>1, <2>3 DEF IInv, FilterInv
    <3> QED BY <2>2, <2>3, <3>1, LetOutFacts
  <2>4. CASE ~stopped
    BY <1>1, <2>1, <2>2, <2>4, AllReceived
  <2> QED BY <2>3, <2>4
<1> QED BY <1>1, Invariance, PTL

(* No chunk of a complete stop string leaves the filter, for any stop      *)
(* string and any hold-back (transformers.py:38-60).                       *)
THEOREM StopStaysBack == Spec => []StopIsNotSent
<1>1. ASSUME IInv PROVE StopIsNotSent
  <2> SUFFICES ASSUME StopFound(made) PROVE emitted < stopAt
    BY DEF StopIsNotSent
  <2>1. /\ received \in Nat /\ made \in Nat /\ stopAt \in Nat /\ received <= made
        /\ (stopped <=> StopFound(received))
    BY <1>1, Counts DEF IInv, ThreadInv, TextInv, FilterInv
  <2>2. CASE emitted = LetOut(received)
    BY <2>1, <2>2, LetOutFacts
  <2>3. CASE emitted = received /\ ~stopped /\ generated /\ finished
    BY <1>1, <2>1, <2>3, AllReceived
  <2> QED BY <1>1, <2>2, <2>3 DEF IInv, FilterInv
<1> QED BY <1>1, Invariance, PTL

(* Text, the final event, [DONE], or an error after which nothing comes:   *)
(* for every way in which a stream can end (routes_chat.py:107-164).       *)
THEOREM EventsStayInOrder == Spec => []EventsInOrder
<1>1. IInv => EventsInOrder
  BY DEF IInv, SentInv
<1> QED BY <1>1, Invariance, PTL
=============================================================================
