---------------------------- MODULE SessionLemmas ---------------------------
(***************************************************************************)
(* What each step of a session does, whoever its peer is.                  *)
(***************************************************************************)
EXTENDS Session, MessageLemmas

-----------------------------------------------------------------------------
(* Types                                                                   *)

WriteOps == [text : Replies, put : 0..2]

LEMMA AsyncWriteType ==
  ASSUME NEW text \in Replies
  PROVE  AsyncWrite(text) \in WriteOps /\ AsyncWrite(text).text = text /\ AsyncWrite(text).put = 0
  BY DEF AsyncWrite, WriteOps

LEMMA AdvanceType ==
  ASSUME NEW op \in WriteOps, op.put < 2
  PROVE  /\ [op EXCEPT !.put = @ + 1] \in WriteOps
         /\ [op EXCEPT !.put = @ + 1].text = op.text
         /\ [op EXCEPT !.put = @ + 1].put = op.put + 1
  BY DEF WriteOps

LEMMA QueueTypes ==
  ASSUME TypeOK
  PROVE  /\ served \in Seq(Frames) /\ msgs \in Seq(Replies) /\ answered \in Seq(Replies)
         /\ Len(served) \in Nat /\ Len(msgs) \in Nat /\ Len(answered) \in Nat
         /\ writes \in Seq(WriteOps) /\ Len(writes) \in Nat
         /\ outbound \in Seq(Symbols)
         /\ \A i \in 1..Len(writes) :
              writes[i] \in WriteOps /\ writes[i].text \in Replies /\ writes[i].put \in 0..2
<1>1. writes \in Seq(WriteOps)
  BY DEF TypeOK, WriteOps
<1>2. \A i \in 1..Len(writes) : writes[i] \in WriteOps
  BY <1>1
<1>3. \A op \in WriteOps : op.text \in Replies /\ op.put \in 0..2
  BY DEF WriteOps
<1>4. /\ served \in Seq(Frames) /\ msgs \in Seq(Replies) /\ answered \in Seq(Replies)
      /\ outbound \in Seq(Symbols)
  BY DEF TypeOK
<1> HIDE DEF Frames, Replies, Symbols, WriteOps
<1> QED BY <1>1, <1>2, <1>3, <1>4

\* A step leaves every variable in its type when parse_json is given nothing
\* but texts.
LEMMA StepTypes ==
  ASSUME TypeOK, Step, peerEnd' \in {"open", "fin", "reset"},
         OnRead => NextText(streambuf) \in Frames /\ AfterText(streambuf) \in Seq(Symbols)
  PROVE  TypeOK'
<1> USE DEF TypeOK
<1>1. CASE Start
  BY <1>1 DEF Start
<1>2. CASE OnRead
  <2> DEFINE text == NextText(streambuf)
             answer == Reply(text)
  <2>1. text \in Frames /\ answer \in Replies
    BY <1>2, ReplyIsReply
  <2>2. /\ streambuf' \in Seq(Symbols)
        /\ served' = Append(served, text)
        /\ msgs' = Append(msgs, answer)
        /\ writes' = StartWrite(msgs')
    BY <1>2 DEF OnRead, ParseJson, WriteResponse, PushBack
  <2> HIDE DEF text, answer
  <2>3. served' \in Seq(Frames) /\ msgs' \in Seq(Replies)
    BY <2>1, <2>2
  <2>4. msgs' # <<>> /\ Head(msgs') \in Replies
    BY <2>1, <2>2, <2>3
  <2>5. AsyncWrite(Head(msgs')) \in WriteOps
    BY <2>4, AsyncWriteType
  <2>6. writes' \in Seq(WriteOps)
    BY <2>2, <2>5, QueueTypes DEF StartWrite
  <2> QED BY <1>2, <2>2, <2>3, <2>6 DEF OnRead, WriteOps
<1>3. CASE OnReadError
  BY <1>3 DEF OnReadError
<1>4. ASSUME NEW n \in 1..Len(inbound), Receive(n)
      PROVE  TypeOK'
  <2>1. streambuf' \in Seq(Symbols) /\ inbound' \in Seq(Symbols)
    BY <1>4, MoveBetween DEF Receive
  <2> QED BY <1>4, <2>1 DEF Receive
<1>5. ASSUME NEW i \in 1..Len(writes), Transmit(i)
      PROVE  TypeOK'
  <2>1. /\ writes[i] \in WriteOps
        /\ writes[i].text \in Replies /\ writes[i].put \in 0..1
    BY <1>5, QueueTypes DEF Transmit
  <2>2. Encode(writes[i].text)[writes[i].put + 1] \in Symbols
    BY <2>1 DEF Encode, Symbols
  <2>3. outbound' \in Seq(Symbols)
    BY <1>5, <2>2 DEF Transmit
  <2> DEFINE op == [writes[i] EXCEPT !.put = @ + 1]
  <2>4. op \in WriteOps
    BY <1>5, <2>1, AdvanceType, Zenon DEF Transmit
  <2>5. writes' = [writes EXCEPT ![i] = op]
    BY <1>5 DEF Transmit
  <2> HIDE DEF op
  <2>6. writes' \in Seq(WriteOps)
    BY <2>4, <2>5, QueueTypes, ExceptSeq
  <2> QED BY <1>5, <2>3, <2>6 DEF Transmit, WriteOps
<1>6. ASSUME NEW i \in 1..Len(writes), OnWritten(i)
      PROVE  TypeOK'
  <2>1. writes[i].text \in Replies
    BY QueueTypes
  <2>2. msgs' \in Seq(Replies) /\ answered' \in Seq(Replies)
    BY <1>6, <2>1 DEF OnWritten
  <2>3. RemoveAt(writes, i) \in Seq(WriteOps)
    BY RemoveKeepsType DEF WriteOps
  <2>4. msgs' # <<>> => AsyncWrite(Head(msgs')) \in WriteOps
    BY <2>2, AsyncWriteType
  <2>5. writes' \in Seq(WriteOps)
    BY <1>6, <2>3, <2>4, SMTT(30) DEF OnWritten, WriteOn
  <2> QED BY <1>6, <2>2, <2>5 DEF OnWritten, WriteOps
<1>7. ASSUME NEW i \in 1..Len(writes), OnWriteError(i)
      PROVE  TypeOK'
  <2>1. RemoveAt(writes, i) \in Seq(WriteOps)
    BY RemoveKeepsType DEF WriteOps
  <2> QED BY <1>7, <2>1 DEF OnWriteError, WriteOps
<1> QED BY <1>1, <1>2, <1>3, <1>4, <1>5, <1>6, <1>7 DEF Step, Read, Write

-----------------------------------------------------------------------------
(* Writing                                                                 *)

\* The answers of what parse_json was given.
Replied == [i \in 1..Len(served) |-> Reply(served[i])]

\* What a session has answered and what it queues are, together and in order,
\* these answers.
AnswersOK ==
    /\ Len(answered) + Len(msgs) = Len(served)
    /\ \A i \in 1..Len(answered) : answered[i] = Reply(served[i])
    /\ \A i \in 1..Len(msgs) : msgs[i] = Reply(served[Len(answered) + i])

\* At most one async_write is outstanding, of the message in front.
WriterOK ==
    /\ Len(writes) <= 1
    /\ writes # <<>> => msgs # <<>> /\ writes[1].text = Head(msgs)

\* n symbols are those of the answers given and those taken of the next.
SymbolsPut(n) ==
    /\ writes # <<>> => n = 2 * Len(answered) + writes[1].put
    /\ msgs = <<>> => n = 2 * Len(answered)

Quiet == UNCHANGED <<served, answered, msgs, writes, outbound>>

Serves(text) ==
    /\ served' = Append(served, text)
    /\ msgs' = Append(msgs, Reply(text))
    /\ writes' = IF msgs = <<>> THEN Append(writes, AsyncWrite(Head(msgs'))) ELSE writes
    /\ UNCHANGED <<answered, outbound>>

WriteStep ==
    \/ Quiet
    \/ \E text \in Frames : Serves(text)
    \/ \E i \in 1..Len(writes) : Transmit(i) \/ OnWritten(i) \/ OnWriteError(i)

\* The steps that concern what is written.
LEMMA WriteCases ==
  ASSUME Step, OnRead => NextText(streambuf) \in Frames
  PROVE  WriteStep
<1>1. CASE OnRead
  BY <1>1 DEF OnRead, ParseJson, WriteResponse, PushBack, StartWrite, WriteStep, Serves
<1>2. CASE Start \/ OnReadError \/ \E n \in 1..Len(inbound) : Receive(n)
  BY <1>2 DEF Start, OnReadError, Receive, WriteStep, Quiet
<1> QED BY <1>1, <1>2 DEF Step, Read, Write, WriteStep

\* The one write outstanding, and what taking it away leaves.
LEMMA OneWrite ==
  ASSUME TypeOK, WriterOK, NEW i \in 1..Len(writes)
  PROVE  /\ i = 1 /\ writes # <<>> /\ Len(writes) = 1
         /\ msgs # <<>> /\ Len(msgs) >= 1 /\ Head(msgs) = msgs[1] /\ msgs[1] \in Replies
         /\ writes[1] \in WriteOps /\ writes[1].text = msgs[1]
         /\ RemoveAt(writes, i) = <<>>
<1>1. /\ writes \in Seq(WriteOps) /\ \A j \in 1..Len(writes) : writes[j] \in WriteOps
      /\ msgs \in Seq(Replies)
  BY QueueTypes
<1>2. Len(writes) <= 1 /\ i = 1 /\ writes # <<>> /\ Len(writes) = 1
  <2>1. Len(writes) \in Nat /\ Len(writes) <= 1
    BY <1>1, LenProperties DEF WriterOK
  <2> DEFINE k == Len(writes)
  <2>2. k \in Nat /\ k <= 1 /\ i \in 1..k
    BY <2>1
  <2> HIDE DEF k
  <2>3. k = 1 /\ i = 1
    BY <2>2
  <2>4. writes # <<>>
    BY <1>1, <2>3, EmptySeq DEF k
  <2> QED BY <2>1, <2>3, <2>4 DEF k
<1>3. RemoveAt(writes, i) = <<>>
  BY <1>1, <1>2, RemoveOnly
<1>4. msgs # <<>> /\ writes[1].text = Head(msgs) /\ writes[1] \in WriteOps
  BY <1>1, <1>2 DEF WriterOK
<1> HIDE DEF Replies, WriteOps
<1>5. Len(msgs) >= 1 /\ Head(msgs) = msgs[1] /\ msgs[1] \in Replies
  BY <1>1, <1>4
<1> QED BY <1>2, <1>3, <1>4, <1>5

LEMMA FirstOp ==
  ASSUME NEW op
  PROVE  Append(<<>>, op) = <<op>> /\ Len(<<op>>) = 1 /\ <<op>> # <<>> /\ <<op>>[1] = op
  OBVIOUS

\* What each handler does to the operation outstanding.
LEMMA ServesStarts ==
  ASSUME TypeOK, WriterOK, NEW text \in Frames, Serves(text)
  PROVE  /\ msgs' # <<>>
         /\ msgs = <<>> => writes' = <<AsyncWrite(Head(msgs'))>>
         /\ msgs # <<>> => writes' = writes /\ Head(msgs') = Head(msgs)
<1>1. Reply(text) \in Replies /\ msgs \in Seq(Replies)
  BY ReplyIsReply, QueueTypes
<1>2. msgs' # <<>> /\ (msgs # <<>> => Head(msgs') = Head(msgs))
  <2> HIDE DEF Replies
  <2> QED BY <1>1 DEF Serves
<1>3. msgs = <<>> => writes = <<>>
  BY DEF WriterOK
<1> QED BY <1>2, <1>3, FirstOp, Zenon DEF Serves

LEMMA TransmitDoes ==
  ASSUME TypeOK, WriterOK, NEW i \in 1..Len(writes), Transmit(i)
  PROVE  /\ writes[1].put \in 0..1
         /\ outbound' = Append(outbound, Encode(msgs[1])[writes[1].put + 1])
         /\ Len(writes') = 1 /\ writes' # <<>>
         /\ writes'[1].text = writes[1].text /\ writes'[1].put = writes[1].put + 1
         /\ UNCHANGED <<served, answered, msgs>>
<1>1. i = 1 /\ Len(writes) = 1 /\ writes[1] \in WriteOps /\ writes[1].text = msgs[1]
  BY OneWrite
<1>2. writes \in Seq(WriteOps) /\ writes[1].put \in 0..2
  BY <1>1, QueueTypes
<1>3. /\ writes[1].put \in 0..1
      /\ outbound' = Append(outbound, Encode(msgs[1])[writes[1].put + 1])
      /\ writes' = [writes EXCEPT ![1].put = @ + 1]
      /\ UNCHANGED <<served, answered, msgs>>
  BY <1>1, <1>2 DEF Transmit
<1> DEFINE op == [writes[1] EXCEPT !.put = @ + 1]
<1>4. op \in WriteOps /\ op.text = writes[1].text /\ op.put = writes[1].put + 1
  <2>1. writes[1].put < 2
    BY <1>3
  <2> QED BY <1>1, <2>1, AdvanceType, Zenon
<1>5. writes' = [writes EXCEPT ![1] = op]
  BY <1>3
<1> HIDE DEF op
<1>6. Len(writes') = 1 /\ writes'[1] = op
  BY <1>1, <1>2, <1>4, <1>5, ExceptSeq
<1>7. writes' # <<>>
  BY <1>6
<1> QED BY <1>3, <1>4, <1>6, <1>7

LEMMA WrittenDoes ==
  ASSUME TypeOK, WriterOK, NEW i \in 1..Len(writes), OnWritten(i)
  PROVE  /\ writes # <<>> /\ writes[1].put = 2
         /\ msgs # <<>> /\ msgs' = Tail(msgs)
         /\ answered' = Append(answered, msgs[1])
         /\ writes' = IF msgs' = <<>> THEN <<>> ELSE <<AsyncWrite(Head(msgs'))>>
         /\ UNCHANGED <<served, outbound>>
<1>1. i = 1 /\ writes # <<>> /\ RemoveAt(writes, i) = <<>> /\ writes[1].text = msgs[1]
  BY OneWrite
<1>2. /\ writes[1].put = 2 /\ msgs # <<>> /\ msgs' = Tail(msgs)
      /\ answered' = Append(answered, msgs[1])
      /\ writes' = IF msgs' = <<>> THEN RemoveAt(writes, i)
                   ELSE Append(RemoveAt(writes, i), AsyncWrite(Head(msgs')))
      /\ UNCHANGED <<served, outbound>>
  BY <1>1 DEF OnWritten, WriteOn
<1> QED BY <1>1, <1>2, FirstOp, Zenon

LEMMA ErrorDoes ==
  ASSUME TypeOK, WriterOK, NEW i \in 1..Len(writes), OnWriteError(i)
  PROVE  /\ peerEnd = "reset" /\ writes' = <<>> /\ msgs # <<>>
         /\ UNCHANGED <<served, answered, msgs, outbound>>
  BY OneWrite DEF OnWriteError

\* While an answer waits on a connection that is not reset it is being written.
AtWork == msgs # <<>> /\ peerEnd # "reset" => writes # <<>>

\* The write a handler starts is that of the message in front, and one is
\* started whenever a message is left.
LEMMA WriterStep ==
  ASSUME TypeOK, WriterOK, WriteStep
  PROVE  /\ WriterOK'
         /\ AtWork /\ (peerEnd' # "reset" => peerEnd # "reset") => AtWork'
<1>1. ASSUME NEW text, writes' = <<AsyncWrite(text)>>
      PROVE  Len(writes') = 1 /\ writes' # <<>> /\ writes'[1].text = text
  BY <1>1 DEF AsyncWrite
<1>2. CASE Quiet
  BY <1>2 DEF Quiet, WriterOK, AtWork
<1>3. ASSUME NEW text \in Frames, Serves(text)
      PROVE  WriterOK' /\ (AtWork /\ (peerEnd' # "reset" => peerEnd # "reset") => AtWork')
  <2>1. CASE msgs = <<>>
    <3>1. writes' = <<AsyncWrite(Head(msgs'))>> /\ msgs' # <<>>
      BY <1>3, <2>1, ServesStarts
    <3> QED BY <1>1, <3>1 DEF WriterOK, AtWork
  <2>2. CASE msgs # <<>>
    BY <1>3, <2>2, ServesStarts DEF WriterOK, AtWork
  <2> QED BY <2>1, <2>2
<1>4. ASSUME NEW i \in 1..Len(writes), Transmit(i)
      PROVE  WriterOK' /\ AtWork'
  <2>1. Len(writes') = 1 /\ writes' # <<>> /\ writes'[1].text = writes[1].text /\ UNCHANGED msgs
    BY <1>4, TransmitDoes
  <2>2. msgs # <<>> /\ writes[1].text = Head(msgs)
    BY OneWrite
  <2> QED BY <2>1, <2>2 DEF WriterOK, AtWork
<1>5. ASSUME NEW i \in 1..Len(writes), OnWritten(i)
      PROVE  WriterOK' /\ AtWork'
  <2>1. CASE msgs' = <<>>
    BY <1>5, <2>1, WrittenDoes DEF WriterOK, AtWork
  <2>2. CASE msgs' # <<>>
    <3>1. writes' = <<AsyncWrite(Head(msgs'))>>
      BY <1>5, <2>2, WrittenDoes
    <3> QED BY <1>1, <2>2, <3>1 DEF WriterOK, AtWork
  <2> QED BY <2>1, <2>2
<1>6. ASSUME NEW i \in 1..Len(writes), OnWriteError(i)
      PROVE  WriterOK' /\ ((peerEnd' # "reset" => peerEnd # "reset") => AtWork')
  BY <1>6, ErrorDoes DEF WriterOK, AtWork
<1> QED BY <1>2, <1>3, <1>4, <1>5, <1>6 DEF WriteStep

\* Answers are queued behind those that wait and leave the queue in front.
LEMMA AnswersStep ==
  ASSUME TypeOK, WriterOK, AnswersOK, WriteStep
  PROVE  AnswersOK'
<1> DEFINE a == Len(answered)
           m == Len(msgs)
           s == Len(served)
<1>1. /\ a \in Nat /\ m \in Nat /\ s \in Nat /\ a + m = s
      /\ \A i \in 1..a : answered[i] = Reply(served[i])
      /\ \A i \in 1..m : msgs[i] = Reply(served[a + i])
      /\ served \in Seq(Frames) /\ msgs \in Seq(Replies) /\ answered \in Seq(Replies)
  BY QueueTypes DEF AnswersOK
<1>2. CASE UNCHANGED <<served, msgs, answered>>
  BY <1>2 DEF AnswersOK
<1>3. ASSUME NEW text \in Frames, Serves(text)
      PROVE  AnswersOK'
  <2> DEFINE answer == Reply(text)
  <2>1. /\ answer \in Replies /\ served' = Append(served, text) /\ msgs' = Append(msgs, answer)
        /\ answered' = answered
    BY <1>3, ReplyIsReply DEF Serves
  <2> HIDE DEF answer, Replies, Frames
  <2>2. /\ Len(served') = s + 1 /\ served'[s + 1] = text
        /\ \A i \in 1..s : served'[i] = served[i]
    BY <1>1, <2>1
  <2>3. /\ Len(msgs') = m + 1 /\ msgs'[m + 1] = answer
        /\ \A i \in 1..m : msgs'[i] = msgs[i]
    BY <1>1, <2>1
  <2> HIDE DEF a, m, s
  <2>4. \A i \in 1..a : answered[i] = Reply(served'[i])
    BY <1>1, <2>2
  <2>5. \A i \in 1..(m + 1) : msgs'[i] = Reply(served'[a + i])
    <3>1. ASSUME NEW i \in 1..m PROVE msgs'[i] = Reply(served'[a + i])
      <4>1. a + i \in 1..s
        BY <1>1
      <4> QED BY <1>1, <2>2, <2>3, <4>1
    <3>2. msgs'[m + 1] = Reply(served'[a + (m + 1)])
      <4>1. a + (m + 1) = s + 1
        BY <1>1
      <4> QED BY <2>2, <2>3, <4>1 DEF answer
    <3>3. \A i \in 1..(m + 1) : i \in 1..m \/ i = m + 1
      BY <1>1
    <3> QED BY <3>1, <3>2, <3>3
  <2>6. a + (m + 1) = s + 1
    BY <1>1
  <2> QED BY <2>1, <2>2, <2>3, <2>4, <2>5, <2>6 DEF AnswersOK, a
<1>4. ASSUME NEW i \in 1..Len(writes), OnWritten(i)
      PROVE  AnswersOK'
  <2>1. /\ msgs # <<>> /\ msgs' = Tail(msgs) /\ answered' = Append(answered, msgs[1])
        /\ served' = served
    BY <1>4, WrittenDoes
  <2>2. Len(msgs) >= 1 /\ msgs[1] \in Replies
    BY OneWrite
  <2> HIDE DEF Replies
  <2>3. /\ Len(answered') = a + 1 /\ answered'[a + 1] = msgs[1]
        /\ \A j \in 1..a : answered'[j] = answered[j]
    BY <1>1, <2>1, <2>2
  <2> DEFINE l == Len(msgs')
  <2>4. /\ l \in Nat /\ l + 1 = m
        /\ \A j \in 1..l : msgs'[j] = msgs[j + 1]
    <3>1. msgs' \in Seq(Replies) /\ l = m - 1 /\ \A j \in 1..l : msgs'[j] = msgs[j + 1]
      BY <1>1, <2>1, HeadTailProperties
    <3>2. l \in Nat
      BY <3>1, LenProperties
    <3> HIDE DEF l, m
    <3> QED BY <1>1, <3>1, <3>2
  <2> HIDE DEF a, m, s, l
  <2>5. \A j \in 1..(a + 1) : answered'[j] = Reply(served[j])
    <3>1. 1 \in 1..m /\ a + 1 \in Nat
      BY <1>1, <2>4
    <3>2. msgs[1] = Reply(served[a + 1])
      BY <1>1, <3>1
    <3>3. \A j \in 1..(a + 1) : j \in 1..a \/ j = a + 1
      BY <1>1
    <3> QED BY <1>1, <2>3, <3>2, <3>3
  <2>6. \A j \in 1..l : msgs'[j] = Reply(served[a + 1 + j])
    <3>1. \A j \in 1..l : j + 1 \in 1..m /\ a + (j + 1) = a + 1 + j
      BY <1>1, <2>4
    <3> QED BY <1>1, <2>4, <3>1
  <2>7. (a + 1) + l = s
    BY <1>1, <2>4
  <2> QED BY <2>1, <2>3, <2>5, <2>6, <2>7 DEF AnswersOK, l, s
<1>5. ASSUME NEW i \in 1..Len(writes), Transmit(i) \/ OnWriteError(i)
      PROVE  AnswersOK'
  BY <1>2, <1>5 DEF Transmit, OnWriteError
<1> QED BY <1>2, <1>3, <1>4, <1>5 DEF WriteStep, Quiet

LEMMA RepliesOf ==
  ASSUME NEW texts \in Seq(Frames), NEW replies, replies = [i \in 1..Len(texts) |-> Reply(texts[i])]
  PROVE  /\ replies \in Seq(Replies) /\ Len(replies) = Len(texts) /\ Len(texts) \in Nat
         /\ \A i \in 1..Len(texts) : replies[i] = Reply(texts[i])
<1> DEFINE n == Len(texts)
<1>1. n \in Nat /\ \A i \in 1..n : Reply(texts[i]) \in Replies
  BY ReplyIsReply
<1> HIDE DEF n, Replies, Frames
<1>2. replies \in [1..n -> Replies]
  BY <1>1 DEF n
<1>3. replies \in Seq(Replies) /\ DOMAIN replies = 1..n
  BY <1>1, <1>2, SeqDef
<1>4. Len(replies) = n
  BY <1>1, <1>3, LenProperties
<1> QED BY <1>1, <1>3, <1>4 DEF n

LEMMA RepliedType ==
  ASSUME TypeOK
  PROVE  /\ Replied \in Seq(Replies) /\ Len(Replied) = Len(served) /\ Len(served) \in Nat
         /\ \A i \in 1..Len(served) : Replied[i] = Reply(served[i])
<1>1. served \in Seq(Frames)
  BY QueueTypes
<1> QED BY <1>1, RepliesOf DEF Replied

\* The answer that is written next is the first of those not given.
LEMMA InFront ==
  ASSUME TypeOK, AnswersOK, msgs # <<>>
  PROVE  Len(answered) + 1 <= Len(served) /\ msgs[1] = Replied[Len(answered) + 1]
<1> DEFINE a == Len(answered)
           m == Len(msgs)
           s == Len(served)
<1>1. /\ a \in Nat /\ m \in Nat /\ s \in Nat /\ a + m = s
      /\ \A i \in 1..m : msgs[i] = Reply(served[a + i])
      /\ \A i \in 1..s : Replied[i] = Reply(served[i])
  BY QueueTypes, RepliedType DEF AnswersOK
<1>2. m # 0
  BY QueueTypes, EmptySeq
<1> HIDE DEF a, m, s
<1>3. 1 \in 1..m /\ a + 1 \in 1..s
  BY <1>1, <1>2
<1> QED BY <1>1, <1>3 DEF a, s

\* What is put in the stream next is what comes next of the answers.
LEMMA PutStep ==
  ASSUME TypeOK, TypeOK', AnswersOK, WriterOK, WriteStep,
         NEW n \in Nat, SymbolsPut(n)
  PROVE  \/ /\ UNCHANGED outbound
            /\ SymbolsPut(n)'
         \/ /\ peerEnd # "reset"
            /\ Len(answered) + 1 <= Len(served) /\ writes[1].put \in 0..1
            /\ n = 2 * Len(answered) + writes[1].put
            /\ outbound' = Append(outbound, Encode(Replied[Len(answered) + 1])[writes[1].put + 1])
            /\ UNCHANGED served
            /\ SymbolsPut(n + 1)'
<1> DEFINE a == Len(answered)
<1>1. a \in Nat /\ 2 * a + 0 = 2 * a
  BY QueueTypes
<1>2. CASE Quiet
  BY <1>2 DEF Quiet, SymbolsPut
<1>3. ASSUME NEW text \in Frames, Serves(text)
      PROVE  UNCHANGED outbound /\ SymbolsPut(n)'
  <2>1. UNCHANGED <<answered, outbound>>
    BY <1>3 DEF Serves
  <2>2. CASE msgs = <<>>
    <3>1. writes' = <<AsyncWrite(Head(msgs'))>> /\ msgs' # <<>>
      BY <1>3, <2>2, ServesStarts
    <3>2. writes'[1].put = 0 /\ n = 2 * a
      BY <2>2, <3>1 DEF AsyncWrite, SymbolsPut
    <3> QED BY <1>1, <2>1, <3>1, <3>2 DEF SymbolsPut
  <2>3. CASE msgs # <<>>
    BY <1>3, <2>1, <2>3, ServesStarts DEF SymbolsPut
  <2> QED BY <2>1, <2>2, <2>3
<1>4. ASSUME NEW i \in 1..Len(writes), Transmit(i)
      PROVE  /\ peerEnd # "reset"
             /\ Len(answered) + 1 <= Len(served) /\ writes[1].put \in 0..1
             /\ n = 2 * Len(answered) + writes[1].put
             /\ outbound' = Append(outbound, Encode(Replied[Len(answered) + 1])[writes[1].put + 1])
             /\ UNCHANGED served
             /\ SymbolsPut(n + 1)'
  <2>1. /\ writes[1].put \in 0..1
        /\ outbound' = Append(outbound, Encode(msgs[1])[writes[1].put + 1])
        /\ writes' # <<>> /\ writes'[1].put = writes[1].put + 1
        /\ UNCHANGED <<served, answered, msgs>>
        /\ peerEnd # "reset"
    BY <1>4, TransmitDoes DEF Transmit
  <2>2. writes # <<>> /\ msgs # <<>> /\ n = 2 * a + writes[1].put
    BY OneWrite DEF SymbolsPut
  <2>3. n + 1 = 2 * a + (writes[1].put + 1)
    <3> HIDE DEF a
    <3> QED BY <1>1, <2>1, <2>2
  <2>4. SymbolsPut(n + 1)'
    BY <2>1, <2>2, <2>3 DEF SymbolsPut
  <2> QED BY <2>1, <2>2, <2>4, InFront
<1>5. ASSUME NEW i \in 1..Len(writes), OnWritten(i)
      PROVE  UNCHANGED outbound /\ SymbolsPut(n)'
  <2>1. /\ writes # <<>> /\ writes[1].put = 2 /\ answered' = Append(answered, msgs[1])
        /\ writes' = IF msgs' = <<>> THEN <<>> ELSE <<AsyncWrite(Head(msgs'))>>
        /\ UNCHANGED outbound
    BY <1>5, WrittenDoes
  <2>2. Len(answered') = a + 1
    <3>1. msgs[1] \in Replies /\ answered \in Seq(Replies)
      BY OneWrite, QueueTypes
    <3> HIDE DEF Replies
    <3> QED BY <2>1, <3>1
  <2>3. n = 2 * (a + 1) /\ n = 2 * (a + 1) + 0
    <3>1. n = 2 * a + 2
      BY <2>1 DEF SymbolsPut
    <3> HIDE DEF a
    <3> QED BY <1>1, <3>1
  <2>4. writes' # <<>> => writes'[1].put = 0
    BY <2>1 DEF AsyncWrite
  <2> QED BY <2>1, <2>2, <2>3, <2>4 DEF SymbolsPut
<1>6. ASSUME NEW i \in 1..Len(writes), OnWriteError(i)
      PROVE  UNCHANGED outbound /\ SymbolsPut(n)'
  BY <1>6, ErrorDoes DEF SymbolsPut
<1> QED BY <1>2, <1>3, <1>4, <1>5, <1>6 DEF WriteStep

\* Answers are added at the end.
LEMMA RepliedStep ==
  ASSUME TypeOK, TypeOK', WriteStep
  PROVE  UNCHANGED served \/ \E reply \in Replies : Replied' = Append(Replied, reply)
<1>1. ASSUME NEW text \in Frames, Serves(text)
      PROVE  \E reply \in Replies : Replied' = Append(Replied, reply)
  <2> DEFINE n == Len(served)
             r == Reply(text)
             more == Append(Replied, r)
  <2>1. /\ r \in Replies /\ n \in Nat /\ Replied \in Seq(Replies) /\ Len(Replied) = n
        /\ \A i \in 1..n : Replied[i] = Reply(served[i])
    BY RepliedType, ReplyIsReply
  <2>2. /\ Len(served') = n + 1 /\ served'[n + 1] = text
        /\ \A i \in 1..n : served'[i] = served[i]
    <3>1. served \in Seq(Frames) /\ served' = Append(served, text)
      BY <1>1, QueueTypes DEF Serves
    <3> HIDE DEF Frames
    <3> QED BY <3>1
  <2>3. /\ Replied' \in Seq(Replies) /\ Len(Replied') = Len(served')
        /\ \A i \in 1..Len(served') : Replied'[i] = Reply(served'[i])
    <3>1. served' \in Seq(Frames)
      BY DEF TypeOK
    <3> QED BY <3>1, RepliesOf DEF Replied
  <2> HIDE DEF Replies, n
  <2>4. /\ more \in Seq(Replies) /\ Len(more) = n + 1 /\ more[n + 1] = r
        /\ \A i \in 1..n : more[i] = Replied[i]
    <3> HIDE DEF r
    <3> QED BY <2>1
  <2> HIDE DEF more
  <2>5. \A i \in 1..(n + 1) : Replied'[i] = more[i]
    <3>1. \A i : i \in 1..(n + 1) => i \in 1..n \/ i = n + 1
      BY <2>1
    <3>2. ASSUME NEW i \in 1..n PROVE Replied'[i] = more[i]
      <4>1. i \in 1..(n + 1)
        BY <2>1
      <4> QED BY <2>1, <2>2, <2>3, <2>4, <4>1
    <3>3. n + 1 \in 1..(n + 1)
      BY <2>1
    <3>4. Replied'[n + 1] = more[n + 1]
      BY <2>2, <2>3, <2>4, <3>3
    <3> QED BY <3>1, <3>2, <3>4
  <2>6. Replied' = more
    BY <2>2, <2>3, <2>4, <2>5, SeqEqual
  <2> QED BY <2>1, <2>6 DEF more
<1>2. CASE ~\E text \in Frames : Serves(text)
  BY <1>2 DEF WriteStep, Quiet, Transmit, OnWritten, OnWriteError
<1> QED BY <1>1, <1>2

\* The stream to the peer, the first `from' answers taken off it and the symbols
\* `taken' read of the next, carries the answers, each when its turn comes.
LEMMA RepliesCarried ==
  ASSUME TypeOK, TypeOK', AnswersOK, WriterOK, WriteStep,
         NEW taken \in Seq(Symbols), NEW from \in Nat,
         Carries(taken \o outbound, Replied, from),
         peerEnd # "reset" => SymbolsPut(2 * from + Len(taken \o outbound))
  PROVE  /\ taken \o outbound' \in Seq(Symbols)
         /\ Carries(taken \o outbound', Replied', from)
         /\ \E m \in Nat : /\ m = 2 * from + Len(taken \o outbound')
                           /\ peerEnd # "reset" => SymbolsPut(m)'
<1> DEFINE stream == taken \o outbound
           later == taken \o outbound'
<1>1. /\ outbound \in Seq(Symbols) /\ outbound' \in Seq(Symbols)
      /\ stream \in Seq(Symbols) /\ later \in Seq(Symbols)
      /\ Len(stream) \in Nat /\ Len(later) \in Nat
  BY DEF TypeOK
<1>5. PICK n \in Nat : n = 2 * from + Len(stream)
  BY <1>1
<1>2. Carries(stream, Replied', from)
  <2>1. CASE UNCHANGED served
    <3>1. Replied' = Replied
      BY <2>1 DEF Replied
    <3> QED BY <3>1
  <2>2. ASSUME NEW reply \in Replies, Replied' = Append(Replied, reply)
        PROVE  Carries(stream, Replied', from)
    <3>1. Replied \in Seq(Replies)
      BY RepliedType
    <3> HIDE DEF Replies
    <3> QED BY <1>1, <2>2, <3>1, CarriesMore
  <2> QED BY <2>1, <2>2, RepliedStep
<1>3. CASE UNCHANGED outbound
  <2>1. later = stream
    BY <1>3
  <2>2. ASSUME NEW x PROVE outbound' # Append(outbound, x)
    <3>1. outbound \in Seq(Symbols) /\ outbound' = outbound
      BY <1>1, <1>3
    <3> QED BY <3>1, AppendProperties
  <2>3. peerEnd # "reset" => SymbolsPut(n)'
    BY <1>5, <2>2, PutStep
  <2> QED BY <1>1, <1>2, <1>5, <2>1, <2>3
<1>4. CASE outbound' # outbound
  <2>1. peerEnd # "reset"
    BY <1>4, WrittenDoes, ErrorDoes DEF WriteStep, Quiet, Serves, Transmit
  <2> DEFINE put == writes[1].put
             d == Len(answered)
             text == Replied[d + 1]
             symbol == Encode(text)[put + 1]
  <2>2. /\ d + 1 <= Len(served) /\ put \in 0..1
        /\ n = 2 * d + put
        /\ outbound' = Append(outbound, symbol)
        /\ UNCHANGED served
        /\ SymbolsPut(n + 1)'
    BY <1>4, <1>5, <2>1, PutStep
  <2>3. /\ Replied \in Seq(Replies) /\ Replied' = Replied
        /\ d \in Nat /\ d + 1 <= Len(Replied)
        /\ Replies \subseteq Symbols
    BY <2>2, QueueTypes, RepliedType DEF Replied, Symbols
  <2> HIDE DEF d, put, Replies
  <2>4. symbol \in Symbols /\ later = Append(stream, symbol)
    <3>1. text \in Replies
      BY <2>3, ElementOfSeq
    <3>2. symbol = text \/ symbol = NUL
      BY <2>2 DEF Encode
    <3>3. symbol \in Symbols
      BY <2>3, <3>1, <3>2 DEF Symbols
    <3> HIDE DEF symbol
    <3> QED BY <1>1, <2>2, <3>3
  <2> DEFINE l == Len(stream)
             e == Len(later)
  <2>5. l \in Nat /\ n = 2 * from + l
    BY <1>1, <1>5
  <2> HIDE DEF l, e
  <2>6. from <= d /\ l = 2 * (d - from) + put
    BY <2>2, <2>3, <2>5
  <2>7. Carries(Append(stream, symbol), Replied, from) /\ Len(Append(stream, symbol)) = 2 * (d - from) + put + 1
    <3>1. /\ d \in Nat /\ from <= d /\ d + 1 <= Len(Replied) /\ put \in 0..1
          /\ Len(stream) = 2 * (d - from) + put /\ stream \in Seq(Symbols)
          /\ Carries(stream, Replied, from)
      BY <1>1, <1>2, <2>2, <2>3, <2>6 DEF l
    <3>2. symbol = Encode(Replied[d + 1])[put + 1]
      OBVIOUS
    <3> HIDE DEF stream, symbol
    <3> QED BY <2>3, <3>1, <3>2, CarriesPut, SMTT(30)
  <2>8. n + 1 = 2 * from + e /\ n + 1 \in Nat
    <3>1. e = 2 * (d - from) + put + 1
      BY <2>4, <2>7 DEF e
    <3> QED BY <2>2, <2>3, <2>5, <2>6, <3>1
  <2> HIDE DEF symbol, stream
  <2> QED BY <1>1, <2>2, <2>3, <2>4, <2>7, <2>8 DEF e
<1> QED BY <1>3, <1>4

-----------------------------------------------------------------------------
(* Reading                                                                 *)

\* A read moves symbols into the buffer; the read handler takes one text off it.
LEMMA ReadStep ==
  ASSUME TypeOK, Step
  PROVE  \/ /\ HasText(streambuf)
            /\ served' = Append(served, NextText(streambuf))
            /\ streambuf' = AfterText(streambuf)
            /\ UNCHANGED inbound
            /\ OnRead
         \/ /\ UNCHANGED served
            /\ streambuf' \o inbound' = streambuf \o inbound
<1>1. ASSUME NEW n \in 1..Len(inbound), Receive(n)
      PROVE  UNCHANGED served /\ streambuf' \o inbound' = streambuf \o inbound
  <2>1. streambuf \in Seq(Symbols) /\ inbound \in Seq(Symbols)
    BY DEF TypeOK
  <2> QED BY <1>1, <2>1, MoveBetween DEF Receive
<1>2. CASE OnRead
  BY <1>2 DEF OnRead, ParseJson
<1>3. CASE Start \/ OnReadError \/ Write
  BY <1>3 DEF Start, OnReadError, Write, Transmit, OnWritten, OnWriteError
<1> QED BY <1>1, <1>2, <1>3 DEF Step, Read
=============================================================================
