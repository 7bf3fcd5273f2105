---------------------------- MODULE ClientLemmas ----------------------------
(***************************************************************************)
(* What each step of a client does, whoever its server is.                 *)
(***************************************************************************)
EXTENDS Client, MessageLemmas

-----------------------------------------------------------------------------
(* Types                                                                   *)

WriteOps == [text : Requests, put : 0..2, aborted : BOOLEAN]

Invocations == [call : Calls \cup {Garbage}, error : {0}, result : Results]

LEMMA CallTypes ==
  ASSUME NEW c \in Calls
  PROVE  /\ CallOf[c].id \in Ids
         /\ RequestOf(c) \in Requests
         /\ FollowUp[c] \in Calls \cup {NoCall}
  BY CallsAssumption DEF RequestOf, Requests

LEMMA ResponseTypes ==
  ASSUME NEW text \in Replies, text.kind = "response"
  PROVE  text.id \in Ids /\ text.result \in Results
<1>1. text \in Responses
  BY DEF Replies, EmptyText, ErrorText
<1> QED BY <1>1 DEF Responses

LEMMA WriteOpTypes ==
  ASSUME TypeOK
  PROVE  /\ sending \in Seq(WriteOps)
         /\ \A i \in 1..Len(sending) :
              /\ sending[i] \in WriteOps
              /\ sending[i].text \in Requests /\ sending[i].put \in 0..2 /\ sending[i].aborted \in BOOLEAN
<1>1. sending \in Seq(WriteOps)
  BY DEF TypeOK, WriteOps
<1>2. \A i \in 1..Len(sending) : sending[i] \in WriteOps
  BY <1>1
<1>3. \A op \in WriteOps : op.text \in Requests /\ op.put \in 0..2 /\ op.aborted \in BOOLEAN
  BY DEF WriteOps
<1> QED BY <1>1, <1>2, <1>3

LEMMA DoWriteType ==
  ASSUME NEW text \in Requests
  PROVE  DoWrite(text) \in WriteOps /\ DoWrite(text).text = text /\ DoWrite(text).put = 0
  BY DEF DoWrite, WriteOps

LEMMA AdvanceType ==
  ASSUME NEW op \in WriteOps, op.put < 2
  PROVE  /\ [op EXCEPT !.put = @ + 1] \in WriteOps
         /\ [op EXCEPT !.put = @ + 1].text = op.text
         /\ [op EXCEPT !.put = @ + 1].put = op.put + 1
  BY DEF WriteOps

\* Closing the socket marks the writes that are not finished, and no more.
LEMMA AbortDoes ==
  ASSUME NEW ops \in Seq(WriteOps)
  PROVE  /\ Abort(ops) \in Seq(WriteOps)
         /\ Len(Abort(ops)) = Len(ops)
         /\ \A i \in 1..Len(ops) : Abort(ops)[i].text = ops[i].text /\ Abort(ops)[i].put = ops[i].put
<1> DEFINE n == Len(ops)
           op(i) == [ops[i] EXCEPT !.aborted = @ \/ ops[i].put < 2]
<1>1. n \in Nat /\ \A i \in 1..n : ops[i] \in WriteOps
  OBVIOUS
<1>2. ASSUME NEW o \in WriteOps
      PROVE  /\ [o EXCEPT !.aborted = @ \/ o.put < 2] \in WriteOps
             /\ [o EXCEPT !.aborted = @ \/ o.put < 2].text = o.text
             /\ [o EXCEPT !.aborted = @ \/ o.put < 2].put = o.put
  BY <1>2 DEF WriteOps
<1>3. \A i \in 1..n : op(i) \in WriteOps /\ op(i).text = ops[i].text /\ op(i).put = ops[i].put
  BY <1>1, <1>2
<1>4. Abort(ops) = [i \in 1..n |-> op(i)]
  BY DEF Abort
<1> HIDE DEF op
<1>5. [i \in 1..n |-> op(i)] \in [1..n -> WriteOps]
  BY <1>3
<1>6. Abort(ops) \in Seq(WriteOps)
  BY <1>1, <1>4, <1>5, SeqDef
<1>7. Len(Abort(ops)) = n
  <2>1. DOMAIN Abort(ops) = 1..n
    BY <1>4
  <2>2. Len(Abort(ops)) \in Nat /\ DOMAIN Abort(ops) = 1..Len(Abort(ops))
    BY <1>6, LenProperties
  <2> HIDE DEF n
  <2> QED BY <1>1, <2>1, <2>2
<1> QED BY <1>3, <1>4, <1>6, <1>7

\* async_call keeps an entry of m_callback_map for each id, and posts a request.
LEMMA PostTypes ==
  ASSUME TypeOK, NEW c \in Calls, Post(c)
  PROVE  posted' \in Seq(Requests) /\ issued' \in Seq(Calls)
<1>1. RequestOf(c) \in Requests
  BY CallTypes
<1>2. posted \in Seq(Requests) /\ issued \in Seq(Calls)
  BY DEF TypeOK
<1> HIDE DEF Requests
<1> QED BY <1>1, <1>2 DEF Post

LEMMA StoredType ==
  ASSUME TypeOK, NEW c \in Calls
  PROVE  Stored(c) \in [Ids -> Calls \cup {NoCall}]
<1>1. CallOf[c].id \in Ids /\ callbackMap \in [Ids -> Calls \cup {NoCall}]
  BY CallTypes DEF TypeOK
<1> QED BY <1>1 DEF Stored

LEMMA AsyncCallTypes ==
  ASSUME TypeOK, NEW c \in Calls, AsyncCall(c)
  PROVE  /\ callbackMap' \in [Ids -> Calls \cup {NoCall}]
         /\ posted' \in Seq(Requests) /\ issued' \in Seq(Calls)
<1>1. callbackMap' = Stored(c) \/ callbackMap' = callbackMap
  BY DEF AsyncCall
<1>2. callbackMap' \in [Ids -> Calls \cup {NoCall}]
  BY <1>1, StoredType DEF TypeOK
<1>3. Post(c)
  BY DEF AsyncCall
<1> QED BY <1>2, <1>3, PostTypes

\* The call another thread is in.
LEMMA CallingTypes ==
  ASSUME TypeOK, calling # NoCall
  PROVE  /\ calling \in [call : Late, stored : BOOLEAN]
         /\ calling.call \in Late /\ calling.call \in Calls /\ calling.stored \in BOOLEAN
<1>1. calling \in [call : Late, stored : BOOLEAN]
  BY DEF TypeOK
<1> QED BY <1>1, CallsAssumption

\* What parse_response is given: nothing, one call that the map gives for the
\* response's id, or what a map in change gives.
LEMMA FoundTypes ==
  ASSUME TypeOK, NEW text \in Replies, NEW c \in Found(text)
  PROVE  /\ c \in Calls \cup {NoCall, Garbage}
         /\ c # NoCall => text.kind = "response"
         /\ c = NoCall \/ c = Selected(text) \/ (Storing /\ text.kind = "response")
         /\ c = Garbage => Storing /\ text.kind = "response"
<1>1. Selected(text) \in Calls \cup {NoCall} /\ (text.kind # "response" => Selected(text) = NoCall)
  BY ResponseTypes DEF Selected, TypeOK
<1>2. CASE text.kind = "response" /\ Storing
  <2>1. calling.call \in Calls
    BY <1>2, CallingTypes DEF Storing
  <2> QED BY <1>1, <1>2, <2>1 DEF Found
<1>3. CASE ~(text.kind = "response" /\ Storing)
  <2>1. c = Selected(text)
    BY <1>3 DEF Found
  <2> QED BY <1>1, <2>1, CallsAssumption
<1> QED BY <1>2, <1>3

LEMMA ParseResponseTypes ==
  ASSUME TypeOK, NEW text \in Replies, ParseResponse(text)
  PROVE  /\ heard' \in Seq(Replies)
         /\ raced' \in BOOLEAN
         /\ callbackMap' \in [Ids -> Calls \cup {NoCall}]
         /\ posted' \in Seq(Requests) /\ issued' \in Seq(Calls)
         /\ invoked' \in Seq(Invocations)
<1>1. /\ heard \in Seq(Replies) /\ callbackMap \in [Ids -> Calls \cup {NoCall}]
      /\ posted \in Seq(Requests) /\ issued \in Seq(Calls) /\ invoked \in Seq(Invocations)
  BY DEF TypeOK, Invocations
<1>2. heard' = Append(heard, text) /\ raced' \in BOOLEAN
  BY DEF ParseResponse, TypeOK
<1>3. heard' \in Seq(Replies)
  <2> HIDE DEF Replies
  <2> QED BY <1>1, <1>2
<1> DEFINE Goal == /\ callbackMap' \in [Ids -> Calls \cup {NoCall}]
                   /\ posted' \in Seq(Requests) /\ issued' \in Seq(Calls)
                   /\ invoked' \in Seq(Invocations)
<1>8. SUFFICES Goal
  BY <1>2, <1>3
<1>4. PICK c \in Found(text) :
        \/ c \in Calls \ Unfit /\ Invoke(c, text.result)
        \/ /\ c = Garbage
           /\ invoked' = Append(invoked, [call |-> c, error |-> 0, result |-> text.result])
           /\ UNCHANGED <<callbackMap, posted, issued>>
        \/ c \in Unfit \cup {NoCall} /\ UNCHANGED callVars
  BY DEF ParseResponse
<1>5. CASE c \in Calls \ Unfit /\ Invoke(c, text.result)
  <2>1. text.result \in Results
    <3>1. c # NoCall
      BY <1>5, CallsAssumption
    <3> QED BY <3>1, FoundTypes, ResponseTypes
  <2>2. PICK callback \in IF c \in Stateful THEN {c, Garbage} ELSE {c} :
          /\ invoked' = Append(invoked, [call |-> callback, error |-> 0, result |-> text.result])
          /\ IF callback = c /\ FollowUp[c] # NoCall /\ ~Made(FollowUp[c])
             THEN AsyncCall(FollowUp[c])
             ELSE UNCHANGED <<callbackMap, posted, issued>>
    BY <1>5 DEF Invoke
  <2>3. [call |-> callback, error |-> 0, result |-> text.result] \in Invocations
    BY <1>5, <2>1 DEF Invocations
  <2>4. invoked' \in Seq(Invocations)
    <3> HIDE DEF Invocations
    <3> QED BY <1>1, <2>2, <2>3
  <2>5. /\ callbackMap' \in [Ids -> Calls \cup {NoCall}]
        /\ posted' \in Seq(Requests) /\ issued' \in Seq(Calls)
    <3>1. CASE callback = c /\ FollowUp[c] # NoCall /\ ~Made(FollowUp[c])
      <4>1. FollowUp[c] \in Calls /\ AsyncCall(FollowUp[c])
        BY <1>5, <2>2, <3>1, CallTypes
      <4> QED BY <4>1, AsyncCallTypes
    <3>2. CASE ~(callback = c /\ FollowUp[c] # NoCall /\ ~Made(FollowUp[c]))
      BY <1>1, <2>2, <3>2
    <3> QED BY <3>1, <3>2
  <2> QED BY <2>4, <2>5
<1>6. CASE /\ c = Garbage
           /\ invoked' = Append(invoked, [call |-> c, error |-> 0, result |-> text.result])
           /\ UNCHANGED <<callbackMap, posted, issued>>
  <2>1. text.result \in Results
    BY <1>6, FoundTypes, ResponseTypes
  <2>2. [call |-> c, error |-> 0, result |-> text.result] \in Invocations
    BY <1>6, <2>1 DEF Invocations
  <2> HIDE DEF Invocations
  <2> QED BY <1>1, <1>6, <2>2
<1>7. CASE c \in Unfit \cup {NoCall} /\ UNCHANGED callVars
  BY <1>1, <1>7 DEF callVars
<1> QED BY <1>4, <1>5, <1>6, <1>7

\* A step leaves every variable in its type when parse_response is given
\* nothing but texts.
LEMMA StepTypes ==
  ASSUME TypeOK, Step, serverEnd' \in {"open", "fin", "reset"},
         OnRead => NextText(readbuf) \in Replies /\ AfterText(readbuf) \in Seq(Symbols)
  PROVE  TypeOK'
<1> USE DEF TypeOK, threadVars, callVars, writeVars, readVars
<1>1. CASE Run
  BY <1>1 DEF Run
<1>2. CASE StoreCallback
  <2>1. /\ calling \in [call : Late, stored : BOOLEAN] /\ calling.call \in Calls
        /\ callbackMap' = Stored(calling.call)
        /\ calling' = [calling EXCEPT !.stored = TRUE]
    BY <1>2, CallingTypes DEF StoreCallback, Storing
  <2>2. callbackMap' \in [Ids -> Calls \cup {NoCall}]
    BY <2>1, StoredType
  <2>3. calling' \in [call : Late, stored : BOOLEAN]
    BY <2>1
  <2> QED BY <1>2, <2>2, <2>3 DEF StoreCallback
<1>3. CASE PostCall
  <2>1. calling.call \in Calls /\ Post(calling.call)
    BY <1>3, CallingTypes DEF PostCall
  <2>2. posted' \in Seq(Requests) /\ issued' \in Seq(Calls)
    BY <2>1, PostTypes
  <2> QED BY <1>3, <2>2 DEF PostCall
<1>4. ASSUME NEW c \in Calls, Call(c)
      PROVE  TypeOK'
  <2>1. /\ callbackMap' \in [Ids -> Calls \cup {NoCall}]
        /\ posted' \in Seq(Requests) /\ issued' \in Seq(Calls)
    BY <1>4, AsyncCallTypes DEF Call
  <2> QED BY <1>4, <2>1 DEF Call
<1>5. ASSUME NEW c \in Calls, BeginCall(c)
      PROVE  TypeOK'
  BY <1>5 DEF BeginCall
<1>6. CASE OnConnect
  BY <1>6 DEF OnConnect
<1>7. CASE OnConnectError
  <2>1. sending' = Abort(sending) /\ untried' \in 0..Endpoints /\ socket' \in {"connecting", "open", "closed"}
    BY <1>7, ConnectionAssumption DEF OnConnectError, Close
  <2>2. sending' \in Seq(WriteOps)
    BY <2>1, WriteOpTypes, AbortDoes
  <2> QED BY <1>7, <2>1, <2>2 DEF OnConnectError, WriteOps
<1>8. CASE OnPosted
  <2>1. /\ posted # <<>> /\ posted' = Tail(posted)
        /\ writeMsgs' = Append(writeMsgs, Head(posted))
        /\ sending' = IF writeMsgs = <<>> THEN Append(sending, DoWrite(Head(writeMsgs'))) ELSE sending
    BY <1>8 DEF OnPosted, PushBack, StartWrite
  <2>2. Head(posted) \in Requests /\ posted' \in Seq(Requests)
    BY <2>1, HeadTailProperties
  <2>3. writeMsgs' \in Seq(Requests) /\ writeMsgs' # <<>>
    <3>1. writeMsgs \in Seq(Requests)
      OBVIOUS
    <3> HIDE DEF TypeOK
    <3> QED BY <2>1, <2>2, <3>1
  <2>4. Head(writeMsgs') \in Requests
    BY <2>3, HeadTailProperties
  <2>5. sending' \in Seq(WriteOps)
    <3>1. DoWrite(Head(writeMsgs')) \in WriteOps
      BY <2>4, DoWriteType
    <3> QED BY <2>1, <3>1, WriteOpTypes
  <2> QED BY <1>8, <2>2, <2>3, <2>5 DEF OnPosted, WriteOps
<1>9. ASSUME NEW i \in 1..Len(sending), Transmit(i)
      PROVE  TypeOK'
  <2>1. /\ sending[i] \in WriteOps
        /\ sending[i].text \in Requests /\ sending[i].put \in 0..1
    <3> HIDE DEF TypeOK
    <3> QED BY <1>9, WriteOpTypes DEF Transmit
  <2>2. Encode(sending[i].text)[sending[i].put + 1] \in Symbols
    BY <2>1 DEF Encode, Symbols, Frames
  <2>3. toServer' \in Seq(Symbols)
    BY <1>9, <2>2 DEF Transmit
  <2> DEFINE op == [sending[i] EXCEPT !.put = @ + 1]
  <2>4. op \in WriteOps
    BY <1>9, <2>1, AdvanceType, Zenon DEF Transmit
  <2>5. sending' = [sending EXCEPT ![i] = op]
    BY <1>9 DEF Transmit
  <2> HIDE DEF op
  <2>6. sending' \in Seq(WriteOps)
    BY <2>4, <2>5, WriteOpTypes, ExceptSeq
  <2> QED BY <1>9, <2>3, <2>6 DEF Transmit, WriteOps
<1>10. ASSUME NEW i \in 1..Len(sending), OnWritten(i)
       PROVE  TypeOK'
  <2>1. writeMsgs' = Tail(writeMsgs) /\ writeMsgs # <<>>
    BY <1>10 DEF OnWritten
  <2>2. writeMsgs' \in Seq(Requests)
    BY <2>1, HeadTailProperties
  <2>3. RemoveAt(sending, i) \in Seq(WriteOps)
    BY WriteOpTypes, RemoveKeepsType
  <2>4. writeMsgs' # <<>> => DoWrite(Head(writeMsgs')) \in WriteOps
    BY <2>2, DoWriteType, HeadTailProperties
  <2>5. sending' \in Seq(WriteOps)
    BY <1>10, <2>3, <2>4, SMTT(30) DEF OnWritten, WriteOn
  <2> QED BY <1>10, <2>2, <2>5 DEF OnWritten, WriteOps
<1>11. ASSUME NEW i \in 1..Len(sending), OnWriteError(i)
       PROVE  TypeOK'
  <2>1. RemoveAt(sending, i) \in Seq(WriteOps)
    BY WriteOpTypes, RemoveKeepsType
  <2>2. sending' \in Seq(WriteOps) /\ socket' = "closed"
    BY <1>11, <2>1, AbortDoes DEF OnWriteError, Close
  <2> QED BY <1>11, <2>2 DEF OnWriteError, WriteOps
<1>12. CASE OnRead
  <2>1. ParseResponse(NextText(readbuf)) /\ readbuf' \in Seq(Symbols)
    BY <1>12 DEF OnRead
  <2>2. /\ heard' \in Seq(Replies) /\ raced' \in BOOLEAN
        /\ callbackMap' \in [Ids -> Calls \cup {NoCall}]
        /\ posted' \in Seq(Requests) /\ issued' \in Seq(Calls)
        /\ invoked' \in Seq(Invocations)
    BY <1>12, <2>1, ParseResponseTypes
  <2> QED BY <1>12, <2>1, <2>2 DEF OnRead, Invocations
<1>13. CASE OnReadError
  <2>1. sending' \in Seq(WriteOps) /\ socket' = "closed"
    BY <1>13, WriteOpTypes, AbortDoes DEF OnReadError, Close
  <2> QED BY <1>13, <2>1 DEF OnReadError, WriteOps
<1>14. ASSUME NEW n \in 1..Len(fromServer), Receive(n)
       PROVE  TypeOK'
  <2>1. readbuf' \in Seq(Symbols) /\ fromServer' \in Seq(Symbols)
    BY <1>14, MoveBetween DEF Receive
  <2> QED BY <1>14, <2>1 DEF Receive
<1> QED
  BY <1>1, <1>2, <1>3, <1>4, <1>5, <1>6, <1>7, <1>8, <1>9, <1>10, <1>11, <1>12, <1>13, <1>14
  DEF Step, Application, Connect, Write, Read

-----------------------------------------------------------------------------
(* Writing                                                                 *)

\* The requests made, in the order of the calls.
Requested == [i \in 1..Len(issued) |-> RequestOf(issued[i])]

\* Those that wait for their turn or are being written, and how many are written.
Waiting == writeMsgs \o posted

Sent == Len(issued) - Len(Waiting)

\* The texts queued and posted are the last of the calls made, in order.
QueueOK ==
    /\ Sent \in Nat
    /\ \A i \in 1..Len(Waiting) : Waiting[i] = RequestOf(issued[Sent + i])

\* At most one async_write is outstanding, of the message in front.
WriterOK ==
    /\ Len(sending) <= 1
    /\ sending # <<>> => writeMsgs # <<>> /\ sending[1].text = Head(writeMsgs)

\* n symbols are those of the messages sent and those taken of the next.
SymbolsPut(n) ==
    /\ sending # <<>> => n = 2 * Sent + sending[1].put
    /\ writeMsgs = <<>> => n = 2 * Sent

Quiet ==
    /\ UNCHANGED <<issued, posted, writeMsgs, toServer>>
    /\ sending' \in {sending, Abort(sending)}

Posts ==
    /\ \E c \in Calls : Post(c)
    /\ UNCHANGED <<writeMsgs, sending, toServer>>

WriteStep ==
    \/ Quiet \/ Posts \/ OnPosted
    \/ \E i \in 1..Len(sending) : Transmit(i) \/ OnWritten(i) \/ OnWriteError(i)

\* What a callback does to what is written: nothing, or it posts a call.
LEMMA ParseResponsePosts ==
  ASSUME TypeOK, NEW text \in Replies, ParseResponse(text)
  PROVE  UNCHANGED <<issued, posted>> \/ \E c \in Calls : Post(c)
<1>1. PICK c \in Found(text) :
        \/ c \in Calls \ Unfit /\ Invoke(c, text.result)
        \/ UNCHANGED <<issued, posted>>
  BY DEF ParseResponse, callVars
<1>2. CASE c \in Calls \ Unfit /\ Invoke(c, text.result)
  <2>1. \/ FollowUp[c] # NoCall /\ AsyncCall(FollowUp[c])
        \/ UNCHANGED <<issued, posted>>
    BY <1>2 DEF Invoke
  <2>2. FollowUp[c] # NoCall => FollowUp[c] \in Calls
    BY <1>2, CallTypes
  <2> QED BY <2>1, <2>2 DEF AsyncCall
<1> QED BY <1>1, <1>2

\* The steps that concern what is written; a socket that is closed stays so.
LEMMA WriteCases ==
  ASSUME TypeOK, Step, OnRead => NextText(readbuf) \in Replies
  PROVE  /\ WriteStep
         /\ socket' # "closed" => socket # "closed"
<1> USE DEF WriteStep, threadVars, callVars, writeVars, readVars
<1>1. CASE Run \/ StoreCallback \/ OnConnect
  BY <1>1 DEF Run, StoreCallback, OnConnect, Connecting, Quiet
<1>2. CASE PostCall
  BY <1>2, CallingTypes DEF PostCall, Posts
<1>3. ASSUME NEW c \in Calls, Call(c) \/ BeginCall(c)
      PROVE  (Quiet \/ Posts) /\ socket' = socket
  BY <1>3 DEF Call, AsyncCall, BeginCall, Quiet, Posts
<1>4. CASE OnConnectError
  BY <1>4 DEF OnConnectError, Connecting, Close, Quiet
<1>5. CASE OnPosted
  BY <1>5 DEF OnPosted
<1>6. ASSUME NEW i \in 1..Len(sending), Transmit(i) \/ OnWritten(i) \/ OnWriteError(i)
      PROVE  socket' # "closed" => socket # "closed"
  BY <1>6 DEF Transmit, OnWritten, OnWriteError, Close
<1>7. CASE OnRead
  <2>1. UNCHANGED <<issued, posted>> \/ \E c \in Calls : Post(c)
    BY <1>7, ParseResponsePosts DEF OnRead
  <2> QED BY <1>7, <2>1 DEF OnRead, Quiet, Posts
<1>8. CASE OnReadError
  BY <1>8 DEF OnReadError, Close, Quiet
<1>9. ASSUME NEW n \in 1..Len(fromServer), Receive(n)
      PROVE  Quiet /\ socket' = socket
  BY <1>9 DEF Receive, Quiet
<1> QED
  BY <1>1, <1>2, <1>3, <1>4, <1>5, <1>6, <1>7, <1>8, <1>9 DEF Step, Application, Connect, Write, Read

LEMMA WaitingTypes ==
  ASSUME TypeOK
  PROVE  /\ writeMsgs \in Seq(Requests) /\ posted \in Seq(Requests) /\ issued \in Seq(Calls)
         /\ Waiting \in Seq(Requests) /\ Len(Waiting) = Len(writeMsgs) + Len(posted)
         /\ Len(Waiting) \in Nat /\ Len(issued) \in Nat /\ Len(writeMsgs) \in Nat
         /\ writeMsgs # <<>> => Len(Waiting) >= 1 /\ Waiting[1] = Head(writeMsgs)
<1>1. writeMsgs \in Seq(Requests) /\ posted \in Seq(Requests) /\ issued \in Seq(Calls)
  BY DEF TypeOK
<1> HIDE DEF Requests
<1>2. /\ Waiting \in Seq(Requests) /\ Len(Waiting) = Len(writeMsgs) + Len(posted)
      /\ Len(Waiting) \in Nat /\ Len(issued) \in Nat /\ Len(writeMsgs) \in Nat
  BY <1>1 DEF Waiting
<1>3. ASSUME writeMsgs # <<>>
      PROVE  Len(Waiting) >= 1 /\ Waiting[1] = Head(writeMsgs)
  <2>1. Len(writeMsgs) >= 1 /\ Head(writeMsgs) = writeMsgs[1]
    BY <1>1, <1>3
  <2>2. Waiting[1] = writeMsgs[1]
    BY <1>1, <2>1 DEF Waiting
  <2> QED BY <1>1, <1>2, <2>1, <2>2
<1> QED BY <1>1, <1>2, <1>3

\* The one write outstanding, and what taking it away leaves.
LEMMA OneWrite ==
  ASSUME TypeOK, WriterOK, NEW i \in 1..Len(sending)
  PROVE  /\ i = 1 /\ sending # <<>> /\ writeMsgs # <<>>
         /\ sending[1] \in WriteOps /\ sending[1].text = Head(writeMsgs)
         /\ RemoveAt(sending, i) = <<>>
<1>1. sending \in Seq(WriteOps) /\ \A j \in 1..Len(sending) : sending[j] \in WriteOps
  BY WriteOpTypes
<1>2. Len(sending) <= 1 /\ i = 1 /\ sending # <<>>
  BY <1>1 DEF WriterOK
<1>3. RemoveAt(sending, i) = <<>>
  BY <1>1, <1>2, RemoveOnly
<1> QED BY <1>1, <1>2, <1>3 DEF WriterOK

\* Nothing but the end of a write takes a message from the queue.
LEMMA WritesDrop ==
  ASSUME TypeOK, \E i \in 1..Len(sending) : OnWritten(i)
  PROVE  writeMsgs # <<>> /\ Len(writeMsgs') + 1 = Len(writeMsgs) /\ writeMsgs' # writeMsgs
<1>1. writeMsgs # <<>> /\ writeMsgs' = Tail(writeMsgs)
  BY DEF OnWritten
<1>2. Len(Tail(writeMsgs)) = Len(writeMsgs) - 1 /\ Len(writeMsgs) \in Nat
  BY <1>1, WaitingTypes, HeadTailProperties
<1>3. \A a, b \in Int : a = b - 1 => a + 1 = b /\ a # b
  OBVIOUS
<1>4. Len(writeMsgs') = Len(writeMsgs) - 1 /\ Len(writeMsgs) \in Int /\ Len(writeMsgs') \in Int
  BY <1>1, <1>2
<1>5. Len(writeMsgs') + 1 = Len(writeMsgs) /\ Len(writeMsgs') # Len(writeMsgs)
  BY <1>3, <1>4
<1> QED BY <1>1, <1>5

\* Messages are queued behind those that wait and leave the queue in front.
LEMMA QueueStep ==
  ASSUME TypeOK, TypeOK', QueueOK, WriterOK, WriteStep
  PROVE  /\ QueueOK'
         /\ Sent' = IF \E i \in 1..Len(sending) : OnWritten(i) THEN Sent + 1 ELSE Sent
<1> DEFINE n == Len(issued)
           w == Len(Waiting)
<1>1. /\ n \in Nat /\ w \in Nat /\ n - w \in Nat /\ Sent = n - w
      /\ \A i \in 1..w : Waiting[i] = RequestOf(issued[Sent + i])
      /\ Waiting \in Seq(Requests)
  BY WaitingTypes DEF QueueOK, Sent
<1>2. ASSUME UNCHANGED issued, Waiting' = Waiting, \A i \in 1..Len(sending) : ~OnWritten(i)
      PROVE  QueueOK' /\ Sent' = IF \E i \in 1..Len(sending) : OnWritten(i) THEN Sent + 1 ELSE Sent
  <2>1. Sent' = Sent
    BY <1>2 DEF Sent
  <2> QED BY <1>2, <2>1 DEF QueueOK
<1>3. CASE Posts
  <2>1. PICK c \in Calls : posted' = Append(posted, RequestOf(c)) /\ issued' = Append(issued, c)
    BY <1>3 DEF Posts, Post
  <2>2. RequestOf(c) \in Requests /\ UNCHANGED writeMsgs
    BY <1>3, CallTypes DEF Posts
  <2>3. Waiting' = Append(Waiting, RequestOf(c))
    <3> DEFINE r == RequestOf(c)
    <3> HIDE DEF Requests, r
    <3>1. r \in Requests /\ posted' = Append(posted, r) /\ writeMsgs' = writeMsgs
      BY <2>1, <2>2 DEF r
    <3>2. Waiting' = Append(Waiting, r)
      BY <3>1, WaitingTypes DEF Waiting
    <3> QED BY <3>2 DEF r
  <2>4. /\ Len(Waiting') = w + 1 /\ Waiting'[w + 1] = RequestOf(c)
        /\ \A i \in 1..w : Waiting'[i] = Waiting[i]
    <3> DEFINE r == RequestOf(c)
    <3>1. r \in Requests /\ Waiting' = Append(Waiting, r)
      BY <2>2, <2>3
    <3> HIDE DEF Requests, r
    <3>2. /\ Len(Waiting') = w + 1 /\ Waiting'[w + 1] = r
          /\ \A i \in 1..w : Waiting'[i] = Waiting[i]
      BY <1>1, <3>1
    <3> QED BY <3>2 DEF r
  <2>5. /\ Len(issued') = n + 1 /\ issued'[n + 1] = c
        /\ \A i \in 1..n : issued'[i] = issued[i]
    BY <2>1, WaitingTypes
  <2>6. Sent' = Sent
    <3>1. Sent' = Len(issued') - Len(Waiting')
      BY DEF Sent
    <3> HIDE DEF n, w
    <3> QED BY <1>1, <2>4, <2>5, <3>1
  <2>7. \A i \in 1..(w + 1) : Waiting'[i] = RequestOf(issued'[Sent + i])
    <3> HIDE DEF n, w
    <3>1. ASSUME NEW i \in 1..w PROVE Waiting'[i] = RequestOf(issued'[Sent + i])
      <4>1. Sent + i \in 1..n
        BY <1>1
      <4> QED BY <1>1, <2>4, <2>5, <4>1
    <3>2. Sent + (w + 1) = n + 1
      BY <1>1
    <3>3. \A i \in 1..(w + 1) : i \in 1..w \/ i = w + 1
      BY <1>1
    <3> QED BY <2>4, <2>5, <3>1, <3>2, <3>3
  <2>8. \A i \in 1..Len(sending) : ~OnWritten(i)
    BY <2>2, WritesDrop
  <2> QED BY <1>1, <2>4, <2>6, <2>7, <2>8 DEF QueueOK
<1>4. CASE OnPosted
  <2>1. /\ posted # <<>> /\ posted' = Tail(posted) /\ writeMsgs' = Append(writeMsgs, Head(posted))
        /\ issued' = issued
    BY <1>4 DEF OnPosted, PushBack
  <2>2. Waiting' = Waiting
    <3> HIDE DEF Requests
    <3> QED BY <2>1, WaitingTypes DEF Waiting
  <2>3. \A i \in 1..Len(sending) : ~OnWritten(i)
    <3>1. posted' # posted
      BY <2>1, WaitingTypes
    <3> QED BY <3>1 DEF OnWritten, callVars
  <2> QED BY <1>2, <2>1, <2>2, <2>3
<1>5. CASE Quiet \/ \E i \in 1..Len(sending) : Transmit(i) \/ OnWriteError(i)
  <2>1. UNCHANGED <<issued, posted, writeMsgs>>
    BY <1>5 DEF Quiet, Transmit, OnWriteError, callVars
  <2>2. \A i \in 1..Len(sending) : ~OnWritten(i)
    BY <2>1, WritesDrop
  <2>3. Waiting' = Waiting
    BY <2>1 DEF Waiting
  <2> QED BY <1>2, <2>1, <2>2, <2>3
<1>6. CASE \E i \in 1..Len(sending) : OnWritten(i)
  <2>1. /\ writeMsgs # <<>> /\ writeMsgs' = Tail(writeMsgs) /\ UNCHANGED <<posted, issued>>
    BY <1>6 DEF OnWritten, callVars
  <2>2. Waiting' = Tail(Waiting) /\ Waiting # <<>>
    <3> HIDE DEF Requests
    <3> QED BY <2>1, WaitingTypes DEF Waiting
  <2>3. /\ Len(Waiting') = w - 1 /\ w >= 1
        /\ \A i \in 1..(w - 1) : Waiting'[i] = Waiting[i + 1]
    BY <1>1, <2>2, HeadTailProperties
  <2>4. Sent' = Sent + 1
    <3>1. Sent' = Len(issued') - Len(Waiting')
      BY DEF Sent
    <3> HIDE DEF n, w
    <3>2. Len(issued') = n
      BY <2>1 DEF n
    <3> QED BY <1>1, <2>3, <3>1, <3>2
  <2>5. \A i \in 1..(w - 1) : Waiting'[i] = RequestOf(issued'[Sent' + i])
    <3> HIDE DEF n, w
    <3> DEFINE s == Sent
    <3>1. s \in Nat /\ w \in Nat /\ w >= 1 /\ Sent' = s + 1
      BY <1>1, <2>3, <2>4
    <3>3. \A j \in 1..w : Waiting[j] = RequestOf(issued[s + j])
      BY <1>1
    <3> HIDE DEF s
    <3>2. \A i \in 1..(w - 1) : i + 1 \in 1..w /\ s + (i + 1) = (s + 1) + i
      BY <3>1
    <3> QED BY <2>1, <2>3, <3>1, <3>2, <3>3
  <2> QED BY <1>1, <1>6, <2>3, <2>4, <2>5 DEF QueueOK
<1> QED BY <1>3, <1>4, <1>5, <1>6 DEF WriteStep

\* What an async_write_some hands to the kernel.
LEMMA TransmitDoes ==
  ASSUME TypeOK, QueueOK, WriterOK, NEW i \in 1..Len(sending), Transmit(i)
  PROVE  /\ Sent \in Nat /\ Sent + 1 <= Len(issued)
         /\ sending[1].put \in 0..1
         /\ toServer' = Append(toServer, Encode(Requested[Sent + 1])[sending[1].put + 1])
         /\ Len(sending') = 1 /\ sending'[1] \in WriteOps
         /\ sending'[1].text = sending[1].text /\ sending'[1].put = sending[1].put + 1
         /\ UNCHANGED <<issued, posted, writeMsgs>>
<1>1. /\ i = 1 /\ sending # <<>> /\ writeMsgs # <<>> /\ sending[1] \in WriteOps
      /\ sending[1].text = Head(writeMsgs) /\ Len(sending) <= 1
  BY OneWrite DEF WriterOK
<1>2. /\ sending[1].put \in 0..1
      /\ toServer' = Append(toServer, Encode(sending[1].text)[sending[1].put + 1])
      /\ sending' = [sending EXCEPT ![1].put = @ + 1]
      /\ UNCHANGED <<issued, posted, writeMsgs>>
  <2>1. sending[1].put \in 0..2
    BY <1>1, WriteOpTypes
  <2> QED BY <1>1, <2>1 DEF Transmit, callVars
<1>3. Sent \in Nat /\ Sent + 1 <= Len(issued) /\ Requested[Sent + 1] = Head(writeMsgs)
  <2> DEFINE n == Len(issued)
             w == Len(Waiting)
  <2>1. n \in Nat /\ w \in Nat /\ w >= 1 /\ Waiting[1] = Head(writeMsgs) /\ Sent = n - w
    BY <1>1, WaitingTypes DEF Sent
  <2>2. Sent \in Nat /\ Waiting[1] = RequestOf(issued[Sent + 1])
    BY <2>1 DEF QueueOK
  <2> HIDE DEF n, w
  <2>3. Sent + 1 \in 1..n
    BY <2>1, <2>2
  <2>4. Requested[Sent + 1] = RequestOf(issued[Sent + 1])
    BY <2>3 DEF Requested, n
  <2> QED BY <2>1, <2>2, <2>3, <2>4 DEF n
<1>4. sending \in Seq(WriteOps) /\ Len(sending) = 1
  <2>1. sending \in Seq(WriteOps)
    BY WriteOpTypes
  <2>2. Len(sending) \in Nat /\ Len(sending) # 0 /\ Len(sending) <= 1
    BY <1>1, <2>1, EmptySeq, LenProperties
  <2>3. \A k \in Nat : k # 0 /\ k <= 1 => k = 1
    OBVIOUS
  <2> QED BY <2>1, <2>2, <2>3, Zenon
<1>5. /\ Len(sending') = 1 /\ sending'[1] \in WriteOps
      /\ sending'[1].text = sending[1].text /\ sending'[1].put = sending[1].put + 1
  <2> DEFINE op == [sending[1] EXCEPT !.put = @ + 1]
  <2>1. op \in WriteOps /\ op.text = sending[1].text /\ op.put = sending[1].put + 1
    BY <1>1, <1>2, AdvanceType, Zenon DEF Transmit
  <2>2. sending' = [sending EXCEPT ![1] = op]
    BY <1>2
  <2> HIDE DEF op
  <2>3. Len(sending') = 1 /\ sending'[1] = op
    BY <1>4, <2>1, <2>2, ExceptSeq
  <2> QED BY <2>1, <2>3
<1> QED BY <1>1, <1>2, <1>3, <1>5

\* What is left of the operations when one of them has ended or the socket is
\* closed under them.
LEMMA QuietSending ==
  ASSUME TypeOK, sending' \in {sending, Abort(sending)}
  PROVE  /\ Len(sending') = Len(sending)
         /\ sending' # <<>> => /\ sending # <<>>
                               /\ sending'[1].text = sending[1].text
                               /\ sending'[1].put = sending[1].put
<1>1. sending \in Seq(WriteOps)
  BY WriteOpTypes
<1>2. CASE sending' = sending
  BY <1>2
<1>3. CASE sending' = Abort(sending)
  <2>1. /\ sending' \in Seq(WriteOps) /\ Len(sending') = Len(sending)
        /\ \A i \in 1..Len(sending) : sending'[i].text = sending[i].text /\ sending'[i].put = sending[i].put
    BY <1>1, <1>3, AbortDoes
  <2>2. sending' # <<>> => Len(sending) \in Nat /\ Len(sending) # 0 /\ sending # <<>>
    BY <1>1, <2>1, EmptySeq, LenProperties
  <2>3. \A k \in Nat : k # 0 => 1 \in 1..k
    OBVIOUS
  <2> QED BY <2>1, <2>2, <2>3, Zenon
<1> QED BY <1>2, <1>3

LEMMA FirstOp == ASSUME NEW op PROVE Append(<<>>, op) = <<op>> /\ Len(<<op>>) = 1 /\ <<op>>[1] = op
  OBVIOUS

\* The writes that handlers start: of a message queued when none is in progress,
\* and of the next when one is done.
LEMMA PostedStarts ==
  ASSUME TypeOK, WriterOK, OnPosted
  PROVE  /\ writeMsgs' # <<>> /\ Len(writeMsgs') = Len(writeMsgs) + 1
         /\ IF writeMsgs = <<>>
            THEN sending = <<>> /\ sending' = <<DoWrite(Head(writeMsgs'))>>
            ELSE sending' = sending /\ Head(writeMsgs') = Head(writeMsgs)
         /\ UNCHANGED toServer
<1>1. /\ posted # <<>> /\ writeMsgs' = Append(writeMsgs, Head(posted))
      /\ sending' = IF writeMsgs = <<>> THEN Append(sending, DoWrite(Head(writeMsgs'))) ELSE sending
      /\ UNCHANGED toServer
  BY DEF OnPosted, PushBack, StartWrite
<1>2. Head(posted) \in Requests /\ writeMsgs \in Seq(Requests)
  BY <1>1, WaitingTypes, HeadTailProperties
<1>3. /\ writeMsgs' # <<>> /\ Len(writeMsgs') = Len(writeMsgs) + 1
      /\ writeMsgs # <<>> => Head(writeMsgs') = Head(writeMsgs)
  <2> HIDE DEF Requests
  <2> QED BY <1>1, <1>2
<1>4. writeMsgs = <<>> => sending = <<>>
  BY DEF WriterOK
<1> QED BY <1>1, <1>3, <1>4, FirstOp, Zenon

LEMMA WrittenDoes ==
  ASSUME TypeOK, WriterOK, NEW i \in 1..Len(sending), OnWritten(i)
  PROVE  /\ sending # <<>> /\ sending[1].put = 2
         /\ sending' = IF writeMsgs' = <<>> THEN <<>> ELSE <<DoWrite(Head(writeMsgs'))>>
         /\ UNCHANGED toServer
<1>1. i = 1 /\ sending # <<>> /\ RemoveAt(sending, i) = <<>>
  BY OneWrite
<1>2. /\ sending[i].put = 2
      /\ sending' = IF writeMsgs' = <<>> THEN RemoveAt(sending, i)
                    ELSE Append(RemoveAt(sending, i), DoWrite(Head(writeMsgs')))
      /\ UNCHANGED toServer
  BY DEF OnWritten, WriteOn
<1> QED BY <1>1, <1>2, FirstOp, Zenon

LEMMA ErrorDoes ==
  ASSUME TypeOK, WriterOK, NEW i \in 1..Len(sending), OnWriteError(i)
  PROVE  sending' = <<>> /\ writeMsgs # <<>> /\ UNCHANGED <<issued, posted, writeMsgs, toServer>>
<1>1. RemoveAt(sending, i) = <<>> /\ sending' = Abort(<<>>) /\ writeMsgs # <<>>
  BY OneWrite DEF OnWriteError, Close
<1>2. sending' = <<>>
  <2>1. <<>> \in Seq(WriteOps) /\ Len(<<>>) = 0
    OBVIOUS
  <2> QED BY <1>1, <2>1, AbortDoes, EmptySeq
<1> QED BY <1>1, <1>2 DEF OnWriteError, callVars

\* While a message waits on a socket that is not closed it is being written.
AtWork == writeMsgs # <<>> /\ socket # "closed" => sending # <<>>

\* The write a handler starts is that of the message in front, and one is
\* started whenever a message is left.
LEMMA WriterStep ==
  ASSUME TypeOK, TypeOK', QueueOK, WriterOK, WriteStep
  PROVE  /\ WriterOK'
         /\ AtWork /\ (socket' # "closed" => socket # "closed") => AtWork'
<1>1. ASSUME NEW text, sending' = <<DoWrite(text)>>
      PROVE  Len(sending') = 1 /\ sending' # <<>> /\ sending'[1].text = text
  BY <1>1 DEF DoWrite
<1>2. CASE Quiet
  <2>1. /\ Len(sending') = Len(sending)
        /\ sending' # <<>> => sending # <<>> /\ sending'[1].text = sending[1].text
    BY <1>2, QuietSending DEF Quiet
  <2>2. sending # <<>> => sending' # <<>>
    BY <2>1, WriteOpTypes, EmptySeq
  <2> QED BY <1>2, <2>1, <2>2 DEF WriterOK, AtWork, Quiet
<1>3. CASE Posts
  BY <1>3 DEF Posts, WriterOK, AtWork
<1>4. CASE OnPosted
  <2>1. CASE writeMsgs = <<>>
    <3>1. sending' = <<DoWrite(Head(writeMsgs'))>> /\ writeMsgs' # <<>>
      BY <1>4, <2>1, PostedStarts
    <3> QED BY <1>1, <3>1 DEF WriterOK, AtWork
  <2>2. CASE writeMsgs # <<>>
    BY <1>4, <2>2, PostedStarts DEF WriterOK, AtWork
  <2> QED BY <2>1, <2>2
<1>5. ASSUME NEW i \in 1..Len(sending), Transmit(i)
      PROVE  WriterOK' /\ AtWork'
  <2>1. Len(sending') = 1 /\ sending'[1].text = sending[1].text /\ UNCHANGED writeMsgs
    BY <1>5, TransmitDoes
  <2>2. writeMsgs # <<>> /\ sending[1].text = Head(writeMsgs)
    BY OneWrite
  <2>3. sending' # <<>> /\ writeMsgs' = writeMsgs
    <3>1. Len(sending') # Len(<<>>)
      BY ONLY <2>1
    <3> QED BY <2>1, <3>1, Zenon
  <2>4. WriterOK'
    BY <2>1, <2>2, <2>3 DEF WriterOK
  <2>5. AtWork'
    BY <2>3 DEF AtWork
  <2> QED BY <2>4, <2>5
<1>6. ASSUME NEW i \in 1..Len(sending), OnWritten(i)
      PROVE  WriterOK' /\ AtWork'
  <2>1. CASE writeMsgs' = <<>>
    BY <1>6, <2>1, WrittenDoes DEF WriterOK, AtWork
  <2>2. CASE writeMsgs' # <<>>
    <3>1. sending' = <<DoWrite(Head(writeMsgs'))>>
      BY <1>6, <2>2, WrittenDoes
    <3> QED BY <1>1, <2>2, <3>1 DEF WriterOK, AtWork
  <2> QED BY <2>1, <2>2
<1>7. ASSUME NEW i \in 1..Len(sending), OnWriteError(i)
      PROVE  WriterOK' /\ AtWork'
  <2>1. socket' = "closed"
    BY <1>7 DEF OnWriteError, Close
  <2> QED BY <1>7, <2>1, ErrorDoes DEF WriterOK, AtWork
<1> QED BY <1>2, <1>3, <1>4, <1>5, <1>6, <1>7 DEF WriteStep

\* What is put in the stream next is what comes next of the calls made.
LEMMA PutStep ==
  ASSUME TypeOK, TypeOK', QueueOK, WriterOK, WriteStep,
         NEW n \in Nat, SymbolsPut(n)
  PROVE  \/ /\ UNCHANGED toServer
            /\ SymbolsPut(n)'
         \/ /\ Sent \in Nat /\ Sent + 1 <= Len(issued) /\ sending[1].put \in 0..1
            /\ n = 2 * Sent + sending[1].put
            /\ toServer' = Append(toServer, Encode(Requested[Sent + 1])[sending[1].put + 1])
            /\ UNCHANGED issued
            /\ SymbolsPut(n + 1)'
<1>1. Sent \in Nat /\ Sent' = IF \E i \in 1..Len(sending) : OnWritten(i) THEN Sent + 1 ELSE Sent
  BY QueueStep DEF QueueOK
<1>2. CASE Quiet
  <2>1. ~\E i \in 1..Len(sending) : OnWritten(i)
    BY <1>2, WritesDrop DEF Quiet
  <2>2. sending' # <<>> => sending # <<>> /\ sending'[1].put = sending[1].put
    BY <1>2, QuietSending DEF Quiet
  <2> QED BY <1>1, <1>2, <2>1, <2>2 DEF SymbolsPut, Quiet
<1>3. CASE Posts
  <2>1. ~\E i \in 1..Len(sending) : OnWritten(i)
    BY <1>3, WritesDrop DEF Posts
  <2> QED BY <1>1, <1>3, <2>1 DEF SymbolsPut, Posts
<1>4. CASE OnPosted
  <2>1. ~\E i \in 1..Len(sending) : OnWritten(i)
    BY <1>4, WritesDrop, PostedStarts, WaitingTypes
  <2>2. CASE writeMsgs = <<>>
    <3>1. sending' = <<DoWrite(Head(writeMsgs'))>> /\ writeMsgs' # <<>>
      BY <1>4, <2>2, PostedStarts
    <3>2. n = 2 * Sent /\ 2 * Sent + 0 = 2 * Sent
      BY <1>1, <2>2 DEF SymbolsPut
    <3>3. sending'[1].put = 0
      BY <3>1 DEF DoWrite
    <3> QED BY <1>1, <1>4, <2>1, <3>1, <3>2, <3>3, PostedStarts DEF SymbolsPut
  <2>3. CASE writeMsgs # <<>>
    BY <1>1, <1>4, <2>1, <2>3, PostedStarts DEF SymbolsPut
  <2> QED BY <2>2, <2>3
<1>5. ASSUME NEW i \in 1..Len(sending), Transmit(i)
      PROVE  /\ Sent \in Nat /\ Sent + 1 <= Len(issued) /\ sending[1].put \in 0..1
             /\ n = 2 * Sent + sending[1].put
             /\ toServer' = Append(toServer, Encode(Requested[Sent + 1])[sending[1].put + 1])
             /\ UNCHANGED issued
             /\ SymbolsPut(n + 1)'
  <2>1. /\ Sent \in Nat /\ Sent + 1 <= Len(issued) /\ sending[1].put \in 0..1
        /\ toServer' = Append(toServer, Encode(Requested[Sent + 1])[sending[1].put + 1])
        /\ sending'[1].put = sending[1].put + 1
        /\ UNCHANGED <<issued, posted, writeMsgs>>
    BY <1>5, TransmitDoes
  <2>2. sending # <<>> /\ writeMsgs # <<>> /\ n = 2 * Sent + sending[1].put
    BY OneWrite DEF SymbolsPut
  <2>3. ~\E j \in 1..Len(sending) : OnWritten(j)
    BY <2>1, WritesDrop
  <2>4. Sent' = Sent
    BY <1>1, <2>3
  <2>5. n + 1 = 2 * Sent + (sending[1].put + 1)
    BY <2>1, <2>2
  <2>6. SymbolsPut(n + 1)'
    BY <2>1, <2>2, <2>4, <2>5 DEF SymbolsPut
  <2> QED BY <2>1, <2>2, <2>6
<1>6. ASSUME NEW i \in 1..Len(sending), OnWritten(i)
      PROVE  UNCHANGED toServer /\ SymbolsPut(n)'
  <2>1. n = 2 * Sent + 2 /\ Sent' = Sent + 1
    BY <1>1, <1>6, WrittenDoes DEF SymbolsPut
  <2>2. n = 2 * Sent' /\ 2 * Sent' + 0 = 2 * Sent'
    BY <1>1, <2>1
  <2>3. sending' # <<>> => sending'[1].put = 0
    BY <1>6, WrittenDoes DEF DoWrite
  <2> QED BY <1>6, <2>2, <2>3, WrittenDoes DEF SymbolsPut
<1>7. ASSUME NEW i \in 1..Len(sending), OnWriteError(i)
      PROVE  UNCHANGED toServer /\ SymbolsPut(n)'
  BY <1>7, ErrorDoes DEF SymbolsPut
<1> QED BY <1>2, <1>3, <1>4, <1>5, <1>6, <1>7 DEF WriteStep

LEMMA RequestsOf ==
  ASSUME NEW calls \in Seq(Calls), NEW requests, requests = [i \in 1..Len(calls) |-> RequestOf(calls[i])]
  PROVE  /\ requests \in Seq(Requests) /\ Len(requests) = Len(calls) /\ Len(calls) \in Nat
         /\ \A i \in 1..Len(calls) : requests[i] = RequestOf(calls[i])
<1> DEFINE n == Len(calls)
<1>1. n \in Nat /\ \A i \in 1..n : RequestOf(calls[i]) \in Requests
  BY CallTypes
<1> HIDE DEF n, Requests
<1>2. requests \in [1..n -> Requests]
  BY <1>1 DEF n
<1>3. requests \in Seq(Requests) /\ DOMAIN requests = 1..n
  BY <1>1, <1>2, SeqDef
<1>4. Len(requests) = n
  BY <1>1, <1>3, LenProperties
<1> QED BY <1>1, <1>3, <1>4 DEF n

LEMMA RequestedType ==
  ASSUME TypeOK
  PROVE  /\ Requested \in Seq(Requests) /\ Len(Requested) = Len(issued) /\ Len(issued) \in Nat
         /\ \A i \in 1..Len(issued) : Requested[i] = RequestOf(issued[i])
<1>1. issued \in Seq(Calls)
  BY WaitingTypes
<1> QED BY <1>1, RequestsOf DEF Requested

\* Calls are added at the end.
LEMMA RequestedStep ==
  ASSUME TypeOK, TypeOK', WriteStep
  PROVE  UNCHANGED issued \/ \E request \in Requests : Requested' = Append(Requested, request)
<1>1. CASE Posts
  <2>1. PICK c \in Calls : issued' = Append(issued, c)
    BY <1>1 DEF Posts, Post
  <2> DEFINE n == Len(issued)
             r == RequestOf(c)
             more == Append(Requested, r)
  <2>2. /\ r \in Requests /\ n \in Nat /\ Requested \in Seq(Requests) /\ Len(Requested) = n
        /\ \A i \in 1..n : Requested[i] = RequestOf(issued[i])
    BY RequestedType, CallTypes
  <2>3. /\ Len(issued') = n + 1 /\ issued'[n + 1] = c
        /\ \A i \in 1..n : issued'[i] = issued[i]
    BY <2>1, WaitingTypes
  <2>4. /\ Requested' \in Seq(Requests) /\ Len(Requested') = Len(issued')
        /\ \A i \in 1..Len(issued') : Requested'[i] = RequestOf(issued'[i])
    <3>1. issued' \in Seq(Calls)
      BY DEF TypeOK
    <3> QED BY <3>1, RequestsOf DEF Requested
  <2> HIDE DEF Requests, n
  <2>5. /\ more \in Seq(Requests) /\ Len(more) = n + 1 /\ more[n + 1] = r
        /\ \A i \in 1..n : more[i] = Requested[i]
    <3> HIDE DEF r
    <3> QED BY <2>2
  <2> HIDE DEF more
  <2>6. \A i \in 1..(n + 1) : Requested'[i] = more[i]
    <3>1. \A i : i \in 1..(n + 1) => i \in 1..n \/ i = n + 1
      BY <2>2
    <3>2. ASSUME NEW i \in 1..n PROVE Requested'[i] = more[i]
      <4>1. i \in 1..(n + 1)
        BY <2>2
      <4> QED BY <2>2, <2>3, <2>4, <2>5, <4>1
    <3>3. n + 1 \in 1..(n + 1)
      BY <2>2
    <3>4. Requested'[n + 1] = more[n + 1]
      BY <2>3, <2>4, <2>5, <3>3
    <3> QED BY <3>1, <3>2, <3>4
  <2>7. Requested' = more
    BY <2>3, <2>4, <2>5, <2>6, SeqEqual
  <2> QED BY <2>2, <2>7 DEF more
<1>2. CASE ~Posts
  BY <1>2 DEF WriteStep, Quiet, OnPosted, Transmit, OnWritten, OnWriteError, callVars
<1> QED BY <1>1, <1>2

\* The stream to the server, the first `from' calls taken off it and the symbols
\* `taken' read of the next, carries the calls made, each when its turn comes.
LEMMA RequestsCarried ==
  ASSUME TypeOK, TypeOK', QueueOK, WriterOK, WriteStep,
         NEW taken \in Seq(Symbols), NEW from \in Nat,
         Carries(taken \o toServer, Requested, from),
         serverEnd # "reset" => SymbolsPut(2 * from + Len(taken \o toServer))
  PROVE  /\ taken \o toServer' \in Seq(Symbols)
         /\ Carries(taken \o toServer', Requested', from)
         /\ \E m \in Nat : /\ m = 2 * from + Len(taken \o toServer')
                           /\ serverEnd # "reset" => SymbolsPut(m)'
<1> DEFINE stream == taken \o toServer
           later == taken \o toServer'
<1>1. /\ toServer \in Seq(Symbols) /\ toServer' \in Seq(Symbols)
      /\ stream \in Seq(Symbols) /\ later \in Seq(Symbols)
      /\ Len(stream) \in Nat /\ Len(later) \in Nat
  <2>1. toServer \in Seq(Symbols) /\ toServer' \in Seq(Symbols)
    BY DEF TypeOK
  <2> QED BY <2>1
<1>5. PICK n \in Nat : n = 2 * from + Len(stream)
  BY <1>1
<1>2. Carries(stream, Requested', from)
  <2>1. CASE UNCHANGED issued
    <3>1. Requested' = Requested
      BY <2>1 DEF Requested
    <3> QED BY <3>1
  <2>2. ASSUME NEW request \in Requests, Requested' = Append(Requested, request)
        PROVE  Carries(stream, Requested', from)
    <3>1. Requested \in Seq(Requests)
      BY RequestedType
    <3> HIDE DEF Requests
    <3> QED BY <1>1, <2>2, <3>1, CarriesMore
  <2> QED BY <2>1, <2>2, RequestedStep
<1>3. CASE UNCHANGED toServer
  <2>1. later = stream
    BY <1>3
  <2>2. ASSUME NEW x PROVE toServer' # Append(toServer, x)
    <3>1. toServer \in Seq(Symbols) /\ toServer' = toServer
      BY <1>1, <1>3
    <3> QED BY <3>1, AppendProperties
  <2>3. serverEnd # "reset" => SymbolsPut(n)'
    BY <1>5, <2>2, PutStep
  <2> QED BY <1>1, <1>2, <1>5, <2>1, <2>3
<1>4. CASE toServer' # toServer
  <2>1. serverEnd # "reset"
    BY <1>4, PostedStarts, WrittenDoes, ErrorDoes DEF WriteStep, Quiet, Posts, Transmit
  <2> DEFINE put == sending[1].put
             text == Requested[Sent + 1]
             symbol == Encode(text)[put + 1]
  <2>2. /\ Sent \in Nat /\ Sent + 1 <= Len(issued) /\ put \in 0..1
        /\ n = 2 * Sent + put
        /\ toServer' = Append(toServer, symbol)
        /\ UNCHANGED issued
        /\ SymbolsPut(n + 1)'
    BY <1>4, <1>5, <2>1, PutStep
  <2>3. /\ Requested \in Seq(Requests) /\ Requested' = Requested
        /\ Sent + 1 <= Len(Requested)
        /\ Requests \subseteq Symbols
    BY <2>2, RequestedType DEF Requested, Symbols, Frames
  <2>4. symbol \in Symbols /\ later = Append(stream, symbol)
    <3>1. text \in Requests
      BY <2>2, <2>3, ElementOfSeq
    <3>2. symbol = text \/ symbol = NUL
      BY <2>2 DEF Encode
    <3>3. symbol \in Symbols
      BY <2>3, <3>1, <3>2 DEF Symbols
    <3> HIDE DEF symbol
    <3> QED BY <1>1, <2>2, <3>3
  <2> HIDE DEF put
  <2>5. from <= Sent /\ Len(stream) = 2 * (Sent - from) + put
    <3> DEFINE l == Len(stream)
               d == Sent
    <3>1. l \in Nat /\ d \in Nat /\ put \in 0..1 /\ 2 * from + l = 2 * d + put
      BY <1>1, <1>5, <2>2
    <3> HIDE DEF l, d
    <3> QED BY <3>1 DEF l, d
  <2>6. Carries(Append(stream, symbol), Requested, from) /\ Len(Append(stream, symbol)) = 2 * (Sent - from) + put + 1
    <3> DEFINE d == Sent
    <3>1. /\ d \in Nat /\ from <= d /\ d + 1 <= Len(Requested) /\ put \in 0..1
          /\ Len(stream) = 2 * (d - from) + put /\ stream \in Seq(Symbols)
          /\ Carries(stream, Requested, from)
      BY <1>1, <1>2, <2>2, <2>3, <2>5
    <3>2. symbol = Encode(Requested[d + 1])[put + 1]
      OBVIOUS
    <3> HIDE DEF stream, Requests, d, symbol
    <3> QED BY <2>3, <3>1, <3>2, CarriesPut, SMTT(30) DEF d
  <2>7. n + 1 = 2 * from + Len(later)
    <3> DEFINE l == Len(stream)
               d == Sent
               e == Len(later)
    <3>1. l \in Nat /\ d \in Nat /\ put \in 0..1 /\ from <= d /\ l = 2 * (d - from) + put /\ e = 2 * (d - from) + put + 1
      BY <1>1, <2>2, <2>4, <2>5, <2>6
    <3> HIDE DEF l, d, e
    <3>2. 2 * from + l + 1 = 2 * from + e
      BY <3>1
    <3> QED BY <1>5, <3>2 DEF l, e
  <2>8. n + 1 \in Nat
    BY <1>5
  <2> HIDE DEF symbol, stream
  <2> QED BY <1>1, <2>2, <2>3, <2>4, <2>6, <2>7, <2>8
<1> QED BY <1>3, <1>4

-----------------------------------------------------------------------------
(* Reading                                                                 *)

\* A read moves symbols into the buffer; the read handler takes one text off it.
LEMMA ReadStep ==
  ASSUME TypeOK, Step
  PROVE  \/ /\ HasText(readbuf)
            /\ heard' = Append(heard, NextText(readbuf))
            /\ readbuf' = AfterText(readbuf)
            /\ UNCHANGED fromServer
            /\ OnRead
         \/ /\ UNCHANGED heard
            /\ readbuf' \o fromServer' = readbuf \o fromServer
<1> USE DEF threadVars, callVars, writeVars, readVars
<1>1. ASSUME NEW n \in 1..Len(fromServer), Receive(n)
      PROVE  UNCHANGED heard /\ readbuf' \o fromServer' = readbuf \o fromServer
  <2>1. readbuf \in Seq(Symbols) /\ fromServer \in Seq(Symbols)
    BY DEF TypeOK
  <2> QED BY <1>1, <2>1, MoveBetween DEF Receive
<1>2. CASE OnRead
  BY <1>2 DEF OnRead, ParseResponse
<1>3. CASE Application \/ Connect
  BY <1>3 DEF Application, Connect, Run, StoreCallback, PostCall, Call, BeginCall, OnConnect, OnConnectError
<1>4. CASE Write \/ OnReadError
  BY <1>4 DEF Write, OnPosted, Transmit, OnWritten, OnWriteError, OnReadError
<1> QED BY <1>1, <1>2, <1>3, <1>4 DEF Step, Read
=============================================================================
