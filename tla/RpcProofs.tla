------------------------------ MODULE RpcProofs -----------------------------
(***************************************************************************)
(* What Rpc's pipelines rest on, for every set of calls, every number of   *)
(* addresses, every size of the send buffers and every way the kernel cuts *)
(* the streams or breaks the connection.  A client's steps are those of    *)
(* ClientLemmas and a session's those of SessionLemmas, each with the      *)
(* other as its server or its peer.                                        *)
(***************************************************************************)
EXTENDS Rpc, MessageLemmas

CL == INSTANCE ClientLemmas WITH
    fromServer <- s2c, toServer <- c2s, serverEnd <- End(Session!Alive)

SL == INSTANCE SessionLemmas WITH
    inbound <- c2s, outbound <- s2c, peerEnd <- End(socket # "closed")

\* What the modules of the two sides assume.
LEMMA Assumptions ==
  /\ CallOf \in [Calls -> [id : Ids, method : Methods, params : {"list", "null"}, arg : Args]]
  /\ FollowUp \in [Calls -> Calls \cup {NoCall}]
  /\ Late \subseteq Calls /\ Unfit \subseteq Calls /\ Stateful \subseteq Calls
  /\ NoCall \notin Calls
  /\ Garbage \notin Calls \cup {NoCall}
  /\ Endpoints \in Nat \ {0} /\ SndBuf \in Nat \ {0}
  /\ Handlers \subseteq Methods /\ Throwing \subseteq Handlers
  BY CallsAssumption, ConnectionAssumption, HandlersAssumption

-----------------------------------------------------------------------------
(* One language                                                            *)

\* Texts and streams are the same on both sides.
LEMMA Texts ==
  /\ CL!Requests = Requests /\ CL!Replies = Replies /\ CL!Symbols = Symbols
  /\ SL!Frames = Frames /\ SL!Replies = Replies /\ SL!Symbols = Symbols
<1> USE DEF Symbols, Frames, Requests, Replies, Responses, Results, EmptyText, ErrorText, NUL
<1>1. CL!Requests = Requests /\ CL!Replies = Replies /\ CL!Symbols = Symbols
  BY DEF CL!Symbols, CL!Frames, CL!Requests, CL!Replies, CL!Responses, CL!Results,
         CL!EmptyText, CL!ErrorText, CL!NUL
<1>2. SL!Frames = Frames /\ SL!Replies = Replies /\ SL!Symbols = Symbols
  BY DEF SL!Symbols, SL!Frames, SL!Requests, SL!Replies, SL!Responses, SL!Results,
         SL!EmptyText, SL!ErrorText, SL!NUL
<1> QED BY <1>1, <1>2

LEMMA Streams ==
  ASSUME NEW stream
  PROVE  /\ (CL!HasText(stream) <=> HasText(stream)) /\ (SL!HasText(stream) <=> HasText(stream))
         /\ CL!NextText(stream) = NextText(stream) /\ SL!NextText(stream) = NextText(stream)
         /\ CL!AfterText(stream) = AfterText(stream) /\ SL!AfterText(stream) = AfterText(stream)
  BY DEF HasText, NextText, AfterText, TextLength, NUL,
         CL!HasText, CL!NextText, CL!AfterText, CL!TextLength, CL!NUL,
         SL!HasText, SL!NextText, SL!AfterText, SL!TextLength, SL!NUL

LEMMA Carrying ==
  ASSUME NEW stream, NEW texts, NEW from
  PROVE  /\ CL!Carries(stream, texts, from) <=> Carries(stream, texts, from)
         /\ SL!Carries(stream, texts, from) <=> Carries(stream, texts, from)
  BY DEF Carries, NUL, CL!Carries, CL!NUL, SL!Carries, SL!NUL

Replied == [i \in 1..Len(served) |-> Reply(served[i])]

LEMMA CallsAndAnswers == CL!Requested = Requested /\ SL!Replied = Replied
  BY DEF CL!Requested, CL!RequestOf, Requested, Client!RequestOf,
         SL!Replied, SL!Reply, SL!Executes, SL!ErrorText, SL!EmptyText,
         Replied, Reply, Executes, ErrorText, EmptyText

\* The client's steps are those that ClientLemmas speaks of.
LEMMA ClientSteps == Client!Step => CL!Step
<1> USE DEF Client!threadVars, CL!threadVars, Client!callVars, CL!callVars,
            Client!writeVars, CL!writeVars, Client!readVars, CL!readVars,
            Client!Storing, CL!Storing, Client!Stored, CL!Stored, Client!Post, CL!Post,
            Client!RequestOf, CL!RequestOf, Client!Made, CL!Made
<1>1. Client!Run \/ Client!StoreCallback \/ Client!PostCall => CL!Run \/ CL!StoreCallback \/ CL!PostCall
  BY DEF Client!Run, CL!Run, Client!StoreCallback, CL!StoreCallback, Client!PostCall, CL!PostCall
<1>2. ASSUME NEW c \in Calls, Client!Call(c) \/ Client!BeginCall(c)
      PROVE  CL!Call(c) \/ CL!BeginCall(c)
  BY <1>2 DEF Client!Call, CL!Call, Client!AsyncCall, CL!AsyncCall, Client!BeginCall, CL!BeginCall
<1>3. Client!Connect => CL!Connect
  BY DEF Client!Connect, CL!Connect, Client!OnConnect, CL!OnConnect,
         Client!OnConnectError, CL!OnConnectError, Client!Connecting, CL!Connecting,
         Client!Close, CL!Close, Client!Abort, CL!Abort
<1>4. Client!OnPosted => CL!OnPosted
  BY DEF Client!OnPosted, CL!OnPosted, Client!PushBack, CL!PushBack,
         Client!StartWrite, CL!StartWrite, Client!DoWrite, CL!DoWrite
<1>5. ASSUME NEW i, Client!Transmit(i) PROVE CL!Transmit(i)
  BY <1>5 DEF Client!Transmit, CL!Transmit, Client!Encode, CL!Encode, Client!NUL, CL!NUL
<1>6. ASSUME NEW i, Client!OnWritten(i) PROVE CL!OnWritten(i)
  BY <1>6 DEF Client!OnWritten, CL!OnWritten, Client!WriteOn, CL!WriteOn,
              Client!RemoveAt, CL!RemoveAt, Client!DoWrite, CL!DoWrite
<1>7. ASSUME NEW i, Client!OnWriteError(i) PROVE CL!OnWriteError(i)
  BY <1>7 DEF Client!OnWriteError, CL!OnWriteError, Client!RemoveAt, CL!RemoveAt,
              Client!Close, CL!Close, Client!Abort, CL!Abort
<1>8. Client!OnRead => CL!OnRead
  BY DEF Client!OnRead, CL!OnRead, Client!HasText, CL!HasText, Client!NUL, CL!NUL,
         Client!ParseResponse, CL!ParseResponse, Client!Found, CL!Found,
         Client!Selected, CL!Selected, Client!Invoke, CL!Invoke,
         Client!AsyncCall, CL!AsyncCall, Client!NextText, CL!NextText,
         Client!AfterText, CL!AfterText, Client!TextLength, CL!TextLength
<1>9. Client!OnReadError => CL!OnReadError
  BY DEF Client!OnReadError, CL!OnReadError, Client!HasText, CL!HasText, Client!NUL, CL!NUL,
         Client!Close, CL!Close, Client!Abort, CL!Abort
<1>10. ASSUME NEW n, Client!Receive(n) PROVE CL!Receive(n)
  BY <1>10 DEF Client!Receive, CL!Receive, Client!HasText, CL!HasText, Client!NUL, CL!NUL
<1> QED
  BY <1>1, <1>2, <1>3, <1>4, <1>5, <1>6, <1>7, <1>8, <1>9, <1>10, Zenon
  DEF Client!Step, CL!Step, Client!Application, CL!Application, Client!Write, CL!Write, Client!Read, CL!Read

\* The session's steps are those that SessionLemmas speaks of.
LEMMA SessionSteps == Session!Step => SL!Step
<1>1. Session!Start => SL!Start
  BY DEF Session!Start, SL!Start
<1>2. Session!OnRead => SL!OnRead
  BY DEF Session!OnRead, SL!OnRead, Session!HasText, SL!HasText, Session!NUL, SL!NUL,
         Session!NextText, SL!NextText, Session!AfterText, SL!AfterText,
         Session!TextLength, SL!TextLength, Session!ParseJson, SL!ParseJson,
         Session!WriteResponse, SL!WriteResponse, Session!PushBack, SL!PushBack,
         Session!StartWrite, SL!StartWrite, Session!Reply, SL!Reply, Session!Executes, SL!Executes,
         Session!ErrorText, SL!ErrorText, Session!EmptyText, SL!EmptyText,
         Session!AsyncWrite, SL!AsyncWrite
<1>3. Session!OnReadError => SL!OnReadError
  BY DEF Session!OnReadError, SL!OnReadError, Session!HasText, SL!HasText, Session!NUL, SL!NUL
<1>4. ASSUME NEW n, Session!Receive(n) PROVE SL!Receive(n)
  BY <1>4 DEF Session!Receive, SL!Receive, Session!HasText, SL!HasText, Session!NUL, SL!NUL
<1>5. ASSUME NEW i, Session!Transmit(i) PROVE SL!Transmit(i)
  BY <1>5 DEF Session!Transmit, SL!Transmit, Session!Encode, SL!Encode, Session!NUL, SL!NUL
<1>6. ASSUME NEW i, Session!OnWritten(i) PROVE SL!OnWritten(i)
  BY <1>6 DEF Session!OnWritten, SL!OnWritten, Session!WriteOn, SL!WriteOn,
              Session!RemoveAt, SL!RemoveAt, Session!AsyncWrite, SL!AsyncWrite
<1>7. ASSUME NEW i, Session!OnWriteError(i) PROVE SL!OnWriteError(i)
  BY <1>7 DEF Session!OnWriteError, SL!OnWriteError, Session!RemoveAt, SL!RemoveAt
<1> QED BY <1>1, <1>2, <1>3, <1>4, <1>5, <1>6, <1>7, Zenon
     DEF Session!Step, SL!Step, Session!Read, SL!Read, Session!Write, SL!Write

-----------------------------------------------------------------------------
(* The invariant                                                           *)

\* What the server was given is the first of the calls made; the stream to it
\* carries those that follow and, while the connection is not reset, ends where
\* the write outstanding does.
RequestsUnderWay ==
    /\ Len(served) <= Len(Requested)
    /\ \A i \in 1..Len(served) : served[i] = Requested[i]
    /\ Carries(streambuf \o c2s, Requested, Len(served))
    /\ ~reset => CL!SymbolsPut(2 * Len(served) + Len(streambuf \o c2s))

\* The same of the answers to it.
RepliesUnderWay ==
    /\ Len(heard) <= Len(Replied)
    /\ \A i \in 1..Len(heard) : heard[i] = Replied[i]
    /\ Carries(readbuf \o s2c, Replied, Len(heard))
    /\ ~reset => SL!SymbolsPut(2 * Len(heard) + Len(readbuf \o s2c))

TypeOK == CL!TypeOK /\ SL!TypeOK /\ reset \in BOOLEAN

ClientOK == CL!QueueOK /\ CL!WriterOK /\ CL!AtWork

SessionOK == SL!AnswersOK /\ SL!WriterOK /\ SL!AtWork

RpcInv ==
    /\ TypeOK
    /\ ClientOK
    /\ SessionOK
    /\ RequestsUnderWay
    /\ RepliesUnderWay

LEMMA Ends ==
  ASSUME reset \in BOOLEAN, NEW open
  PROVE  End(open) \in {"open", "fin", "reset"} /\ (End(open) = "reset" <=> reset)
  BY DEF End

LEMMA StreamTypes ==
  ASSUME TypeOK
  PROVE  /\ streambuf \in Seq(Symbols) /\ c2s \in Seq(Symbols)
         /\ readbuf \in Seq(Symbols) /\ s2c \in Seq(Symbols)
         /\ streambuf \o c2s \in Seq(Symbols) /\ Len(streambuf \o c2s) \in Nat
         /\ readbuf \o s2c \in Seq(Symbols) /\ Len(readbuf \o s2c) \in Nat
         /\ served \in Seq(Frames) /\ heard \in Seq(Replies) /\ issued \in Seq(Calls)
         /\ Len(served) \in Nat /\ Len(heard) \in Nat /\ Len(issued) \in Nat
<1>1. /\ streambuf \in Seq(Symbols) /\ c2s \in Seq(Symbols)
      /\ readbuf \in Seq(Symbols) /\ s2c \in Seq(Symbols)
      /\ served \in Seq(Frames) /\ heard \in Seq(Replies) /\ issued \in Seq(Calls)
  BY Texts DEF TypeOK, CL!TypeOK, SL!TypeOK
<1> HIDE DEF Symbols, Frames, Replies
<1> QED BY <1>1

LEMMA TextTypes ==
  ASSUME TypeOK
  PROVE  /\ Requested \in Seq(Requests) /\ Len(Requested) = Len(issued)
         /\ Replied \in Seq(Replies) /\ Len(Replied) = Len(served)
         /\ Requests \subseteq Symbols /\ NUL \notin Requests /\ Requests \subseteq Frames
         /\ Replies \subseteq Symbols /\ NUL \notin Replies
<1>1. CL!Requested \in Seq(CL!Requests) /\ Len(CL!Requested) = Len(issued)
  BY Assumptions, CL!RequestedType DEF TypeOK
<1>2. SL!Replied \in Seq(SL!Replies) /\ Len(SL!Replied) = Len(served)
  BY Assumptions, SL!RepliedType DEF TypeOK
<1>3. /\ Requests \subseteq Symbols /\ NUL \notin Requests /\ Requests \subseteq Frames
      /\ Replies \subseteq Symbols /\ NUL \notin Replies
  BY NulIsNoText DEF Symbols, Frames
<1> QED BY <1>1, <1>2, <1>3, Texts, CallsAndAnswers

\* What parse_json is given next is the next call, and what parse_response is
\* given the next answer.
LEMMA TakesRequest ==
  ASSUME TypeOK, RequestsUnderWay, HasText(streambuf)
  PROVE  /\ Len(served) + 1 <= Len(Requested)
         /\ NextText(streambuf) = Requested[Len(served) + 1] /\ NextText(streambuf) \in Requests
         /\ AfterText(streambuf) \in Seq(Symbols)
         /\ Len(AfterText(streambuf) \o c2s) + 2 = Len(streambuf \o c2s)
         /\ Len(AfterText(streambuf) \o c2s) \in Nat
         /\ Carries(AfterText(streambuf) \o c2s, Requested, Len(served) + 1)
<1>1. /\ Requested \in Seq(Requests) /\ Requests \subseteq Symbols /\ NUL \notin Requests
      /\ streambuf \in Seq(Symbols) /\ c2s \in Seq(Symbols) /\ Len(served) \in Nat
      /\ Carries(streambuf \o c2s, Requested, Len(served))
  BY StreamTypes, TextTypes DEF RequestsUnderWay
<1> HIDE DEF Requests, Symbols, Requested
<1>2. /\ Len(served) + 1 <= Len(Requested)
      /\ NextText(streambuf) = Requested[Len(served) + 1] /\ Requested[Len(served) + 1] \in Requests
      /\ AfterText(streambuf) \in Seq(Symbols)
      /\ AfterText(streambuf) \o c2s \in Seq(Symbols)
      /\ Len(AfterText(streambuf) \o c2s) + 2 = Len(streambuf \o c2s)
      /\ Carries(AfterText(streambuf) \o c2s, Requested, Len(served) + 1)
  BY <1>1, CarriesTake
<1>3. Len(AfterText(streambuf) \o c2s) \in Nat
  BY <1>2, LenProperties
<1> QED BY <1>2, <1>3

LEMMA TakesReply ==
  ASSUME TypeOK, RepliesUnderWay, HasText(readbuf)
  PROVE  /\ Len(heard) + 1 <= Len(Replied)
         /\ NextText(readbuf) = Replied[Len(heard) + 1] /\ NextText(readbuf) \in Replies
         /\ AfterText(readbuf) \in Seq(Symbols)
         /\ Len(AfterText(readbuf) \o s2c) + 2 = Len(readbuf \o s2c)
         /\ Len(AfterText(readbuf) \o s2c) \in Nat
         /\ Carries(AfterText(readbuf) \o s2c, Replied, Len(heard) + 1)
<1>1. /\ Replied \in Seq(Replies) /\ Replies \subseteq Symbols /\ NUL \notin Replies
      /\ readbuf \in Seq(Symbols) /\ s2c \in Seq(Symbols) /\ Len(heard) \in Nat
      /\ Carries(readbuf \o s2c, Replied, Len(heard))
  BY StreamTypes, TextTypes DEF RepliesUnderWay
<1> HIDE DEF Replies, Symbols, Replied
<1>2. /\ Len(heard) + 1 <= Len(Replied)
      /\ NextText(readbuf) = Replied[Len(heard) + 1] /\ Replied[Len(heard) + 1] \in Replies
      /\ AfterText(readbuf) \in Seq(Symbols)
      /\ AfterText(readbuf) \o s2c \in Seq(Symbols)
      /\ Len(AfterText(readbuf) \o s2c) + 2 = Len(readbuf \o s2c)
      /\ Carries(AfterText(readbuf) \o s2c, Replied, Len(heard) + 1)
  BY <1>1, CarriesTake
<1>3. Len(AfterText(readbuf) \o s2c) \in Nat
  BY <1>2, LenProperties
<1> QED BY <1>2, <1>3

-----------------------------------------------------------------------------
(* The client's steps                                                      *)

LEMMA ClientStepTypes ==
  ASSUME RpcInv, ClientStep
  PROVE  TypeOK' /\ CL!WriteStep /\ (socket' # "closed" => socket # "closed")
<1>1. CL!TypeOK /\ SL!TypeOK /\ reset \in BOOLEAN /\ RepliesUnderWay /\ TypeOK
  BY DEF RpcInv, TypeOK
<1>2. CL!Step /\ UNCHANGED <<sessionVars, reset>>
  BY ClientSteps DEF ClientStep
<1>3. CL!OnRead => CL!NextText(readbuf) \in CL!Replies /\ CL!AfterText(readbuf) \in Seq(CL!Symbols)
  <2>1. CL!OnRead => HasText(readbuf)
    BY Streams DEF CL!OnRead
  <2> QED BY <1>1, <2>1, TakesReply, Streams, Texts
<1>4. CL!WriteStep /\ (socket' # "closed" => socket # "closed")
  BY <1>1, <1>2, <1>3, Assumptions, CL!WriteCases
<1>5. /\ End(Session!Alive)' \in {"open", "fin", "reset"}
      /\ End(socket # "closed")' \in {"open", "fin", "reset"}
  BY <1>1, <1>2 DEF End
<1>6. CL!TypeOK'
  BY <1>1, <1>2, <1>3, <1>5, Assumptions, CL!StepTypes
<1>7. c2s' \in Seq(SL!Symbols) /\ s2c' \in Seq(SL!Symbols)
  BY <1>6, Texts DEF CL!TypeOK
<1>8. SL!TypeOK'
  BY <1>1, <1>2, <1>5, <1>7 DEF SL!TypeOK, sessionVars
<1> QED BY <1>1, <1>2, <1>4, <1>6, <1>8 DEF TypeOK

LEMMA ClientStepInv ==
  ASSUME RpcInv, ClientStep
  PROVE  RpcInv'
<1>1. /\ CL!TypeOK /\ SL!TypeOK /\ reset \in BOOLEAN /\ TypeOK
      /\ CL!QueueOK /\ CL!WriterOK /\ CL!AtWork
      /\ SL!AnswersOK /\ SL!WriterOK /\ SL!AtWork
      /\ RequestsUnderWay /\ RepliesUnderWay
  BY DEF RpcInv, TypeOK, ClientOK, SessionOK
<1>2. CL!Step /\ UNCHANGED <<sessionVars, reset>>
  BY ClientSteps DEF ClientStep
<1>3. TypeOK' /\ CL!TypeOK' /\ CL!WriteStep /\ (socket' # "closed" => socket # "closed")
  BY ClientStepTypes DEF TypeOK
<1>4. ClientOK'
  BY <1>1, <1>3, Assumptions, CL!QueueStep, CL!WriterStep DEF ClientOK
<1>5. SessionOK'
  BY <1>1, <1>2 DEF SessionOK, SL!AnswersOK, SL!Reply, SL!Executes, SL!WriterOK, SL!AtWork, sessionVars, End
<1>6. RequestsUnderWay'
  <2> DEFINE h == Len(served)
             stream == streambuf \o c2s
             later == streambuf \o c2s'
  <2>1. /\ h \in Nat /\ streambuf \in Seq(CL!Symbols)
        /\ CL!Carries(stream, CL!Requested, h)
        /\ End(Session!Alive) # "reset" => CL!SymbolsPut(2 * h + Len(stream))
    BY <1>1, StreamTypes, Texts, Carrying, CallsAndAnswers, Ends DEF RequestsUnderWay
  <2>2. /\ CL!Carries(later, CL!Requested', h)
        /\ \E m \in Nat : /\ m = 2 * h + Len(later)
                          /\ End(Session!Alive) # "reset" => CL!SymbolsPut(m)'
    <3> HIDE DEF h
    <3> QED BY <1>1, <1>3, <2>1, Assumptions, CL!RequestsCarried
  <2>3. PICK m \in Nat : m = 2 * h + Len(later) /\ (End(Session!Alive) # "reset" => CL!SymbolsPut(m)')
    BY <2>2
  <2>4. UNCHANGED <<served, streambuf, reset>> /\ Requested' = CL!Requested'
    <3>1. UNCHANGED <<served, streambuf, reset>>
      BY <1>2 DEF sessionVars
    <3>2. Requested' = CL!Requested'
      BY DEF CL!Requested, CL!RequestOf, Requested, Client!RequestOf
    <3> QED BY <3>1, <3>2
  <2>5. ~reset' => CL!SymbolsPut(2 * Len(served) + Len(streambuf \o c2s))'
    BY <1>1, <2>3, <2>4, Ends DEF CL!SymbolsPut
  <2>6. h <= Len(Requested') /\ \A i \in 1..h : served[i] = Requested'[i]
    <3>1. h <= Len(Requested) /\ \A i \in 1..h : served[i] = Requested[i]
      BY <1>1 DEF RequestsUnderWay
    <3>2. UNCHANGED issued \/ \E request \in Requests : Requested' = Append(Requested, request)
      BY <1>1, <1>3, <2>4, Assumptions, CL!RequestedStep, CallsAndAnswers, Texts
    <3>3. CASE UNCHANGED issued
      BY <3>1, <3>3 DEF Requested
    <3>4. ASSUME NEW request \in Requests, Requested' = Append(Requested, request)
          PROVE  h <= Len(Requested') /\ \A i \in 1..h : served[i] = Requested'[i]
      <4>1. Requested \in Seq(Requests) /\ h \in Nat
        BY <1>1, <2>1, TextTypes
      <4>2. Len(Requested) \in Nat
        BY <4>1, LenProperties
      <4> HIDE DEF Requests, h, Requested
      <4>3. Len(Requested') = Len(Requested) + 1 /\ \A i \in 1..Len(Requested) : Requested'[i] = Requested[i]
        BY <3>4, <4>1
      <4>4. \A i \in 1..h : i \in 1..Len(Requested)
        BY <3>1, <4>1, <4>2
      <4> QED BY <3>1, <4>1, <4>2, <4>3, <4>4
    <3> QED BY <3>2, <3>3, <3>4
  <2>7. Carries(later, Requested', h)
    BY <2>2, <2>4, Carrying
  <2> QED BY <2>4, <2>5, <2>6, <2>7 DEF RequestsUnderWay
<1>7. RepliesUnderWay'
  <2> DEFINE h == Len(heard)
             stream == readbuf \o s2c
  <2>1. /\ h \in Nat /\ Len(stream) \in Nat /\ heard \in Seq(Replies)
        /\ h <= Len(Replied) /\ \A i \in 1..h : heard[i] = Replied[i]
        /\ Carries(stream, Replied, h)
        /\ ~reset => SL!SymbolsPut(2 * h + Len(stream))
    BY <1>1, StreamTypes DEF RepliesUnderWay
  <2>2. /\ UNCHANGED <<served, answered, msgs, writes, reset>> /\ Replied' = Replied
        /\ \A n : SL!SymbolsPut(n)' <=> SL!SymbolsPut(n)
    BY <1>2 DEF sessionVars, Replied, SL!SymbolsPut
  <2>3. CASE UNCHANGED heard /\ readbuf' \o s2c' = stream
    BY <2>1, <2>2, <2>3 DEF RepliesUnderWay, SL!SymbolsPut
  <2>4. CASE /\ CL!HasText(readbuf) /\ heard' = Append(heard, CL!NextText(readbuf))
             /\ readbuf' = CL!AfterText(readbuf) /\ UNCHANGED s2c
    <3> DEFINE after == AfterText(readbuf) \o s2c
               text == NextText(readbuf)
    <3>1. /\ h + 1 <= Len(Replied) /\ text = Replied[h + 1] /\ text \in Replies
          /\ Len(after) + 2 = Len(stream) /\ Len(after) \in Nat
          /\ Carries(after, Replied, h + 1)
      BY <1>1, <2>4, Streams, TakesReply
    <3>2. heard' = Append(heard, text) /\ readbuf' \o s2c' = after
      BY <2>4, Streams
    <3>3. Len(heard') = h + 1 /\ heard'[h + 1] = text /\ \A i \in 1..h : heard'[i] = heard[i]
      <4> HIDE DEF Replies, text
      <4> QED BY <2>1, <3>1, <3>2
    <3>4. \A i \in 1..(h + 1) : heard'[i] = Replied[i]
      <4>1. \A i \in 1..(h + 1) : i \in 1..h \/ i = h + 1
        BY <2>1
      <4> HIDE DEF h, Replied
      <4> QED BY <2>1, <3>1, <3>3, <4>1
    <3>5. 2 * (h + 1) + Len(after) = 2 * h + Len(stream)
      <4> DEFINE l == Len(stream)
                 m == Len(after)
      <4>1. h \in Nat /\ m \in Nat /\ m + 2 = l
        BY <2>1, <3>1
      <4> HIDE DEF h, l, m
      <4> QED BY <4>1 DEF l, m
    <3>6. ~reset' => SL!SymbolsPut(2 * Len(heard) + Len(readbuf \o s2c))'
      BY <2>1, <2>2, <3>2, <3>3, <3>5 DEF SL!SymbolsPut
    <3> HIDE DEF h, after, text, Replied
    <3> QED BY <2>2, <3>1, <3>2, <3>3, <3>4, <3>6 DEF RepliesUnderWay
  <2> QED BY <1>1, <1>2, <2>3, <2>4, Assumptions, CL!ReadStep
<1> QED BY <1>3, <1>4, <1>5, <1>6, <1>7 DEF RpcInv

-----------------------------------------------------------------------------
(* The session's steps                                                     *)

LEMMA SessionStepTypes ==
  ASSUME RpcInv, SessionStep
  PROVE  TypeOK' /\ SL!WriteStep
<1>1. CL!TypeOK /\ SL!TypeOK /\ reset \in BOOLEAN /\ RequestsUnderWay /\ TypeOK
  BY DEF RpcInv, TypeOK
<1>2. SL!Step /\ UNCHANGED <<clientVars, reset>>
  BY SessionSteps DEF SessionStep
<1>3. SL!OnRead => SL!NextText(streambuf) \in SL!Frames /\ SL!AfterText(streambuf) \in Seq(SL!Symbols)
  <2>1. SL!OnRead => HasText(streambuf)
    BY Streams DEF SL!OnRead
  <2> QED BY <1>1, <2>1, TakesRequest, TextTypes, Streams, Texts
<1>4. SL!WriteStep
  BY <1>1, <1>2, <1>3, Assumptions, SL!WriteCases
<1>5. /\ End(Session!Alive)' \in {"open", "fin", "reset"}
      /\ End(socket # "closed")' \in {"open", "fin", "reset"}
  BY <1>1, <1>2 DEF End
<1>6. SL!TypeOK'
  BY <1>1, <1>2, <1>3, <1>5, Assumptions, SL!StepTypes
<1>7. c2s' \in Seq(CL!Symbols) /\ s2c' \in Seq(CL!Symbols)
  BY <1>6, Texts DEF SL!TypeOK
<1>8. CL!TypeOK'
  BY <1>1, <1>2, <1>5, <1>7 DEF CL!TypeOK, clientVars
<1> QED BY <1>1, <1>2, <1>4, <1>6, <1>8 DEF TypeOK

LEMMA SessionStepInv ==
  ASSUME RpcInv, SessionStep
  PROVE  RpcInv'
<1>1. /\ CL!TypeOK /\ SL!TypeOK /\ reset \in BOOLEAN /\ TypeOK
      /\ CL!QueueOK /\ CL!WriterOK /\ CL!AtWork
      /\ SL!AnswersOK /\ SL!WriterOK /\ SL!AtWork
      /\ RequestsUnderWay /\ RepliesUnderWay
  BY DEF RpcInv, TypeOK, ClientOK, SessionOK
<1>2. SL!Step /\ UNCHANGED <<clientVars, reset>>
  BY SessionSteps DEF SessionStep
<1>3. TypeOK' /\ SL!TypeOK' /\ SL!WriteStep
  BY SessionStepTypes DEF TypeOK
<1>4. UNCHANGED <<issued, posted, writeMsgs, sending, socket, heard, readbuf, reset>>
  BY <1>2 DEF clientVars
<1>5. ClientOK'
  BY <1>1, <1>4 DEF ClientOK, CL!QueueOK, CL!Sent, CL!Waiting, CL!RequestOf, CL!WriterOK, CL!AtWork
<1>6. SessionOK'
  <2>1. End(socket # "closed")' # "reset" => End(socket # "closed") # "reset"
    BY <1>4 DEF End
  <2> QED BY <1>1, <1>3, <2>1, Assumptions, SL!AnswersStep, SL!WriterStep DEF SessionOK
<1>7. RepliesUnderWay'
  <2> DEFINE h == Len(heard)
             stream == readbuf \o s2c
             later == readbuf \o s2c'
  <2>1. /\ h \in Nat /\ readbuf \in Seq(SL!Symbols)
        /\ SL!Carries(stream, SL!Replied, h)
        /\ End(socket # "closed") # "reset" => SL!SymbolsPut(2 * h + Len(stream))
    BY <1>1, StreamTypes, Texts, Carrying, CallsAndAnswers, Ends DEF RepliesUnderWay
  <2>2. /\ SL!Carries(later, SL!Replied', h)
        /\ \E m \in Nat : /\ m = 2 * h + Len(later)
                          /\ End(socket # "closed") # "reset" => SL!SymbolsPut(m)'
    <3> HIDE DEF h
    <3> QED BY <1>1, <1>3, <2>1, Assumptions, SL!RepliesCarried
  <2>3. PICK m \in Nat : m = 2 * h + Len(later) /\ (End(socket # "closed") # "reset" => SL!SymbolsPut(m)')
    BY <2>2
  <2>4. Replied' = SL!Replied'
    BY DEF SL!Replied, SL!Reply, SL!Executes, SL!ErrorText, SL!EmptyText,
           Replied, Reply, Executes, ErrorText, EmptyText
  <2>5. ~reset' => SL!SymbolsPut(2 * Len(heard) + Len(readbuf \o s2c))'
    BY <1>1, <1>4, <2>3, Ends DEF SL!SymbolsPut
  <2>6. h <= Len(Replied') /\ \A i \in 1..h : heard[i] = Replied'[i]
    <3>1. h <= Len(Replied) /\ \A i \in 1..h : heard[i] = Replied[i]
      BY <1>1 DEF RepliesUnderWay
    <3>2. UNCHANGED served \/ \E reply \in Replies : Replied' = Append(Replied, reply)
      BY <1>1, <1>3, <2>4, Assumptions, SL!RepliedStep, CallsAndAnswers, Texts
    <3>3. CASE UNCHANGED served
      BY <3>1, <3>3 DEF Replied
    <3>4. ASSUME NEW reply \in Replies, Replied' = Append(Replied, reply)
          PROVE  h <= Len(Replied') /\ \A i \in 1..h : heard[i] = Replied'[i]
      <4>1. Replied \in Seq(Replies) /\ h \in Nat
        BY <1>1, <2>1, TextTypes
      <4>2. Len(Replied) \in Nat
        BY <4>1, LenProperties
      <4> HIDE DEF Replies, h, Replied
      <4>3. Len(Replied') = Len(Replied) + 1 /\ \A i \in 1..Len(Replied) : Replied'[i] = Replied[i]
        BY <3>4, <4>1
      <4>4. \A i \in 1..h : i \in 1..Len(Replied)
        BY <3>1, <4>1, <4>2
      <4> QED BY <3>1, <4>1, <4>2, <4>3, <4>4
    <3> QED BY <3>2, <3>3, <3>4
  <2>7. Carries(later, Replied', h)
    BY <2>2, <2>4, Carrying
  <2> QED BY <1>4, <2>5, <2>6, <2>7 DEF RepliesUnderWay
<1>8. RequestsUnderWay'
  <2> DEFINE h == Len(served)
             stream == streambuf \o c2s
  <2>1. /\ h \in Nat /\ Len(stream) \in Nat /\ served \in Seq(Frames)
        /\ h <= Len(Requested) /\ \A i \in 1..h : served[i] = Requested[i]
        /\ Carries(stream, Requested, h)
        /\ ~reset => CL!SymbolsPut(2 * h + Len(stream))
    BY <1>1, StreamTypes DEF RequestsUnderWay
  <2>2. Requested' = Requested /\ \A n : CL!SymbolsPut(n)' <=> CL!SymbolsPut(n)
    BY <1>4 DEF Requested, Client!RequestOf, CL!SymbolsPut, CL!Sent, CL!Waiting
  <2>3. CASE UNCHANGED served /\ streambuf' \o c2s' = stream
    BY <1>4, <2>1, <2>2, <2>3 DEF RequestsUnderWay, CL!SymbolsPut, CL!Sent, CL!Waiting
  <2>4. CASE /\ SL!HasText(streambuf) /\ served' = Append(served, SL!NextText(streambuf))
             /\ streambuf' = SL!AfterText(streambuf) /\ UNCHANGED c2s
    <3> DEFINE after == AfterText(streambuf) \o c2s
               text == NextText(streambuf)
    <3>1. /\ h + 1 <= Len(Requested) /\ text = Requested[h + 1] /\ text \in Frames
          /\ Len(after) + 2 = Len(stream) /\ Len(after) \in Nat
          /\ Carries(after, Requested, h + 1)
      BY <1>1, <2>4, Streams, TakesRequest, TextTypes
    <3>2. served' = Append(served, text) /\ streambuf' \o c2s' = after
      BY <2>4, Streams
    <3>3. Len(served') = h + 1 /\ served'[h + 1] = text /\ \A i \in 1..h : served'[i] = served[i]
      <4> HIDE DEF Frames, text
      <4> QED BY <2>1, <3>1, <3>2
    <3>4. \A i \in 1..(h + 1) : served'[i] = Requested[i]
      <4>1. \A i \in 1..(h + 1) : i \in 1..h \/ i = h + 1
        BY <2>1
      <4> HIDE DEF h, Requested
      <4> QED BY <2>1, <3>1, <3>3, <4>1
    <3>5. 2 * (h + 1) + Len(after) = 2 * h + Len(stream)
      <4> DEFINE l == Len(stream)
                 m == Len(after)
      <4>1. h \in Nat /\ m \in Nat /\ m + 2 = l
        BY <2>1, <3>1
      <4> HIDE DEF h, l, m
      <4> QED BY <4>1 DEF l, m
    <3>6. ~reset' => CL!SymbolsPut(2 * Len(served) + Len(streambuf \o c2s))'
      BY <1>4, <2>1, <2>2, <3>2, <3>3, <3>5 DEF CL!SymbolsPut, CL!Sent, CL!Waiting
    <3> HIDE DEF h, after, text, Requested
    <3> QED BY <2>2, <3>1, <3>2, <3>3, <3>4, <3>6 DEF RequestsUnderWay
  <2> QED BY <1>1, <1>2, <2>3, <2>4, Assumptions, SL!ReadStep
<1> QED BY <1>3, <1>5, <1>6, <1>7, <1>8 DEF RpcInv

-----------------------------------------------------------------------------
(* The connection breaks                                                   *)

LEMMA BreakInv ==
  ASSUME RpcInv, Break
  PROVE  RpcInv'
<1>1. /\ CL!TypeOK /\ SL!TypeOK /\ TypeOK
      /\ ClientOK /\ SessionOK /\ RequestsUnderWay /\ RepliesUnderWay
  BY DEF RpcInv, TypeOK
<1>2. /\ reset' = TRUE /\ c2s' \in {c2s, <<>>} /\ s2c' \in {s2c, <<>>}
      /\ UNCHANGED <<clientVars, sessionVars>>
  BY DEF Break
<1>3. TypeOK'
  <2>1. End(Session!Alive)' = "reset" /\ End(socket # "closed")' = "reset"
    BY <1>2 DEF End
  <2>2. c2s' \in Seq(Symbols) /\ s2c' \in Seq(Symbols)
    <3>1. <<>> \in Seq(Symbols)
      OBVIOUS
    <3> QED BY <1>1, <1>2, <3>1, StreamTypes
  <2>3. CL!TypeOK'
    BY <1>1, <1>2, <2>1, <2>2, Texts DEF CL!TypeOK, clientVars
  <2>4. SL!TypeOK'
    BY <1>1, <1>2, <2>1, <2>2, Texts DEF SL!TypeOK, sessionVars
  <2> QED BY <1>2, <2>3, <2>4 DEF TypeOK
<1>4. ClientOK'
  BY <1>1, <1>2 DEF ClientOK, CL!QueueOK, CL!Sent, CL!Waiting, CL!RequestOf, CL!WriterOK, CL!AtWork, clientVars
<1>5. SessionOK'
  BY <1>1, <1>2 DEF SessionOK, SL!AnswersOK, SL!Reply, SL!Executes, SL!WriterOK, SL!AtWork, sessionVars, End
<1>6. ASSUME NEW texts, NEW from, NEW a \in Seq(Symbols), NEW b \in Seq(Symbols),
             Carries(a \o b, texts, from), NEW c \in {b, <<>>}
      PROVE  Carries(a \o c, texts, from)
  <2>1. a \o <<>> = a /\ Carries(a, texts, from)
    <3>1. Carries(a, texts, from)
      BY <1>6, CarriesLess
    <3>2. a \o <<>> = a
      <4> HIDE DEF Symbols
      <4> QED BY ConcatEmptySeq
    <3> QED BY <3>1, <3>2
  <2> QED BY <1>6, <2>1
<1>7. RequestsUnderWay'
  <2>1. UNCHANGED <<served, streambuf, issued>> /\ Requested' = Requested
    BY <1>2 DEF clientVars, sessionVars, Requested, Client!RequestOf
  <2>2. Carries(streambuf \o c2s', Requested, Len(served))
    BY <1>1, <1>2, <1>6, StreamTypes DEF RequestsUnderWay
  <2> QED BY <1>1, <1>2, <2>1, <2>2 DEF RequestsUnderWay
<1>8. RepliesUnderWay'
  <2>1. UNCHANGED <<served, heard, readbuf>> /\ Replied' = Replied
    BY <1>2 DEF clientVars, sessionVars, Replied
  <2>2. Carries(readbuf \o s2c', Replied, Len(heard))
    BY <1>1, <1>2, <1>6, StreamTypes DEF RepliesUnderWay
  <2> QED BY <1>1, <1>2, <2>1, <2>2 DEF RepliesUnderWay
<1> QED BY <1>3, <1>4, <1>5, <1>7, <1>8 DEF RpcInv

LEMMA StutterInv ==
  ASSUME RpcInv, UNCHANGED vars
  PROVE  RpcInv'
<1> USE DEF vars, clientVars, sessionVars
<1>1. UNCHANGED <<End(Session!Alive), End(socket # "closed")>>
  BY DEF End, Session!Alive
<1>2. TypeOK'
  BY <1>1 DEF RpcInv, TypeOK, CL!TypeOK, SL!TypeOK
<1>3. ClientOK'
  BY DEF RpcInv, ClientOK, CL!QueueOK, CL!Sent, CL!Waiting, CL!RequestOf, CL!WriterOK, CL!AtWork
<1>4. SessionOK'
  BY <1>1 DEF RpcInv, SessionOK, SL!AnswersOK, SL!Reply, SL!Executes, SL!WriterOK, SL!AtWork
<1>5. RequestsUnderWay' /\ RepliesUnderWay'
  <2>1. Requested' = Requested /\ Replied' = Replied
    BY DEF Requested, Client!RequestOf, Replied
  <2>2. \A n : CL!SymbolsPut(n)' <=> CL!SymbolsPut(n)
    BY DEF CL!SymbolsPut, CL!Sent, CL!Waiting
  <2>3. \A n : SL!SymbolsPut(n)' <=> SL!SymbolsPut(n)
    BY DEF SL!SymbolsPut
  <2>4. RequestsUnderWay'
    BY <2>1, <2>2 DEF RpcInv, RequestsUnderWay, CL!SymbolsPut, CL!Sent, CL!Waiting
  <2>5. RepliesUnderWay'
    BY <2>1, <2>3 DEF RpcInv, RepliesUnderWay, SL!SymbolsPut
  <2> QED BY <2>4, <2>5
<1> QED BY <1>2, <1>3, <1>4, <1>5 DEF RpcInv

LEMMA InitInv ==
  ASSUME Init
  PROVE  RpcInv
<1>1. CL!Init /\ SL!Init /\ c2s = <<>> /\ s2c = <<>> /\ reset = FALSE
  BY DEF Init, Client!Init, Session!Init, CL!Init, SL!Init
<1>2. /\ <<>> \in Seq(Symbols) /\ <<>> \in Seq(Replies) /\ <<>> \in Seq(Frames) /\ <<>> \in Seq(Requests)
      /\ <<>> \in Seq(Calls) /\ <<>> \in Seq(CL!WriteOps) /\ <<>> \in Seq(SL!WriteOps)
      /\ <<>> \in Seq(CL!Invocations)
  OBVIOUS
<1>3. Len(<<>>) = 0 /\ <<>> \o <<>> = <<>>
  OBVIOUS
<1>4. /\ End(Session!Alive) \in {"open", "fin", "reset"}
      /\ End(socket # "closed") \in {"open", "fin", "reset"}
  BY <1>1 DEF End
<1>5. CL!TypeOK
  <2>1. Endpoints - 1 \in 0..Endpoints /\ [id \in Ids |-> NoCall] \in [Ids -> Calls \cup {NoCall}]
    BY Assumptions
  <2> USE <1>1, <1>2, <1>4, Texts DEF CL!Init
  <2>2. /\ running \in BOOLEAN /\ calling \in {NoCall} \cup [call : Late, stored : BOOLEAN] /\ raced \in BOOLEAN
        /\ callbackMap \in [Ids -> Calls \cup {NoCall}] /\ untried \in 0..Endpoints
        /\ socket \in {"connecting", "open", "closed"} /\ listening \in {"none", "reading", "ended"}
    BY <2>1
  <2>3. /\ posted \in Seq(CL!Requests) /\ readbuf \in Seq(CL!Symbols) /\ writeMsgs \in Seq(CL!Requests)
        /\ sending \in Seq([text : CL!Requests, put : 0..2, aborted : BOOLEAN])
        /\ issued \in Seq(Calls) /\ heard \in Seq(CL!Replies)
        /\ invoked \in Seq([call : Calls \cup {Garbage}, error : {0}, result : CL!Results])
        /\ s2c \in Seq(CL!Symbols) /\ c2s \in Seq(CL!Symbols)
    BY DEF CL!WriteOps, CL!Invocations
  <2> QED BY <2>2, <2>3 DEF CL!TypeOK
<1>6. SL!TypeOK
  BY <1>1, <1>2, <1>4, Texts DEF SL!Init, SL!TypeOK, SL!WriteOps
<1>7. ClientOK
  BY <1>1, <1>3 DEF CL!Init, ClientOK, CL!QueueOK, CL!Sent, CL!Waiting, CL!WriterOK, CL!AtWork
<1>8. SessionOK
  BY <1>1, <1>3 DEF SL!Init, SessionOK, SL!AnswersOK, SL!WriterOK, SL!AtWork
<1>9. Len(Requested) = 0 /\ Len(Replied) = 0
  BY <1>1, <1>3, <1>5, <1>6, TextTypes DEF TypeOK, CL!Init, SL!Init
<1>10. CL!SymbolsPut(0) /\ SL!SymbolsPut(0)
  BY <1>1, <1>3 DEF CL!Init, SL!Init, CL!SymbolsPut, CL!Sent, CL!Waiting, SL!SymbolsPut
<1>11. 2 * 0 + 0 = 0 /\ 0 <= 0 /\ \A i : i \notin 1..0
  OBVIOUS
<1>12. \A texts, from : Carries(<<>>, texts, from)
  BY <1>3, <1>11 DEF Carries
<1>13. served = <<>> /\ heard = <<>> /\ streambuf = <<>> /\ readbuf = <<>>
  BY <1>1 DEF CL!Init, SL!Init
<1>14. RequestsUnderWay /\ RepliesUnderWay
  BY <1>1, <1>3, <1>9, <1>10, <1>11, <1>12, <1>13 DEF RequestsUnderWay, RepliesUnderWay
<1> QED BY <1>1, <1>5, <1>6, <1>7, <1>8, <1>14 DEF RpcInv, TypeOK

\* A client and the session that serves it stay as RpcInv says.
THEOREM RpcInvariant == Spec => []RpcInv
<1>1. Init => RpcInv
  BY InitInv
<1>2. RpcInv /\ [Next]_vars => RpcInv'
  BY ClientStepInv, SessionStepInv, BreakInv, StutterInv DEF Next
<1> QED BY <1>1, <1>2, PTL DEF Spec

-----------------------------------------------------------------------------
(* The pipelines                                                           *)

\* The texts that a stream carries.
LEMMA BodiesCarried ==
  ASSUME NEW stream \in Seq(Symbols), NEW all, NEW from \in Nat, Carries(stream, all, from)
  PROVE  /\ Bodies(stream) \in Seq(Symbols)
         /\ Len(Bodies(stream)) = (Len(stream) + 1) \div 2
         /\ \A k \in 1..((Len(stream) + 1) \div 2) : Bodies(stream)[k] = all[from + k]
<1> DEFINE l == Len(stream)
           n == (l + 1) \div 2
           bodies == Bodies(stream)
<1>1. l \in Nat /\ n \in Nat
  <2>1. l \in Nat
    BY LenProperties
  <2> HIDE DEF l
  <2> QED BY <2>1
<1>2. \A k \in 1..n : 2 * k - 1 \in 1..l /\ (2 * k - 1) % 2 = 1 /\ ((2 * k - 1) + 1) \div 2 = k
  <2> HIDE DEF l
  <2> QED BY <1>1
<1>3. bodies = [k \in 1..n |-> stream[2 * k - 1]]
  BY DEF Bodies
<1>4. \A k \in 1..n : stream[2 * k - 1] \in Symbols /\ stream[2 * k - 1] = all[from + k]
  BY <1>2 DEF Carries
<1> HIDE DEF l, n, bodies
<1>5. bodies \in [1..n -> Symbols] /\ DOMAIN bodies = 1..n /\ \A k \in 1..n : bodies[k] = all[from + k]
  BY <1>3, <1>4
<1>6. bodies \in Seq(Symbols)
  BY <1>1, <1>5, SeqDef
<1>7. Len(bodies) = n
  BY <1>1, <1>5, <1>6, LenProperties
<1> QED BY <1>5, <1>6, <1>7 DEF bodies, n, l

\* A part is what follows the first `from' texts of all.
Follows(part, all, from) == \A i \in 1..Len(part) : part[i] = all[from + i]

\* Three stretches that make up the whole.
Joined(all, done, under, rest) ==
    /\ all \in Seq(Symbols) /\ done \in Seq(Symbols) /\ under \in Seq(Symbols) /\ rest \in Seq(Symbols)
    /\ Follows(done, all, 0)
    /\ Follows(under, all, Len(done))
    /\ Follows(rest, all, Len(done) + Len(under))
    /\ Len(done) + Len(under) + Len(rest) = Len(all)

LEMMA Stretches ==
  ASSUME NEW all, NEW done, NEW under, NEW rest, Joined(all, done, under, rest)
  PROVE  all = done \o under \o rest
<1>0. /\ all \in Seq(Symbols) /\ done \in Seq(Symbols) /\ under \in Seq(Symbols) /\ rest \in Seq(Symbols)
      /\ Follows(done, all, 0)
      /\ Follows(under, all, Len(done))
      /\ Follows(rest, all, Len(done) + Len(under))
      /\ Len(done) + Len(under) + Len(rest) = Len(all)
  BY DEF Joined
<1> USE <1>0
<1> DEFINE d == Len(done)
           u == Len(under)
           r == Len(rest)
           most == done \o under
           whole == most \o rest
<1> HIDE DEF Symbols
<1>1. d \in Nat /\ u \in Nat /\ r \in Nat
  BY LenProperties
<1>2. most \in Seq(Symbols) /\ Len(most) = d + u /\ \A i \in 1..(d + u) : most[i] = IF i <= d THEN done[i] ELSE under[i - d]
  BY ConcatProperties
<1>3. \A i \in 1..(d + u) : most[i] = all[i]
  <2> SUFFICES ASSUME NEW i \in 1..(d + u) PROVE most[i] = all[i]
    OBVIOUS
  <2>1. CASE i <= d
    <3>1. i \in 1..d
      BY <1>1, <2>1
    <3>2. done[i] = all[0 + i] /\ 0 + i = i
      BY <1>1, <3>1 DEF Follows
    <3> QED BY <1>2, <2>1, <3>2
  <2>2. CASE ~(i <= d)
    <3> HIDE DEF d, u, most
    <3>1. i - d \in 1..u /\ d + (i - d) = i
      BY <1>1, <2>2
    <3>2. most[i] = under[i - d]
      BY <1>2, <2>2
    <3> QED BY <3>1, <3>2 DEF u, d, Follows
  <2> QED BY <2>1, <2>2
<1> HIDE DEF most
<1>4. whole \in Seq(Symbols) /\ Len(whole) = d + u + r
      /\ \A i \in 1..(d + u + r) : whole[i] = IF i <= d + u THEN most[i] ELSE rest[i - (d + u)]
  <2> HIDE DEF d, u
  <2>1. most \in Seq(Symbols) /\ rest \in Seq(Symbols)
    BY <1>2
  <2>2. /\ whole \in Seq(Symbols) /\ Len(whole) = Len(most) + Len(rest)
        /\ \A i \in 1..Len(most) + Len(rest) : whole[i] = IF i <= Len(most) THEN most[i] ELSE rest[i - Len(most)]
    BY <2>1, ConcatProperties, Zenon
  <2> HIDE DEF whole
  <2> QED BY <1>2, <2>2 DEF r
<1>5. \A i \in 1..(d + u + r) : whole[i] = all[i]
  <2> SUFFICES ASSUME NEW i \in 1..(d + u + r) PROVE whole[i] = all[i]
    OBVIOUS
  <2> HIDE DEF whole
  <2>1. CASE i <= d + u
    <3>1. i \in 1..(d + u)
      BY <1>1, <2>1
    <3> QED BY <1>3, <1>4, <2>1, <3>1
  <2>2. CASE ~(i <= d + u)
    <3> HIDE DEF d, u, r
    <3>1. i - (d + u) \in 1..r /\ d + u + (i - (d + u)) = i
      BY <1>1, <2>2
    <3>2. whole[i] = rest[i - (d + u)]
      BY <1>4, <2>2
    <3> QED BY <3>1, <3>2 DEF r, u, d, Follows
  <2> QED BY <2>1, <2>2
<1> HIDE DEF whole
<1>6. all = whole
  BY <1>4, <1>5, SeqEqual
<1> QED BY <1>6 DEF whole, most

\* `done' is what has arrived of all, `stream' is under way and `queue' waits; the
\* stream ends `put' symbols behind the first `sent' texts and the queue holds
\* those from there on.
Piped(all, done, stream, queue, sent, put) ==
    /\ all \in Seq(Symbols) /\ done \in Seq(Symbols) /\ stream \in Seq(Symbols) /\ queue \in Seq(Symbols)
    /\ Follows(done, all, 0)
    /\ Carries(stream, all, Len(done))
    /\ sent \in Nat /\ sent + Len(queue) = Len(all)
    /\ Follows(queue, all, sent)
    /\ put \in 0..2
    /\ put > 0 => queue # <<>>
    /\ 2 * Len(done) + Len(stream) = 2 * sent + put

\* Behind(queue, put): the texts of the queue of which the write under way has put nothing.
Behind(queue, put) == IF put > 0 THEN Tail(queue) ELSE queue

LEMMA Pipeline ==
  ASSUME NEW all, NEW done, NEW stream, NEW queue, NEW sent, NEW put,
         Piped(all, done, stream, queue, sent, put)
  PROVE  all = done \o Bodies(stream) \o Behind(queue, put)
<1> DEFINE rest == Behind(queue, put)
<1>0. /\ all \in Seq(Symbols) /\ done \in Seq(Symbols) /\ stream \in Seq(Symbols) /\ queue \in Seq(Symbols)
      /\ Follows(done, all, 0)
      /\ Carries(stream, all, Len(done))
      /\ sent \in Nat /\ sent + Len(queue) = Len(all)
      /\ Follows(queue, all, sent)
      /\ put \in 0..2
      /\ put > 0 => queue # <<>>
      /\ 2 * Len(done) + Len(stream) = 2 * sent + put
  BY DEF Piped
<1> USE <1>0
<1> DEFINE d == Len(done)
           l == Len(stream)
           q == Len(queue)
           n == Len(all)
           b == (l + 1) \div 2
<1>1. d \in Nat /\ l \in Nat /\ q \in Nat /\ n \in Nat
  BY LenProperties
<1>2. /\ Bodies(stream) \in Seq(Symbols) /\ Len(Bodies(stream)) = b
      /\ \A k \in 1..b : Bodies(stream)[k] = all[d + k]
  <2> HIDE DEF Symbols
  <2> QED BY BodiesCarried
<1> HIDE DEF Symbols
<1>3. CASE put > 0
  <2>1. queue # <<>> /\ rest = Tail(queue)
    BY <1>3 DEF Behind
  <2> HIDE DEF rest
  <2>2. /\ rest \in Seq(Symbols) /\ Len(rest) = q - 1 /\ q >= 1
        /\ \A i \in 1..(q - 1) : rest[i] = queue[i + 1]
    BY <2>1, HeadTailProperties
  <2> HIDE DEF d, l, q, n
  <2>3. b \in Nat /\ d + b = sent + 1 /\ sent + q = n /\ 2 * d + l = 2 * sent + put
    <3>1. 2 * d + l = 2 * sent + put /\ sent + q = n
      BY DEF d, l, q, n
    <3> QED BY <1>1, <1>3, <3>1
  <2> HIDE DEF b
  <2>4. \A i \in 1..(q - 1) : rest[i] = all[d + b + i]
    <3>1. \A i \in 1..(q - 1) : i + 1 \in 1..q /\ sent + (i + 1) = d + b + i
      BY <1>1, <2>2, <2>3
    <3>2. \A i \in 1..q : queue[i] = all[sent + i]
      BY DEF q, Follows
    <3> QED BY <2>2, <3>1, <3>2
  <2>5. d + b + (q - 1) = n
    BY <1>1, <2>3
  <2>6. all = done \o Bodies(stream) \o rest
    <3>1. /\ Follows(rest, all, Len(done) + Len(Bodies(stream)))
          /\ Len(done) + Len(Bodies(stream)) + Len(rest) = Len(all)
          /\ Follows(Bodies(stream), all, Len(done))
      BY <1>2, <2>2, <2>4, <2>5 DEF Follows, d, n
    <3>2. Joined(all, done, Bodies(stream), rest)
      BY <1>2, <2>2, <3>1 DEF Joined
    <3> HIDE <1>0
    <3> QED BY ONLY <3>2, Stretches
  <2> QED BY <2>6 DEF rest
<1>4. CASE ~(put > 0)
  <2>1. rest = queue /\ put = 0
    BY <1>4 DEF Behind
  <2> HIDE DEF d, l, q, n
  <2>2. b \in Nat /\ d + b = sent /\ sent + q = n
    <3>1. 2 * d + l = 2 * sent + put /\ sent + q = n
      BY DEF d, l, q, n
    <3> QED BY <1>1, <2>1, <3>1
  <2> HIDE DEF b
  <2>3. \A i \in 1..q : queue[i] = all[d + b + i]
    BY <2>2 DEF q, Follows
  <2>4. d + b + q = n
    BY <2>2
  <2>5. all = done \o Bodies(stream) \o queue
    <3>1. /\ Follows(queue, all, Len(done) + Len(Bodies(stream)))
          /\ Len(done) + Len(Bodies(stream)) + Len(queue) = Len(all)
          /\ Follows(Bodies(stream), all, Len(done))
      BY <1>2, <2>3, <2>4 DEF Follows, d, n, q
    <3>2. Joined(all, done, Bodies(stream), queue)
      BY <1>2, <3>1 DEF Joined
    <3> HIDE <1>0
    <3> QED BY ONLY <3>2, Stretches
  <2> QED BY <2>1, <2>5
<1> QED BY <1>3, <1>4

LEMMA RequestsInPipeline ==
  ASSUME RpcInv
  PROVE  RequestPipeline
<1> DEFINE h == Len(served)
           stream == streambuf \o c2s
           waiting == CL!Waiting
<1>1. /\ CL!TypeOK /\ TypeOK /\ CL!QueueOK /\ CL!WriterOK /\ CL!AtWork /\ RequestsUnderWay
  BY DEF RpcInv, TypeOK, ClientOK
<1>2. /\ served \in Seq(Symbols) /\ stream \in Seq(Symbols) /\ Requested \in Seq(Symbols)
      /\ Len(Requested) = Len(issued) /\ h \in Nat /\ Len(issued) \in Nat /\ Requests \subseteq Symbols
  <2>1. Frames \subseteq Symbols
    BY DEF Symbols
  <2>2. served \in Seq(Frames) /\ Requested \in Seq(Requests) /\ Requests \subseteq Symbols
    BY <1>1, StreamTypes, TextTypes
  <2> HIDE DEF Symbols, Frames, Requests, Requested
  <2>3. served \in Seq(Symbols) /\ Requested \in Seq(Symbols)
    BY <2>1, <2>2
  <2> QED BY <1>1, <2>2, <2>3, StreamTypes, TextTypes
<1>3. IsPrefix(served, Requested)
  <2> HIDE DEF Symbols, Requested
  <2> QED BY <1>1, <1>2, AgreesIsPrefix DEF RequestsUnderWay
<1>4. ASSUME socket # "closed", ~reset
      PROVE  Requested = served \o Bodies(stream) \o Unwritten(writeMsgs, sending) \o posted
  <2>1. /\ writeMsgs \in Seq(Symbols) /\ posted \in Seq(Symbols)
        /\ waiting \in Seq(Symbols) /\ Len(waiting) \in Nat
    <3>1. writeMsgs \in Seq(Requests) /\ posted \in Seq(Requests)
      BY <1>1, Texts DEF CL!TypeOK
    <3> HIDE DEF Symbols, Requests
    <3>2. writeMsgs \in Seq(Symbols) /\ posted \in Seq(Symbols)
      BY <1>2, <3>1
    <3> QED BY <3>2 DEF CL!Waiting
  <2>2. /\ CL!Sent \in Nat /\ CL!Sent + Len(waiting) = Len(Requested)
        /\ Follows(waiting, Requested, CL!Sent)
    <3> DEFINE s == CL!Sent
               w == Len(waiting)
               n == Len(issued)
    <3>1. s \in Nat /\ w \in Nat /\ n \in Nat /\ s = n - w
      BY <1>1, <1>2, <2>1 DEF CL!QueueOK, CL!Sent
    <3>2. \A i \in 1..w : waiting[i] = CL!RequestOf(issued[s + i])
      BY <1>1 DEF CL!QueueOK
    <3>3. \A i \in 1..n : Requested[i] = CL!RequestOf(issued[i])
      BY DEF Requested, Client!RequestOf, CL!RequestOf
    <3> HIDE DEF s, w, n
    <3>4. s + w = n /\ \A i \in 1..w : s + i \in 1..n
      BY <3>1
    <3> QED BY <1>2, <3>1, <3>2, <3>3, <3>4 DEF s, w, n, Follows
  <2>3. \E put \in 0..2 :
          /\ 2 * h + Len(stream) = 2 * CL!Sent + put
          /\ put > 0 => sending # <<>> /\ put = sending[1].put /\ writeMsgs # <<>>
          /\ sending # <<>> => put = sending[1].put
    <3>1. CL!SymbolsPut(2 * h + Len(stream))
      BY <1>1, <1>4 DEF RequestsUnderWay
    <3>2. CASE sending # <<>>
      <4>1. sending[1].put \in 0..2
        <5>1. sending \in Seq(CL!WriteOps) /\ \A i \in 1..Len(sending) : sending[i].put \in 0..2
          BY <1>1, Assumptions, CL!WriteOpTypes
        <5>2. Len(sending) \in Nat /\ Len(sending) # 0
          BY <3>2, <5>1, EmptySeq, LenProperties
        <5>3. 1 \in 1..Len(sending)
          BY <5>2
        <5> QED BY <5>1, <5>3
      <4> QED BY <1>1, <3>1, <3>2, <4>1 DEF CL!SymbolsPut, CL!WriterOK
    <3>3. CASE sending = <<>>
      <4>1. writeMsgs = <<>>
        BY <1>1, <1>4, <3>3 DEF CL!AtWork
      <4>2. 2 * CL!Sent + 0 = 2 * CL!Sent /\ 0 \in 0..2 /\ ~(0 > 0)
        BY <2>2
      <4> QED BY <3>1, <3>3, <4>1, <4>2 DEF CL!SymbolsPut
    <3> QED BY <3>2, <3>3
  <2>4. PICK put \in 0..2 :
          /\ 2 * h + Len(stream) = 2 * CL!Sent + put
          /\ put > 0 => sending # <<>> /\ put = sending[1].put /\ writeMsgs # <<>>
          /\ sending # <<>> => put = sending[1].put
    BY <2>3
  <2> DEFINE rest == Behind(waiting, put)
  <2>5. put > 0 => waiting # <<>> /\ Tail(waiting) = Tail(writeMsgs) \o posted
    <3> HIDE DEF Symbols
    <3> QED BY <2>1, <2>4 DEF CL!Waiting
  <2>6. rest = Unwritten(writeMsgs, sending) \o posted
    BY <2>4, <2>5 DEF Unwritten, CL!Waiting, Behind
  <2>7. Requested = served \o Bodies(stream) \o rest
    <3>1. Carries(stream, Requested, h) /\ Follows(served, Requested, 0)
      <4>1. \A i \in 1..h : 0 + i = i
        OBVIOUS
      <4> QED BY <1>1, <4>1 DEF RequestsUnderWay, Follows
    <3> HIDE DEF Symbols, Requested, stream, waiting
    <3>2. Piped(Requested, served, stream, waiting, CL!Sent, put)
      BY <1>2, <2>1, <2>2, <2>4, <2>5, <3>1 DEF Piped
    <3> QED BY ONLY <3>2, Pipeline
  <2>8. Unwritten(writeMsgs, sending) \in Seq(Symbols) /\ Bodies(stream) \in Seq(Symbols)
    <3>1. Bodies(stream) \in Seq(Symbols)
      BY <1>1, <1>2, BodiesCarried DEF RequestsUnderWay
    <3>2. writeMsgs # <<>> => Tail(writeMsgs) \in Seq(Symbols)
      BY <2>1, HeadTailProperties
    <3>3. sending # <<>> => writeMsgs # <<>>
      BY <1>1 DEF CL!WriterOK
    <3> QED BY <2>1, <3>1, <3>2, <3>3 DEF Unwritten
  <2> DEFINE front == served \o Bodies(stream)
             behind == Unwritten(writeMsgs, sending)
  <2>9. front \in Seq(Symbols) /\ behind \in Seq(Symbols) /\ posted \in Seq(Symbols)
    <3> HIDE DEF Symbols, stream
    <3> QED BY <1>2, <2>1, <2>8
  <2>10. Requested = front \o (behind \o posted)
    BY <2>6, <2>7
  <2> HIDE DEF front, behind
  <2>11. front \o (behind \o posted) = front \o behind \o posted
    BY <2>9, ConcatAssociative
  <2> QED BY <2>10, <2>11 DEF front, behind
<1> QED BY <1>3, <1>4 DEF RequestPipeline

LEMMA RepliesInPipeline ==
  ASSUME RpcInv
  PROVE  ReplyPipeline
<1> DEFINE h == Len(heard)
           stream == readbuf \o s2c
           a == Len(answered)
<1>1. /\ SL!TypeOK /\ TypeOK /\ reset \in BOOLEAN
      /\ SL!AnswersOK /\ SL!WriterOK /\ SL!AtWork /\ RepliesUnderWay
  BY DEF RpcInv, TypeOK, SessionOK
<1>2. /\ heard \in Seq(Symbols) /\ stream \in Seq(Symbols) /\ Replied \in Seq(Symbols)
      /\ Len(Replied) = Len(served) /\ h \in Nat /\ Len(served) \in Nat /\ Replies \subseteq Symbols
  <2>1. heard \in Seq(Replies) /\ Replied \in Seq(Replies) /\ Replies \subseteq Symbols
    BY <1>1, StreamTypes, TextTypes
  <2> HIDE DEF Symbols, Replies, Replied
  <2>2. heard \in Seq(Symbols) /\ Replied \in Seq(Symbols)
    BY <2>1
  <2> QED BY <1>1, <2>1, <2>2, StreamTypes, TextTypes
<1>3. IsPrefix(heard, Replied)
  <2> HIDE DEF Symbols, Replied
  <2> QED BY <1>1, <1>2, AgreesIsPrefix DEF RepliesUnderWay
<1>4. ASSUME socket # "closed", ~reset
      PROVE  Replied = heard \o Bodies(stream) \o Unwritten(msgs, writes)
  <2>1. msgs \in Seq(Symbols) /\ Len(msgs) \in Nat /\ a \in Nat
    <3>1. msgs \in Seq(Replies)
      BY <1>1, Texts DEF SL!TypeOK
    <3> HIDE DEF Symbols, Replies
    <3>2. msgs \in Seq(Symbols)
      BY <1>2, <3>1
    <3> QED BY <1>1, <3>2, Assumptions, SL!QueueTypes
  <2>2. /\ a + Len(msgs) = Len(Replied)
        /\ Follows(msgs, Replied, a)
    <3> DEFINE m == Len(msgs)
               n == Len(served)
    <3>1. m \in Nat /\ n \in Nat /\ a \in Nat /\ a + m = n
      BY <1>1, <1>2, <2>1 DEF SL!AnswersOK
    <3>2. \A i \in 1..m : msgs[i] = SL!Reply(served[a + i])
      BY <1>1 DEF SL!AnswersOK
    <3>3. \A i \in 1..n : SL!Replied[i] = SL!Reply(served[i])
      BY DEF SL!Replied
    <3> HIDE DEF a, m, n
    <3>4. \A i \in 1..m : a + i \in 1..n
      BY <3>1
    <3> QED BY <1>2, <3>1, <3>2, <3>3, <3>4, CallsAndAnswers DEF m, n, Follows
  <2>3. \E put \in 0..2 :
          /\ 2 * h + Len(stream) = 2 * a + put
          /\ put > 0 => writes # <<>> /\ put = writes[1].put /\ msgs # <<>>
          /\ writes # <<>> => put = writes[1].put
    <3>1. SL!SymbolsPut(2 * h + Len(stream))
      BY <1>1, <1>4 DEF RepliesUnderWay
    <3>2. CASE writes # <<>>
      <4>1. writes[1].put \in 0..2
        <5>1. writes \in Seq(SL!WriteOps) /\ \A i \in 1..Len(writes) : writes[i].put \in 0..2
          BY <1>1, Assumptions, SL!QueueTypes
        <5>2. Len(writes) \in Nat /\ Len(writes) # 0
          BY <3>2, <5>1, EmptySeq, LenProperties
        <5>3. 1 \in 1..Len(writes)
          BY <5>2
        <5> QED BY <5>1, <5>3
      <4> QED BY <1>1, <3>1, <3>2, <4>1 DEF SL!SymbolsPut, SL!WriterOK
    <3>3. CASE writes = <<>>
      <4>1. msgs = <<>>
        BY <1>1, <1>4, <3>3, Ends DEF SL!AtWork
      <4>2. 2 * a + 0 = 2 * a /\ 0 \in 0..2 /\ ~(0 > 0)
        BY <2>1
      <4> QED BY <3>1, <3>3, <4>1, <4>2 DEF SL!SymbolsPut
    <3> QED BY <3>2, <3>3
  <2>4. PICK put \in 0..2 :
          /\ 2 * h + Len(stream) = 2 * a + put
          /\ put > 0 => writes # <<>> /\ put = writes[1].put /\ msgs # <<>>
          /\ writes # <<>> => put = writes[1].put
    BY <2>3
  <2> DEFINE rest == Behind(msgs, put)
  <2>5. rest = Unwritten(msgs, writes)
    BY <2>4 DEF Unwritten, Behind
  <2>6. Replied = heard \o Bodies(stream) \o rest
    <3>1. Carries(stream, Replied, h) /\ Follows(heard, Replied, 0)
      <4>1. \A i \in 1..h : 0 + i = i
        OBVIOUS
      <4> QED BY <1>1, <4>1 DEF RepliesUnderWay, Follows
    <3>2. put > 0 => msgs # <<>>
      BY <2>4
    <3> HIDE DEF Symbols, Replied, stream, a
    <3>3. Piped(Replied, heard, stream, msgs, a, put)
      BY <1>2, <2>1, <2>2, <2>4, <3>1, <3>2 DEF Piped
    <3> QED BY ONLY <3>3, Pipeline
  <2> QED BY <2>5, <2>6
<1> QED BY <1>3, <1>4 DEF ReplyPipeline, Replied

\* RequestPipeline: no call is lost, repeated or overtaken on its way from
\* async_call to server::exec while the connection lives.
THEOREM RpcRequestPipeline == Spec => []RequestPipeline
  BY RpcInvariant, RequestsInPipeline, PTL

\* ReplyPipeline: nor is an answer on its way from parse_json to parse_response.
THEOREM RpcReplyPipeline == Spec => []ReplyPipeline
  BY RpcInvariant, RepliesInPipeline, PTL

-----------------------------------------------------------------------------
(* The contract                                                            *)

\* What the promise asks of the application: its calls carry ids of their own,
\* are made before the loop runs or from callbacks, and have callback objects
\* that captured nothing.
Careful ==
    /\ Late = {} /\ Stateful = {}
    /\ \A c, d \in Calls : CallOf[c].id = CallOf[d].id => c = d

CallsDistinct == \A i, j \in 1..Len(issued) : issued[i] = issued[j] => i = j

CallbacksKept == \A i \in 1..Len(issued) : callbackMap[CallOf[issued[i]].id] = issued[i]

\* The callbacks invoked are those of the answerable calls whose answers were heard.
InvokedHeard ==
    /\ \A k \in 1..Len(invoked) : \E i \in 1..Len(heard) : invoked[k].call = issued[i]
    /\ \A i \in 1..Len(heard) : Contract!Answerable(issued[i]) => Contract!Returned(issued[i])

CallsOK == calling = NoCall /\ CallsDistinct /\ CallbacksKept /\ InvokedHeard

LEMMA Bounds ==
  ASSUME RpcInv
  PROVE  /\ issued \in Seq(Calls) /\ Len(issued) \in Nat
         /\ Len(heard) \in Nat /\ Len(served) \in Nat
         /\ Len(heard) <= Len(served) /\ Len(served) <= Len(issued)
         /\ \E S : invoked \in Seq(S)
         /\ \A i \in 1..Len(issued) : issued[i] \in Calls
<1>1. TypeOK /\ RequestsUnderWay /\ RepliesUnderWay /\ CL!TypeOK
  BY DEF RpcInv, TypeOK
<1>2. issued \in Seq(Calls) /\ Len(issued) \in Nat /\ Len(heard) \in Nat /\ Len(served) \in Nat
  BY <1>1, StreamTypes
<1>3. Len(heard) <= Len(served) /\ Len(served) <= Len(issued)
  BY <1>1, TextTypes DEF RequestsUnderWay, RepliesUnderWay
<1>4. \E S : invoked \in Seq(S)
  BY <1>1 DEF CL!TypeOK
<1>5. \A i \in 1..Len(issued) : issued[i] \in Calls
  BY <1>2, ElementOfSeq
<1> QED BY <1>2, <1>3, <1>4, <1>5

\* The text that parse_response is given is the answer to the next call.
LEMMA NextAnswer ==
  ASSUME RpcInv, HasText(readbuf)
  PROVE  /\ Len(heard) + 1 <= Len(served)
         /\ NextText(readbuf) = Reply(Contract!Request(issued[Len(heard) + 1]))
<1> DEFINE h == Len(heard)
<1>1. TypeOK /\ RequestsUnderWay /\ RepliesUnderWay
  BY DEF RpcInv
<1>2. h \in Nat /\ Len(served) \in Nat /\ Len(served) <= Len(issued) /\ Len(issued) \in Nat
  BY Bounds
<1>3. h + 1 <= Len(Replied) /\ NextText(readbuf) = Replied[h + 1]
  BY <1>1, TakesReply
<1>4. h + 1 \in 1..Len(served) /\ h + 1 \in 1..Len(issued)
  <2>1. Len(Replied) = Len(served)
    BY <1>1, TextTypes
  <2> HIDE DEF h, Replied
  <2> QED BY <1>2, <1>3, <2>1
<1>5. Replied[h + 1] = Reply(served[h + 1])
  BY <1>4 DEF Replied
<1>6. served[h + 1] = Requested[h + 1]
  BY <1>1, <1>4 DEF RequestsUnderWay
<1>7. Requested[h + 1] = Contract!Request(issued[h + 1])
  BY <1>4 DEF Requested, Client!RequestOf, Contract!Request
<1> QED BY <1>2, <1>3, <1>4, <1>5, <1>6, <1>7

\* A call that is made joins the others; its entry in m_callback_map replaces none of theirs.
LEMMA Issuing ==
  ASSUME Careful, RpcInv, CallsOK, NEW c \in Calls, Client!AsyncCall(c)
  PROVE  /\ issued' = Append(issued, c) /\ Len(issued') = Len(issued) + 1
         /\ \A i \in 1..Len(issued) : issued'[i] = issued[i]
         /\ c \notin Contract!Range(issued)
         /\ CallsDistinct' /\ CallbacksKept'
<1> DEFINE n == Len(issued)
<1>1. /\ issued \in Seq(Calls) /\ n \in Nat /\ \A i \in 1..n : issued[i] \in Calls
  BY Bounds
<1>2. /\ issued' = Append(issued, c) /\ \A i \in 1..n : issued[i] # c
  BY DEF Client!AsyncCall, Client!Post, Client!Made
<1>3. callbackMap' = [callbackMap EXCEPT ![CallOf[c].id] = c]
  BY DEF Client!AsyncCall, Client!Storing, Client!Stored, CallsOK
<1>4. /\ Len(issued') = n + 1 /\ issued'[n + 1] = c
      /\ \A i \in 1..n : issued'[i] = issued[i]
  BY <1>1, <1>2, AppendProperties
<1>5. callbackMap \in [Ids -> Calls \cup {NoCall}] /\ \A d \in Calls : CallOf[d].id \in Ids
  <2>1. callbackMap \in [Ids -> Calls \cup {NoCall}]
    BY DEF RpcInv, TypeOK, CL!TypeOK
  <2> QED BY <2>1, Assumptions
<1>6. c \notin Contract!Range(issued)
  <2>1. DOMAIN issued = 1..n
    BY <1>1, LenProperties
  <2> QED BY <1>2, <2>1 DEF Contract!Range
<1>7. CallsDistinct'
  <2> SUFFICES ASSUME NEW i \in 1..Len(issued'), NEW j \in 1..Len(issued'), issued'[i] = issued'[j]
               PROVE  i = j
    BY DEF CallsDistinct
  <2> HIDE DEF n
  <2>1. (i \in 1..n \/ i = n + 1) /\ (j \in 1..n \/ j = n + 1)
    BY <1>1, <1>4
  <2>2. \A k, l \in 1..n : issued[k] = issued[l] => k = l
    BY DEF CallsOK, CallsDistinct, n
  <2> QED BY <1>2, <1>4, <2>1, <2>2, Zenon
<1>8. CallbacksKept'
  <2> SUFFICES ASSUME NEW i \in 1..Len(issued')
               PROVE  callbackMap'[CallOf[issued'[i]].id] = issued'[i]
    BY DEF CallbacksKept
  <2>1. \A k \in 1..n : callbackMap[CallOf[issued[k]].id] = issued[k]
    BY DEF CallsOK, CallbacksKept
  <2> HIDE DEF n
  <2>2. i \in 1..n \/ i = n + 1
    BY <1>1, <1>4
  <2>3. CASE i \in 1..n
    <3>1. issued'[i] = issued[i] /\ issued[i] \in Calls /\ issued[i] # c
      BY <1>1, <1>2, <1>4, <2>3
    <3>2. CallOf[issued[i]].id # CallOf[c].id /\ CallOf[issued[i]].id \in Ids
      BY <1>5, <3>1 DEF Careful
    <3> QED BY <1>3, <1>5, <2>1, <2>3, <3>1, <3>2
  <2>4. CASE i = n + 1
    BY <1>3, <1>4, <1>5, <2>4
  <2> QED BY <2>2, <2>3, <2>4
<1> QED BY <1>2, <1>4, <1>6, <1>7, <1>8

CallsUntouched == UNCHANGED <<calling, callbackMap, issued, invoked, heard>>

LEMMA CallsCases ==
  ASSUME Careful, CallsOK, Client!Step
  PROVE  CallsUntouched \/ (\E c \in Calls : Client!Call(c)) \/ Client!OnRead
<1> USE DEF Client!threadVars, Client!callVars, Client!readVars, CallsUntouched
<1>1. ~Client!StoreCallback /\ ~Client!PostCall
  BY DEF Client!StoreCallback, Client!PostCall, Client!Storing, CallsOK
<1>2. ASSUME NEW c, Client!BeginCall(c) PROVE FALSE
  BY <1>2 DEF Client!BeginCall, Careful
<1>3. Client!Run => CallsUntouched
  BY DEF Client!Run
<1>4. Client!Connect => CallsUntouched
  BY DEF Client!Connect, Client!OnConnect, Client!OnConnectError
<1>5. Client!OnPosted => CallsUntouched
  BY DEF Client!OnPosted
<1>6. ASSUME NEW i, Client!Transmit(i) \/ Client!OnWritten(i) \/ Client!OnWriteError(i) PROVE CallsUntouched
  BY <1>6 DEF Client!Transmit, Client!OnWritten, Client!OnWriteError
<1>7. Client!OnReadError => CallsUntouched
  BY DEF Client!OnReadError
<1>8. ASSUME NEW n, Client!Receive(n) PROVE CallsUntouched
  BY <1>8 DEF Client!Receive
<1> QED BY <1>1, <1>2, <1>3, <1>4, <1>5, <1>6, <1>7, <1>8, Zenon
        DEF Client!Step, Client!Application, Client!Write, Client!Read

LEMMA DueNext ==
  ASSUME RpcInv, CallsOK, Len(heard) + 1 <= Len(served),
         Contract!Answerable(issued[Len(heard) + 1])
  PROVE  Contract!Due(Len(heard) + 1)
<1> DEFINE h == Len(heard)
           s == Len(served)
           n == Len(issued)
<1>1. h \in Nat /\ s \in Nat /\ n \in Nat /\ h <= s /\ s <= n
  BY Bounds
<1> SUFFICES ASSUME NEW j \in 1..s, Contract!Answerable(issued[j])
             PROVE  Contract!Returned(issued[j]) <=> j < h + 1
  BY DEF Contract!Due
<1>2. /\ \A k \in 1..Len(invoked) : \E i \in 1..h : invoked[k].call = issued[i]
      /\ \A i \in 1..h : Contract!Answerable(issued[i]) => Contract!Returned(issued[i])
      /\ \A i, k \in 1..n : issued[i] = issued[k] => i = k
  BY DEF CallsOK, InvokedHeard, CallsDistinct
<1> HIDE DEF h, s, n
<1>3. j \in 1..n /\ \A i \in 1..h : i \in 1..n /\ i < h + 1
  BY <1>1
<1>4. ASSUME Contract!Returned(issued[j]) PROVE j < h + 1
  <2>1. PICK k \in 1..Len(invoked) : invoked[k].call = issued[j]
    BY <1>4 DEF Contract!Returned
  <2>2. PICK i \in 1..h : invoked[k].call = issued[i]
    BY <1>2, <2>1
  <2>3. i = j
    BY <1>2, <1>3, <2>1, <2>2
  <2> QED BY <1>3, <2>2, <2>3
<1>5. ASSUME j < h + 1 PROVE Contract!Returned(issued[j])
  <2>1. j \in 1..h
    BY <1>1, <1>5
  <2> QED BY <1>2, <2>1
<1> QED BY <1>4, <1>5

\* The handler of an answer invokes the callback of its call and no other.
LEMMA AnswerHandled ==
  ASSUME Careful, RpcInv, CallsOK, Client!OnRead
  PROVE  LET c == issued[Len(heard) + 1]
         IN  /\ c \in Calls /\ Len(heard) + 1 <= Len(served) /\ Len(heard') = Len(heard) + 1
             /\ calling' = NoCall
             /\ \/ /\ ~Contract!Answerable(c)
                   /\ UNCHANGED <<callbackMap, issued, invoked>>
                \/ /\ Contract!Answerable(c)
                   /\ invoked' = Append(invoked, Contract!Outcome(c))
                   /\ \/ UNCHANGED <<callbackMap, issued>>
                      \/ FollowUp[c] \in Calls /\ Client!AsyncCall(FollowUp[c])
<1> DEFINE h == Len(heard)
           c == issued[h + 1]
           text == NextText(readbuf)
<1>1. Client!NextText(readbuf) = text /\ HasText(readbuf)
  BY DEF Client!OnRead, Client!HasText, Client!NUL, HasText, NUL, NextText, TextLength,
         Client!NextText, Client!TextLength
<1>2. /\ h \in Nat /\ Len(issued) \in Nat /\ Len(served) \in Nat /\ Len(served) <= Len(issued)
      /\ h + 1 <= Len(served) /\ text = Reply(Contract!Request(c))
  BY <1>1, Bounds, NextAnswer
<1>3. h + 1 \in 1..Len(issued) /\ c \in Calls
  <2>1. h + 1 \in 1..Len(issued)
    <3> HIDE DEF h
    <3> QED BY <1>2
  <2> QED BY <2>1, Bounds
<1>4. calling = NoCall /\ ~Client!Storing /\ callbackMap[CallOf[c].id] = c
  BY <1>3 DEF CallsOK, CallbacksKept, Client!Storing
<1>5. Client!ParseResponse(text) /\ calling' = NoCall
  BY <1>1, <1>4 DEF Client!OnRead
<1>6. Len(heard') = h + 1
  <2>1. heard' = Append(heard, text)
    BY <1>5 DEF Client!ParseResponse
  <2>2. \E S : heard \in Seq(S)
    BY DEF RpcInv, TypeOK, CL!TypeOK
  <2> QED BY <2>1, <2>2
<1>7. \A t : Contract!Reply(t) = Reply(t)
  BY DEF Contract!Reply, Reply, Contract!Executes, Executes, Contract!EmptyText, EmptyText,
         Contract!ErrorText, ErrorText
<1>8. PICK d \in Client!Found(text) :
           \/ d \in Calls \ Unfit /\ Client!Invoke(d, text.result)
           \/ d = Garbage
           \/ d \in Unfit \cup {NoCall} /\ UNCHANGED <<callbackMap, posted, issued, invoked>>
  BY <1>5 DEF Client!ParseResponse, Client!callVars
<1>9. text.kind = "response" => text.id = CallOf[c].id
  BY <1>2 DEF Reply, Contract!Request, ErrorText, EmptyText
<1>10. d = Client!Selected(text)
  BY <1>4, <1>8 DEF Client!Found
<1>11. CASE text.kind # "response"
  <2>1. d = NoCall
    BY <1>10, <1>11 DEF Client!Selected
  <2>2. UNCHANGED <<callbackMap, issued, invoked>>
    BY <1>8, <2>1, Assumptions
  <2>3. ~Contract!Answerable(c)
    BY <1>2, <1>7, <1>11 DEF Contract!Answerable
  <2> QED BY <1>2, <1>3, <1>5, <1>6, <2>2, <2>3
<1>12. CASE text.kind = "response"
  <2>1. d = c
    BY <1>4, <1>9, <1>10, <1>12 DEF Client!Selected
  <2>2. d # Garbage /\ d # NoCall
    BY <1>3, <2>1, Assumptions
  <2>3. CASE c \in Unfit
    <3>1. UNCHANGED <<callbackMap, issued, invoked>> /\ ~Contract!Answerable(c)
      BY <1>8, <2>1, <2>2, <2>3 DEF Contract!Answerable
    <3> QED BY <1>2, <1>3, <1>5, <1>6, <3>1
  <2>4. CASE c \notin Unfit
    <3>1. Client!Invoke(c, text.result)
      BY <1>8, <2>1, <2>2, <2>4
    <3>2. Contract!Answerable(c) /\ Contract!Outcome(c) = [call |-> c, error |-> 0, result |-> text.result]
      BY <1>2, <1>7, <1>12, <2>4 DEF Contract!Answerable, Contract!Outcome
    <3>3. /\ invoked' = Append(invoked, [call |-> c, error |-> 0, result |-> text.result])
          /\ \/ FollowUp[c] # NoCall /\ Client!AsyncCall(FollowUp[c])
             \/ UNCHANGED <<callbackMap, issued>>
      <4> HIDE DEF text, c
      <4> QED BY <3>1 DEF Client!Invoke, Careful
    <3>4. FollowUp[c] # NoCall => FollowUp[c] \in Calls
      BY <1>3, Assumptions
    <3> QED BY <1>2, <1>3, <1>5, <1>6, <3>2, <3>3, <3>4
  <2> QED BY <2>3, <2>4
<1> QED BY <1>11, <1>12

ContractStep == Contract!Next \/ UNCHANGED <<issued, Len(served), invoked>>

\* The answers heard are one more, those of the calls before it being as they were.
LEMMA HeardOneMore ==
  ASSUME RpcInv, CallsOK, Len(heard) + 1 <= Len(served), Len(heard') = Len(heard) + 1,
         \A i \in 1..Len(issued) : issued'[i] = issued[i],
         \/ invoked' = invoked /\ ~Contract!Answerable(issued[Len(heard) + 1])
         \/ invoked' = Append(invoked, Contract!Outcome(issued[Len(heard) + 1]))
  PROVE  InvokedHeard'
<1> DEFINE h == Len(heard)
           m == Len(invoked)
           c == issued[h + 1]
           n == Len(issued)
<1>1. PICK S : invoked \in Seq(S)
  BY Bounds
<1>2. h \in Nat /\ m \in Nat /\ n \in Nat /\ h + 1 <= n
  <2>1. m \in Nat
    BY <1>1, LenProperties
  <2>2. h \in Nat /\ Len(served) \in Nat /\ n \in Nat /\ Len(served) <= n
    BY Bounds
  <2> HIDE DEF h, m, n
  <2> QED BY <2>1, <2>2 DEF h
<1>3. /\ \A k \in 1..m : \E i \in 1..h : invoked[k].call = issued[i]
      /\ \A i \in 1..h : Contract!Answerable(issued[i]) => \E k \in 1..m : invoked[k].call = issued[i]
  BY DEF CallsOK, InvokedHeard, Contract!Returned
<1>4. /\ \A i \in 1..h : i \in 1..(h + 1) /\ issued'[i] = issued[i]
      /\ h + 1 \in 1..(h + 1) /\ issued'[h + 1] = c
      /\ \A i \in 1..(h + 1) : i \in 1..h \/ i = h + 1
  <2>1. \A i \in 1..n : issued'[i] = issued[i]
    OBVIOUS
  <2>2. h + 1 \in 1..n /\ \A i \in 1..h : i \in 1..n
    <3> HIDE DEF h, n
    <3> QED BY <1>2
  <2> HIDE DEF n
  <2>3. issued'[h + 1] = issued[h + 1] /\ \A i \in 1..h : issued'[i] = issued[i]
    BY <2>1, <2>2
  <2>4. /\ h + 1 \in 1..(h + 1) /\ \A i \in 1..h : i \in 1..(h + 1)
        /\ \A i \in 1..(h + 1) : i \in 1..h \/ i = h + 1
    <3> HIDE DEF h
    <3> QED BY <1>2
  <2> QED BY <2>3, <2>4
<1>5. CASE invoked' = invoked /\ ~Contract!Answerable(c)
  <2>1. \A k \in 1..m : \E i \in 1..(h + 1) : invoked[k].call = issued'[i]
    <3> TAKE k \in 1..m
    <3>1. PICK i \in 1..h : invoked[k].call = issued[i]
      BY <1>3
    <3>2. i \in 1..(h + 1) /\ issued'[i] = issued[i]
      BY <1>4
    <3> QED BY <3>1, <3>2
  <2>2. \A i \in 1..(h + 1) : Contract!Answerable(issued'[i]) => \E k \in 1..m : invoked[k].call = issued'[i]
    <3> TAKE i \in 1..(h + 1)
    <3>1. CASE i \in 1..h
      <4> HIDE DEF h, m, c
      <4> QED BY <1>3, <1>4, <3>1
    <3>2. CASE i = h + 1
      <4> HIDE DEF h, m, c
      <4> QED BY <1>4, <1>5, <3>2
    <3> QED BY <1>4, <3>1, <3>2
  <2> QED BY <1>5, <2>1, <2>2 DEF InvokedHeard, Contract!Returned
<1>6. CASE invoked' = Append(invoked, Contract!Outcome(c))
  <2>1. /\ Len(invoked') = m + 1 /\ invoked'[m + 1] = Contract!Outcome(c)
        /\ \A k \in 1..m : invoked'[k] = invoked[k]
    <3> HIDE DEF c
    <3> QED BY <1>1, <1>6
  <2>2. invoked'[m + 1].call = c
    BY <2>1 DEF Contract!Outcome
  <2>3. /\ \A k \in 1..m : k \in 1..(m + 1)
        /\ m + 1 \in 1..(m + 1)
        /\ \A k \in 1..(m + 1) : k \in 1..m \/ k = m + 1
    <3> HIDE DEF m
    <3> QED BY <1>2
  <2>4. \A k \in 1..(m + 1) : \E i \in 1..(h + 1) : invoked'[k].call = issued'[i]
    <3> TAKE k \in 1..(m + 1)
    <3>1. CASE k \in 1..m
      <4>1. PICK i \in 1..h : invoked[k].call = issued[i]
        BY <1>3, <3>1
      <4>2. i \in 1..(h + 1) /\ issued'[i] = issued[i] /\ invoked'[k] = invoked[k]
        BY <1>4, <2>1, <3>1
      <4> QED BY <4>1, <4>2
    <3>2. CASE k = m + 1
      BY <1>4, <2>2, <3>2
    <3> QED BY <2>3, <3>1, <3>2
  <2>5. \A i \in 1..(h + 1) : Contract!Answerable(issued'[i]) => \E k \in 1..(m + 1) : invoked'[k].call = issued'[i]
    <3> TAKE i \in 1..(h + 1)
    <3>1. CASE i \in 1..h
      <4> SUFFICES ASSUME Contract!Answerable(issued[i])
                   PROVE  \E k \in 1..(m + 1) : invoked'[k].call = issued[i]
        BY <1>4, <3>1
      <4>1. PICK k \in 1..m : invoked[k].call = issued[i]
        BY <1>3, <3>1
      <4>2. k \in 1..(m + 1) /\ invoked'[k] = invoked[k]
        BY <2>1, <2>3
      <4> QED BY <4>1, <4>2
    <3>2. CASE i = h + 1
      BY <1>4, <2>2, <2>3, <3>2
    <3> QED BY <1>4, <3>1, <3>2
  <2> QED BY <2>1, <2>4, <2>5 DEF InvokedHeard, Contract!Returned
<1> QED BY <1>5, <1>6

LEMMA ReadMeetsContract ==
  ASSUME Careful, RpcInv, CallsOK, Client!OnRead, UNCHANGED served
  PROVE  CallsOK' /\ ContractStep
<1> DEFINE h == Len(heard)
           c == issued[h + 1]
           Answered == invoked' = Append(invoked, Contract!Outcome(c))
<1>1. /\ c \in Calls /\ h + 1 <= Len(served) /\ Len(heard') = h + 1 /\ calling' = NoCall
      /\ \/ /\ ~Contract!Answerable(c)
            /\ UNCHANGED <<callbackMap, issued, invoked>>
         \/ /\ Contract!Answerable(c)
            /\ Answered
            /\ \/ UNCHANGED <<callbackMap, issued>>
               \/ FollowUp[c] \in Calls /\ Client!AsyncCall(FollowUp[c])
  BY AnswerHandled
<1>2. CallsDistinct /\ CallbacksKept
  BY DEF CallsOK
<1>3. h + 1 \in 1..Len(served)
  <2>1. h \in Nat /\ Len(served) \in Nat
    BY Bounds
  <2> HIDE DEF h
  <2> QED BY <1>1, <2>1
<1>4. CASE ~Contract!Answerable(c) /\ UNCHANGED <<callbackMap, issued, invoked>>
  <2>1. InvokedHeard'
    BY <1>1, <1>4, HeardOneMore
  <2>2. CallsDistinct' /\ CallbacksKept'
    BY <1>2, <1>4 DEF CallsDistinct, CallbacksKept
  <2> QED BY <1>1, <1>4, <2>1, <2>2 DEF CallsOK, ContractStep
<1>5. CASE Contract!Answerable(c) /\ Answered /\ UNCHANGED <<callbackMap, issued>>
  <2>1. InvokedHeard'
    BY <1>1, <1>5, HeardOneMore
  <2>2. CallsDistinct' /\ CallbacksKept'
    BY <1>2, <1>5 DEF CallsDistinct, CallbacksKept
  <2>3. Contract!Due(h + 1)
    BY <1>1, <1>5, DueNext
  <2>4. Contract!Return
    <3> HIDE DEF h
    <3> QED BY <1>3, <1>5, <2>3 DEF Contract!Return
  <2> QED BY <1>1, <2>1, <2>2, <2>4 DEF CallsOK, ContractStep, Contract!Next
<1>6. CASE Contract!Answerable(c) /\ Answered /\ FollowUp[c] \in Calls /\ Client!AsyncCall(FollowUp[c])
  <2>1. /\ issued' = Append(issued, FollowUp[c])
        /\ \A i \in 1..Len(issued) : issued'[i] = issued[i]
        /\ FollowUp[c] \notin Contract!Range(issued)
        /\ CallsDistinct' /\ CallbacksKept'
    <3> HIDE DEF c
    <3> QED BY <1>6, Issuing
  <2>2. InvokedHeard'
    BY <1>1, <1>6, <2>1, HeardOneMore
  <2>3. Contract!Due(h + 1)
    BY <1>1, <1>6, DueNext
  <2>4. Contract!Return
    <3> HIDE DEF h
    <3> QED BY <1>3, <1>6, <2>1, <2>3 DEF Contract!Return
  <2> QED BY <1>1, <2>1, <2>2, <2>4 DEF CallsOK, ContractStep, Contract!Next
<1> QED BY <1>1, <1>4, <1>5, <1>6

LEMMA CallMeetsContract ==
  ASSUME Careful, RpcInv, CallsOK, NEW c \in Calls, Client!Call(c), UNCHANGED served
  PROVE  CallsOK' /\ ContractStep
<1>1. Client!AsyncCall(c) /\ UNCHANGED <<calling, invoked, heard>>
  BY DEF Client!Call, Client!threadVars, Client!readVars
<1>2. /\ issued' = Append(issued, c)
      /\ \A i \in 1..Len(issued) : issued'[i] = issued[i]
      /\ c \notin Contract!Range(issued)
      /\ CallsDistinct' /\ CallbacksKept'
  BY <1>1, Issuing
<1>3. \A i \in 1..Len(heard) : issued'[i] = issued[i]
  <2>1. /\ Len(heard) \in Nat /\ Len(served) \in Nat /\ Len(issued) \in Nat
        /\ Len(heard) <= Len(served) /\ Len(served) <= Len(issued)
    BY Bounds
  <2>2. \A i \in 1..Len(heard) : i \in 1..Len(issued)
    BY <2>1
  <2> QED BY <1>2, <2>2
<1>4. InvokedHeard'
  <2>1. InvokedHeard
    BY DEF CallsOK
  <2> QED BY <1>1, <1>3, <2>1 DEF InvokedHeard, Contract!Returned
<1>5. Contract!Issue
  BY <1>1, <1>2 DEF Contract!Issue
<1> QED BY <1>1, <1>2, <1>4, <1>5 DEF CallsOK, ContractStep, Contract!Next

LEMMA ServeMeetsContract ==
  ASSUME RpcInv, CallsOK, Session!Step, UNCHANGED clientVars
  PROVE  CallsOK' /\ ContractStep
<1>1. UNCHANGED <<calling, callbackMap, issued, invoked, heard>>
  BY DEF clientVars
<1>2. CallsOK'
  BY <1>1 DEF CallsOK, CallsDistinct, CallbacksKept, InvokedHeard, Contract!Returned
<1>3. CASE Session!OnRead
  <2>1. HasText(streambuf)
    BY <1>3 DEF Session!OnRead, Session!HasText, Session!NUL, HasText, NUL
  <2>2. Len(served') = Len(served) + 1
    <3>1. \E text : served' = Append(served, text)
      BY <1>3 DEF Session!OnRead, Session!ParseJson
    <3>2. \E S : served \in Seq(S)
      BY DEF RpcInv, TypeOK, SL!TypeOK
    <3> QED BY <3>1, <3>2
  <2>3. Len(served) < Len(issued)
    <3>1. TypeOK /\ RequestsUnderWay
      BY DEF RpcInv
    <3>2. Len(served) + 1 <= Len(issued)
      BY <2>1, <3>1, TakesRequest, TextTypes
    <3>3. Len(served) \in Nat /\ Len(issued) \in Nat
      BY Bounds
    <3> QED BY <3>2, <3>3
  <2> QED BY <1>1, <1>2, <2>2, <2>3 DEF Contract!Take, Contract!Next, ContractStep
<1>4. CASE UNCHANGED served
  BY <1>1, <1>2, <1>4 DEF ContractStep
<1>5. Session!OnRead \/ UNCHANGED served
  BY DEF Session!Step, Session!Start, Session!Read, Session!OnReadError, Session!Receive,
         Session!Write, Session!Transmit, Session!OnWritten, Session!OnWriteError
<1> QED BY <1>3, <1>4, <1>5

LEMMA StepMeetsContract ==
  ASSUME Careful, RpcInv, CallsOK, [Next]_vars
  PROVE  CallsOK' /\ ContractStep
<1>1. CASE ClientStep
  <2>1. Client!Step /\ UNCHANGED served
    BY <1>1 DEF ClientStep, sessionVars
  <2>2. CASE CallsUntouched
    BY <2>1, <2>2
    DEF CallsUntouched, CallsOK, CallsDistinct, CallbacksKept, InvokedHeard, Contract!Returned, ContractStep
  <2> QED BY <2>1, <2>2, CallsCases, CallMeetsContract, ReadMeetsContract
<1>2. CASE SessionStep
  BY <1>2, ServeMeetsContract DEF SessionStep
<1>3. CASE Break \/ UNCHANGED vars
  <2>1. UNCHANGED <<calling, callbackMap, issued, invoked, heard, served>>
    BY <1>3 DEF Break, vars, clientVars, sessionVars
  <2> QED BY <2>1 DEF CallsOK, CallsDistinct, CallbacksKept, InvokedHeard, Contract!Returned, ContractStep
<1> QED BY <1>1, <1>2, <1>3 DEF Next

\* CallsKeepContract: the calls of a careful application are taken in the order
\* they were made, and their callbacks invoked in that order, once each and each
\* with the result of its own call.
THEOREM RpcKeepsContract ==
  ASSUME Careful
  PROVE  Spec => CallsKeepContract
<1>1. Init => CallsOK /\ Contract!Init
  BY DEF Init, Client!Init, Session!Init, CallsOK, CallsDistinct, CallbacksKept, InvokedHeard, Contract!Init
<1>2. RpcInv /\ CallsOK /\ [Next]_vars => CallsOK' /\ [Contract!Next]_<<issued, Len(served), invoked>>
  BY StepMeetsContract DEF ContractStep
<1> QED BY <1>1, <1>2, RpcInvariant, PTL DEF Spec, CallsKeepContract, Contract!Spec
=============================================================================
