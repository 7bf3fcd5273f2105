---------------------------- MODULE ClientProofs ----------------------------
(***************************************************************************)
(* What ClientPeer's safety properties rest on, for every set of calls,    *)
(* whatever their ids, their callbacks and the threads they come from,     *)
(* every number of endpoints, every size of the send buffer and every      *)
(* server.                                                                 *)
(***************************************************************************)
EXTENDS ClientPeer, ClientLemmas, FiniteSetTheorems

\* The stream to the server carries the calls made; while the connection is not
\* reset it ends where the message being written does.
RequestsUnderWay ==
    /\ Carries(received \o toServer, Requested, 0)
    /\ serverEnd # "reset" => SymbolsPut(Len(received \o toServer))

\* What is on its way from the server continues what was heard: the texts
\* offered, and once the server has shut its side down perhaps the first part of
\* one more.
RepliesUnderWay ==
    \E sent \in Seq(Replies) :
        /\ Len(offered) <= Len(sent)
        /\ \A i \in 1..Len(offered) : sent[i] = offered[i]
        /\ Carries(readbuf \o fromServer, sent, Len(heard))
        /\ Len(readbuf \o fromServer) <= 2 * (Len(offered) - Len(heard)) + 1
        /\ serverEnd = "open" =>
             /\ sent = offered
             /\ Len(readbuf \o fromServer) = 2 * (Len(offered) - Len(heard))

HeardOK ==
    /\ Len(heard) <= Len(offered)
    /\ \A i \in 1..Len(heard) : heard[i] = offered[i]

\* An id selects a call that was made with it.
MapOK ==
    \A id \in Ids : callbackMap[id] # NoCall => CallOf[callbackMap[id]].id = id

\* A text is the response a callback was invoked for.
Answers(text, invocation) ==
    /\ text.kind = "response"
    /\ text.id = CallOf[invocation.call].id
    /\ text.result = invocation.result

\* Nothing is said of what takes the place of a callback that has captured something.
Excused(invocation) == invocation.call = Garbage /\ Stateful # {}

\* Each callback invoked has a response of its own.
ResponseOfItsOwn ==
    ~raced => \E f \in Injection(1..Len(invoked), 1..Len(heard)) :
        \A i \in 1..Len(invoked) :
            Excused(invoked[i]) \/ Answers(heard[f[i]], invoked[i])

PeerInv ==
    /\ PeerTypeOK
    /\ QueueOK
    /\ WriterOK
    /\ RequestsUnderWay
    /\ HeardOK
    /\ RepliesUnderWay
    /\ MapOK
    /\ ResponseOfItsOwn

-----------------------------------------------------------------------------
LEMMA StreamTypes ==
  ASSUME PeerTypeOK
  PROVE  /\ readbuf \in Seq(Symbols) /\ fromServer \in Seq(Symbols)
         /\ received \in Seq(Symbols) /\ toServer \in Seq(Symbols)
         /\ readbuf \o fromServer \in Seq(Symbols) /\ Len(readbuf \o fromServer) \in Nat
         /\ received \o toServer \in Seq(Symbols) /\ Len(received \o toServer) \in Nat
         /\ offered \in Seq(Replies) /\ heard \in Seq(Replies)
         /\ Len(offered) \in Nat /\ Len(heard) \in Nat
<1>1. /\ readbuf \in Seq(Symbols) /\ fromServer \in Seq(Symbols)
      /\ received \in Seq(Symbols) /\ toServer \in Seq(Symbols)
      /\ offered \in Seq(Replies) /\ heard \in Seq(Replies)
  BY DEF PeerTypeOK, TypeOK
<1> HIDE DEF Symbols, Replies
<1> QED BY <1>1

LEMMA RepliesAreSymbols == Replies \subseteq Symbols /\ NUL \notin Replies
  BY NulIsNoText DEF Symbols

LEMMA EncodeType ==
  ASSUME NEW text \in Replies
  PROVE  Encode(text) \in Seq(Symbols) /\ <<text>> \in Seq(Symbols)
  BY RepliesAreSymbols DEF Encode, Symbols

\* What the server adds comes behind what is on its way.
LEMMA Joined ==
  ASSUME PeerTypeOK, NEW more \in Seq(Symbols)
  PROVE  readbuf \o (fromServer \o more) = (readbuf \o fromServer) \o more
<1>1. readbuf \in Seq(Symbols) /\ fromServer \in Seq(Symbols)
  BY StreamTypes
<1> HIDE DEF Symbols
<1> QED BY <1>1, ConcatAssociative

\* The text a read handler takes is the next of those the server has sent.
LEMMA HearsNext ==
  ASSUME PeerTypeOK, HeardOK, RepliesUnderWay, HasText(readbuf)
  PROVE  /\ NextText(readbuf) \in Replies /\ AfterText(readbuf) \in Seq(Symbols)
         /\ Len(heard) + 1 <= Len(offered)
         /\ NextText(readbuf) = offered[Len(heard) + 1]
         /\ \E sent \in Seq(Replies) :
              /\ Len(offered) <= Len(sent)
              /\ \A i \in 1..Len(offered) : sent[i] = offered[i]
              /\ Carries(AfterText(readbuf) \o fromServer, sent, Len(heard) + 1)
              /\ Len(AfterText(readbuf) \o fromServer) <= 2 * (Len(offered) - (Len(heard) + 1)) + 1
              /\ serverEnd = "open" =>
                   /\ sent = offered
                   /\ Len(AfterText(readbuf) \o fromServer) = 2 * (Len(offered) - (Len(heard) + 1))
<1> DEFINE h == Len(heard)
           o == Len(offered)
           n == Len(readbuf \o fromServer)
           after == AfterText(readbuf) \o fromServer
           m == Len(after)
<1>1. PICK sent \in Seq(Replies) :
        /\ o <= Len(sent)
        /\ \A i \in 1..o : sent[i] = offered[i]
        /\ Carries(readbuf \o fromServer, sent, h)
        /\ n <= 2 * (o - h) + 1
        /\ serverEnd = "open" => sent = offered /\ n = 2 * (o - h)
  BY DEF RepliesUnderWay
<1>2. h \in Nat /\ o \in Nat /\ n \in Nat /\ h <= o
  BY StreamTypes DEF HeardOK
<1>3. /\ h + 1 <= Len(sent)
      /\ NextText(readbuf) = sent[h + 1] /\ sent[h + 1] \in Replies
      /\ AfterText(readbuf) \in Seq(Symbols)
      /\ after \in Seq(Symbols)
      /\ m + 2 = n
      /\ Carries(after, sent, h + 1)
  <2>1. readbuf \in Seq(Symbols) /\ fromServer \in Seq(Symbols)
    BY StreamTypes
  <2> HIDE DEF h
  <2> QED BY <1>1, <1>2, <2>1, RepliesAreSymbols, CarriesTake
<1>4. m \in Nat
  BY <1>3
<1> HIDE DEF h, o, n, m, after
<1>5. h + 1 <= o /\ m <= 2 * (o - (h + 1)) + 1 /\ (n = 2 * (o - h) => m = 2 * (o - (h + 1)))
  BY <1>1, <1>2, <1>3, <1>4
<1>6. sent[h + 1] = offered[h + 1]
  BY <1>1, <1>2, <1>5
<1> QED BY <1>1, <1>3, <1>5, <1>6 DEF h, o, n, m, after

-----------------------------------------------------------------------------
LEMMA TypeStep ==
  ASSUME PeerInv, [Next]_vars
  PROVE  PeerTypeOK'
<1>1. PeerTypeOK /\ HeardOK /\ RepliesUnderWay /\ TypeOK
  BY DEF PeerInv, PeerTypeOK
<1>2. CASE Step /\ UNCHANGED <<serverEnd, offered, received>>
  <2>1. OnRead => NextText(readbuf) \in Replies /\ AfterText(readbuf) \in Seq(Symbols)
    BY <1>1, HearsNext DEF OnRead
  <2>2. serverEnd' \in {"open", "fin", "reset"}
    BY <1>1, <1>2 DEF TypeOK
  <2>3. TypeOK'
    BY <1>1, <1>2, <2>1, <2>2, StepTypes
  <2> QED BY <1>1, <1>2, <2>3 DEF PeerTypeOK
<1>3. ASSUME UNCHANGED ownVars,
             fromServer' \in Seq(Symbols), toServer' \in Seq(Symbols),
             serverEnd' \in {"open", "fin", "reset"},
             offered' \in Seq(Replies), received' \in Seq(Symbols)
      PROVE  PeerTypeOK'
  BY <1>1, <1>3 DEF PeerTypeOK, TypeOK, ownVars, threadVars, callVars, writeVars, readVars
<1>4. /\ fromServer \in Seq(Symbols) /\ toServer \in Seq(Symbols)
      /\ serverEnd \in {"open", "fin", "reset"}
      /\ offered \in Seq(Replies) /\ received \in Seq(Symbols)
  BY <1>1, StreamTypes DEF TypeOK
<1> HIDE DEF Replies, Symbols
<1>5. ASSUME NEW text \in Replies, ServerSend(text)
      PROVE  PeerTypeOK'
  <2>1. Encode(text) \in Seq(Symbols)
    BY RepliesAreSymbols DEF Encode, Symbols
  <2>2. fromServer' \in Seq(Symbols) /\ offered' \in Seq(Replies)
    BY <1>4, <1>5, <2>1 DEF ServerSend
  <2> QED BY <1>3, <1>4, <1>5, <2>2 DEF ServerSend
<1>6. ASSUME NEW fragment \in {<<>>} \cup {<<text>> : text \in Replies}, ServerFin(fragment)
      PROVE  PeerTypeOK'
  <2>1. fragment \in Seq(Symbols)
    <3>1. \A text \in Replies : <<text>> \in Seq(Symbols)
      BY RepliesAreSymbols
    <3>2. <<>> \in Seq(Symbols)
      OBVIOUS
    <3> QED BY <3>1, <3>2
  <2>2. fromServer' \in Seq(Symbols)
    BY <1>4, <1>6, <2>1 DEF ServerFin
  <2> QED BY <1>3, <1>4, <1>6, <2>2 DEF ServerFin
<1>7. CASE ServerReset
  <2>1. <<>> \in Seq(Symbols)
    OBVIOUS
  <2> QED BY <1>3, <1>4, <1>7, <2>1 DEF ServerReset
<1>8. CASE ServerRead
  <2>1. received' \in Seq(Symbols) /\ toServer' \in Seq(Symbols)
    BY <1>4, <1>8, HeadTailProperties, AppendProperties DEF ServerRead
  <2> QED BY <1>3, <1>4, <1>8, <2>1 DEF ServerRead
<1>9. CASE UNCHANGED vars
  BY <1>3, <1>4, <1>9 DEF vars
<1> QED BY <1>2, <1>5, <1>6, <1>7, <1>8, <1>9 DEF Next, Server

\* Every step of the client is one that the lemmas about writing speak of, and
\* one of the server's leaves the client alone.
LEMMA WriteSteps ==
  ASSUME PeerInv, Step
  PROVE  WriteStep
<1>1. PeerTypeOK /\ HeardOK /\ RepliesUnderWay /\ TypeOK
  BY DEF PeerInv, PeerTypeOK
<1>2. OnRead => NextText(readbuf) \in Replies
  BY <1>1, HearsNext DEF OnRead
<1> QED BY <1>1, <1>2, WriteCases

LEMMA RequestStep ==
  ASSUME PeerInv, PeerTypeOK', [Next]_vars
  PROVE  QueueOK' /\ WriterOK' /\ RequestsUnderWay'
<1> DEFINE stream == received \o toServer
<1>1. /\ TypeOK /\ TypeOK' /\ QueueOK /\ WriterOK
      /\ Carries(stream, Requested, 0)
      /\ serverEnd # "reset" => SymbolsPut(Len(stream))
      /\ received \in Seq(Symbols) /\ toServer \in Seq(Symbols) /\ Len(stream) \in Nat
  BY StreamTypes DEF PeerInv, PeerTypeOK, RequestsUnderWay
<1>2. CASE Step /\ UNCHANGED <<serverEnd, offered, received>>
  <2>1. WriteStep
    BY <1>2, WriteSteps
  <2>2. QueueOK' /\ WriterOK'
    BY <1>1, <2>1, QueueStep, WriterStep
  <2>3. 2 * 0 + Len(stream) = Len(stream) /\ 0 \in Nat
    BY <1>1
  <2>4. /\ Carries(received \o toServer', Requested', 0)
        /\ \E m \in Nat : /\ m = 2 * 0 + Len(received \o toServer')
                          /\ serverEnd # "reset" => SymbolsPut(m)'
    BY <1>1, <2>1, <2>3, RequestsCarried
  <2>5. PICK m \in Nat : m = 2 * 0 + Len(received \o toServer') /\ (serverEnd # "reset" => SymbolsPut(m)')
    BY <2>4
  <2>6. m = Len(stream')
    <3>1. toServer' \in Seq(Symbols)
      BY <1>1 DEF TypeOK
    <3>2. Len(received \o toServer') \in Nat
      BY <1>1, <3>1
    <3>3. stream' = received \o toServer'
      BY <1>2
    <3> QED BY <2>5, <3>2, <3>3
  <2>7. serverEnd' # "reset" => SymbolsPut(Len(stream))'
    BY <1>2, <2>5, <2>6 DEF SymbolsPut
  <2> QED BY <1>2, <2>2, <2>4, <2>7 DEF RequestsUnderWay
<1>3. ASSUME UNCHANGED ownVars, stream' = stream, serverEnd' # "reset" => serverEnd # "reset"
      PROVE  QueueOK' /\ WriterOK' /\ RequestsUnderWay'
  <2>1. UNCHANGED <<issued, posted, writeMsgs, sending>>
    BY <1>3 DEF ownVars, callVars, writeVars
  <2> QED BY <1>1, <1>3, <2>1
      DEF QueueOK, WriterOK, RequestsUnderWay, Requested, SymbolsPut, Sent, Waiting
<1>4. CASE Server \/ UNCHANGED vars
  <2>1. UNCHANGED ownVars /\ (serverEnd' # "reset" => serverEnd # "reset")
    BY <1>4 DEF Server, ServerSend, ServerFin, ServerReset, ServerRead, vars
  <2>2. stream' = stream
    <3>1. CASE ServerRead
      <4> HIDE DEF Symbols
      <4> QED BY <1>1, <3>1 DEF ServerRead
    <3>2. CASE ~ServerRead
      BY <1>4, <3>2 DEF Server, ServerSend, ServerFin, ServerReset, vars
    <3> QED BY <3>1, <3>2
  <2> QED BY <1>3, <2>1, <2>2
<1> QED BY <1>2, <1>4 DEF Next

-----------------------------------------------------------------------------
LEMMA ReplyStep ==
  ASSUME PeerInv, PeerTypeOK', [Next]_vars
  PROVE  HeardOK' /\ RepliesUnderWay'
<1> DEFINE stream == readbuf \o fromServer
           h == Len(heard)
           o == Len(offered)
<1>1. PeerTypeOK /\ HeardOK /\ RepliesUnderWay /\ TypeOK
  BY DEF PeerInv, PeerTypeOK
<1>2. /\ h \in Nat /\ o \in Nat /\ h <= o
      /\ \A i \in 1..h : heard[i] = offered[i]
      /\ stream \in Seq(Symbols) /\ Len(stream) \in Nat
      /\ offered \in Seq(Replies) /\ heard \in Seq(Replies)
  BY <1>1, StreamTypes DEF HeardOK
<1>3. PICK sent \in Seq(Replies) :
        /\ o <= Len(sent)
        /\ \A i \in 1..o : sent[i] = offered[i]
        /\ Carries(stream, sent, h)
        /\ Len(stream) <= 2 * (o - h) + 1
        /\ serverEnd = "open" => sent = offered /\ Len(stream) = 2 * (o - h)
  BY <1>1 DEF RepliesUnderWay
<1>4. ASSUME HasText(readbuf), heard' = Append(heard, NextText(readbuf)),
             readbuf' = AfterText(readbuf), UNCHANGED <<fromServer, offered, serverEnd>>
      PROVE  HeardOK' /\ RepliesUnderWay'
  <2>1. /\ NextText(readbuf) \in Replies
        /\ h + 1 <= o /\ NextText(readbuf) = offered[h + 1]
        /\ \E s \in Seq(Replies) :
             /\ o <= Len(s)
             /\ \A i \in 1..o : s[i] = offered[i]
             /\ Carries(readbuf' \o fromServer, s, h + 1)
             /\ Len(readbuf' \o fromServer) <= 2 * (o - (h + 1)) + 1
             /\ serverEnd = "open" =>
                  s = offered /\ Len(readbuf' \o fromServer) = 2 * (o - (h + 1))
    BY <1>1, <1>4, HearsNext
  <2>2. /\ Len(heard') = h + 1 /\ heard'[h + 1] = NextText(readbuf)
        /\ \A i \in 1..h : heard'[i] = heard[i]
    <3> HIDE DEF Replies
    <3> QED BY <1>2, <1>4, <2>1
  <2>3. HeardOK'
    <3>1. \A i : i \in 1..(h + 1) => i \in 1..h \/ i = h + 1
      BY <1>2
    <3> HIDE DEF h
    <3> QED BY <1>2, <1>4, <2>1, <2>2, <3>1 DEF HeardOK
  <2>4. RepliesUnderWay'
    BY <1>4, <2>1, <2>2 DEF RepliesUnderWay
  <2> QED BY <2>3, <2>4
<1>5. ASSUME UNCHANGED <<heard, offered, serverEnd>>, stream' = stream
      PROVE  HeardOK' /\ RepliesUnderWay'
  BY <1>1, <1>5 DEF HeardOK, RepliesUnderWay
<1>6. CASE Step /\ UNCHANGED <<serverEnd, offered, received>>
  BY <1>1, <1>4, <1>5, <1>6, ReadStep
<1>7. ASSUME UNCHANGED ownVars PROVE UNCHANGED <<heard, readbuf>>
  BY <1>7 DEF ownVars, readVars
<1>8. ASSUME NEW text \in Replies, serverEnd = "open"
      PROVE  /\ o <= Len(sent) /\ sent = offered
             /\ Len(Append(sent, text)) = o + 1
             /\ \A i \in 1..o : Append(sent, text)[i] = offered[i]
             /\ Append(sent, text) \in Seq(Replies)
             /\ Len(stream \o <<text>>) = 2 * (o - h) + 1
             /\ Carries(stream \o <<text>>, Append(sent, text), h)
             /\ Len(stream \o Encode(text)) = 2 * (o + 1 - h)
             /\ Carries(stream \o Encode(text), Append(sent, text), h)
  <2>1. sent = offered /\ Len(stream) = 2 * (o - h) /\ o <= Len(sent)
    BY <1>3, <1>8
  <2> HIDE DEF Replies, stream, h
  <2>2. /\ Len(Append(sent, text)) = o + 1 /\ Append(sent, text) \in Seq(Replies)
        /\ \A i \in 1..o : Append(sent, text)[i] = offered[i]
    BY <1>2, <2>1
  <2>3. /\ Len(stream \o <<text>>) = 2 * (Len(sent) - h) + 1
        /\ Carries(stream \o <<text>>, Append(sent, text), h)
        /\ Len(stream \o Encode(text)) = 2 * (Len(sent) + 1 - h)
        /\ Carries(stream \o Encode(text), Append(sent, text), h)
    <3>1. h \in Nat /\ h <= Len(sent) /\ Len(stream) = 2 * (Len(sent) - h)
      BY <1>2, <2>1
    <3>2. stream \in Seq(Symbols) /\ Carries(stream, sent, h)
      BY <1>2, <1>3
    <3> HIDE DEF o
    <3> QED BY <3>1, <3>2, RepliesAreSymbols, CarriesSent, SMTT(30)
  <2> QED BY <2>1, <2>2, <2>3
<1>9. ASSUME NEW text \in Replies, ServerSend(text)
      PROVE  HeardOK' /\ RepliesUnderWay'
  <2>1. /\ serverEnd = "open" /\ UNCHANGED serverEnd
        /\ offered' = Append(offered, text) /\ fromServer' = fromServer \o Encode(text)
        /\ UNCHANGED <<heard, readbuf>>
    BY <1>7, <1>9 DEF ServerSend
  <2>2. stream' = stream \o Encode(text)
    BY <1>1, <2>1, Joined, EncodeType
  <2>3. offered' = Append(sent, text) /\ Len(offered') = o + 1
    BY <1>8, <2>1
  <2>4. /\ Append(sent, text) \in Seq(Replies)
        /\ \A i \in 1..o : offered'[i] = offered[i]
        /\ Len(stream') = 2 * (o + 1 - h)
        /\ Carries(stream', Append(sent, text), h)
    BY <1>8, <2>1, <2>2, <2>3
  <2> DEFINE m == Len(stream')
  <2>5. m = 2 * (Len(offered') - h)
    BY <2>3, <2>4
  <2>6. m <= 2 * (Len(offered') - h) + 1 /\ h <= Len(offered')
    <3> HIDE DEF m, h, o
    <3> QED BY <1>2, <2>3, <2>5
  <2>7. RepliesUnderWay'
    <3>1. Len(heard') = h
      BY <2>1
    <3>2. Len(offered') <= Len(offered')
      BY <1>2, <2>3
    <3> HIDE DEF h, o
    <3> QED BY <2>1, <2>3, <2>4, <2>5, <2>6, <3>1, <3>2 DEF RepliesUnderWay
  <2>8. HeardOK'
    <3>1. \A i \in 1..h : i \in 1..o
      BY <1>2
    <3> QED BY <1>2, <2>1, <2>4, <2>6, <3>1 DEF HeardOK
  <2> QED BY <2>7, <2>8
<1>10. ASSUME NEW fragment \in {<<>>} \cup {<<text>> : text \in Replies}, ServerFin(fragment)
       PROVE  HeardOK' /\ RepliesUnderWay'
  <2>1. /\ serverEnd = "open" /\ serverEnd' = "fin"
        /\ UNCHANGED offered /\ fromServer' = fromServer \o fragment
        /\ UNCHANGED <<heard, readbuf>>
    BY <1>7, <1>10 DEF ServerFin
  <2>2. CASE fragment = <<>>
    <3>1. stream' = stream
      BY <1>1, <2>1, <2>2, StreamTypes, ConcatEmptySeq
    <3> QED BY <1>1, <2>1, <3>1 DEF HeardOK, RepliesUnderWay
  <2>3. ASSUME NEW text \in Replies, fragment = <<text>>
        PROVE  HeardOK' /\ RepliesUnderWay'
    <3>1. stream' = stream \o <<text>>
      BY <1>1, <2>1, <2>3, Joined, EncodeType
    <3>2. /\ Append(sent, text) \in Seq(Replies)
          /\ Len(Append(sent, text)) = o + 1
          /\ \A i \in 1..o : Append(sent, text)[i] = offered[i]
          /\ Len(stream') = 2 * (o - h) + 1
          /\ Carries(stream', Append(sent, text), h)
      BY <1>8, <2>1, <3>1
    <3>3. o <= Len(Append(sent, text)) /\ Len(stream') <= 2 * (o - h) + 1
      <4> HIDE DEF h, o
      <4> QED BY <1>2, <3>2
    <3>4. RepliesUnderWay'
      BY <2>1, <3>2, <3>3 DEF RepliesUnderWay
    <3> QED BY <1>1, <2>1, <3>4 DEF HeardOK
  <2> QED BY <2>2, <2>3
<1>11. CASE ServerReset
  <2>1. /\ serverEnd' # "open" /\ UNCHANGED <<offered, heard, readbuf>>
        /\ fromServer' \in {fromServer, <<>>}
    BY <1>7, <1>11 DEF ServerReset
  <2>2. CASE fromServer' = fromServer
    BY <1>1, <2>1, <2>2 DEF HeardOK, RepliesUnderWay
  <2>3. CASE fromServer' = <<>>
    <3>1. stream' = readbuf /\ Len(readbuf) <= Len(stream) /\ Len(readbuf) \in Nat
      BY <1>1, <2>1, <2>3, StreamTypes, ConcatEmptySeq, ConcatProperties
    <3>2. Carries(readbuf, sent, h)
      BY <1>1, <1>3, StreamTypes, CarriesLess
    <3>3. Len(readbuf) <= 2 * (o - h) + 1
      <4> HIDE DEF stream, h, o
      <4> QED BY <1>2, <1>3, <3>1
    <3>4. RepliesUnderWay'
      BY <1>3, <2>1, <3>1, <3>2, <3>3 DEF RepliesUnderWay
    <3> QED BY <1>1, <2>1, <3>4 DEF HeardOK
  <2> QED BY <2>1, <2>2, <2>3
<1>12. CASE ServerRead \/ UNCHANGED vars
  <2>1. UNCHANGED <<heard, offered, serverEnd, readbuf, fromServer>>
    BY <1>7, <1>12 DEF ServerRead, vars
  <2> QED BY <1>5, <2>1
<1> QED BY <1>6, <1>9, <1>10, <1>11, <1>12 DEF Next, Server

-----------------------------------------------------------------------------
\* An entry is stored under its call's own id.
LEMMA StoredUnderId ==
  ASSUME PeerTypeOK, MapOK, NEW c \in Calls, callbackMap' = Stored(c)
  PROVE  MapOK'
<1>1. CallOf[c].id \in Ids /\ callbackMap \in [Ids -> Calls \cup {NoCall}]
  BY CallTypes DEF PeerTypeOK, TypeOK
<1> SUFFICES ASSUME NEW id \in Ids, callbackMap'[id] # NoCall
             PROVE  CallOf[callbackMap'[id]].id = id
  BY DEF MapOK
<1>2. callbackMap'[id] = IF id = CallOf[c].id THEN c ELSE callbackMap[id]
  BY <1>1 DEF Stored
<1> QED BY <1>2 DEF MapOK

LEMMA MapStep ==
  ASSUME PeerInv, [Next]_vars
  PROVE  MapOK'
<1>1. PeerTypeOK /\ MapOK /\ TypeOK /\ HeardOK /\ RepliesUnderWay
  BY DEF PeerInv, PeerTypeOK
<1>2. ASSUME UNCHANGED callbackMap PROVE MapOK'
  BY <1>1, <1>2 DEF MapOK
<1>3. ASSUME NEW c \in Calls, AsyncCall(c) PROVE MapOK'
  BY <1>1, <1>2, <1>3, StoredUnderId DEF AsyncCall
<1>4. CASE StoreCallback
  <2>1. calling.call \in Calls
    BY <1>1, <1>4, CallingTypes DEF StoreCallback, Storing
  <2> QED BY <1>1, <1>4, <2>1, StoredUnderId DEF StoreCallback
<1>5. CASE OnRead
  <2>1. PICK c : \/ UNCHANGED callbackMap
                 \/ c \in Calls /\ FollowUp[c] # NoCall /\ AsyncCall(FollowUp[c])
    BY <1>5 DEF OnRead, ParseResponse, Invoke, callVars
  <2> QED BY <1>2, <1>3, <2>1, CallTypes
<1>6. ASSUME NEW c \in Calls, Call(c) \/ BeginCall(c)
      PROVE  MapOK'
  BY <1>2, <1>3, <1>6 DEF Call, BeginCall, callVars
<1>7. CASE Run \/ PostCall \/ Connect \/ Write \/ OnReadError \/ \E n \in 1..Len(fromServer) : Receive(n)
  BY <1>2, <1>7 DEF Run, PostCall, Connect, Write, OnConnect, OnConnectError, OnPosted, Transmit,
     OnWritten, OnWriteError, OnReadError, Receive, callVars
<1>8. CASE Server \/ UNCHANGED vars
  BY <1>2, <1>8 DEF Server, ServerSend, ServerFin, ServerReset, ServerRead, vars, ownVars, callVars
<1> QED BY <1>4, <1>5, <1>6, <1>7, <1>8 DEF Next, Step, Application, Read

\* What parse_response invokes, when no other thread is changing the map.
LEMMA InvokesForResponse ==
  ASSUME PeerTypeOK, MapOK, NEW text \in Replies, ParseResponse(text), ~raced'
  PROVE  /\ ~raced /\ heard' = Append(heard, text)
         /\ \/ UNCHANGED invoked
            \/ \E call \in Calls \cup {Garbage} :
                 /\ invoked' = Append(invoked, [call |-> call, error |-> 0, result |-> text.result])
                 /\ text.kind = "response"
                 /\ (call = Garbage /\ Stateful # {}) \/ text.id = CallOf[call].id
<1>1. ~raced /\ heard' = Append(heard, text) /\ ~(Storing /\ text.kind = "response")
  BY DEF ParseResponse
<1>2. PICK c \in Found(text) :
        \/ c \in Calls \ Unfit /\ Invoke(c, text.result)
        \/ c = Garbage
        \/ UNCHANGED callVars
  BY DEF ParseResponse
<1>3. TypeOK /\ callbackMap \in [Ids -> Calls \cup {NoCall}]
  BY DEF PeerTypeOK, TypeOK
<1>4. c # Garbage /\ (c # NoCall => text.kind = "response" /\ c = Selected(text))
  BY <1>1, <1>3, FoundTypes
<1>5. CASE c \in Calls \ Unfit /\ Invoke(c, text.result)
  <2>1. text.kind = "response" /\ c = callbackMap[text.id] /\ c # NoCall
    BY <1>4, <1>5, CallsAssumption DEF Selected
  <2>2. CallOf[c].id = text.id
    BY <2>1, ResponseTypes DEF MapOK
  <2>3. PICK call \in IF c \in Stateful THEN {c, Garbage} ELSE {c} :
          invoked' = Append(invoked, [call |-> call, error |-> 0, result |-> text.result])
    BY <1>5 DEF Invoke
  <2> QED BY <1>1, <1>5, <2>1, <2>2, <2>3
<1> QED BY <1>1, <1>2, <1>4, <1>5 DEF callVars

LEMMA InvokedStep ==
  ASSUME PeerInv, PeerTypeOK', [Next]_vars
  PROVE  ResponseOfItsOwn'
<1> DEFINE n == Len(invoked)
           h == Len(heard)
<1>1. PeerTypeOK /\ MapOK /\ TypeOK /\ HeardOK /\ RepliesUnderWay /\ ResponseOfItsOwn
  BY DEF PeerInv, PeerTypeOK
<1>2. /\ invoked \in Seq(Invocations) /\ heard \in Seq(Replies)
      /\ n \in Nat /\ h \in Nat
  BY <1>1 DEF TypeOK, Invocations
<1>3. ASSUME UNCHANGED <<heard, invoked>>, raced => raced' PROVE ResponseOfItsOwn'
  BY <1>1, <1>3 DEF ResponseOfItsOwn, Answers
<1>4. CASE OnRead /\ ~raced'
  <2> DEFINE text == NextText(readbuf)
  <2>1. text \in Replies /\ ParseResponse(text)
    BY <1>1, <1>4, HearsNext DEF OnRead
  <2>2. /\ ~raced /\ heard' = Append(heard, text)
        /\ \/ UNCHANGED invoked
           \/ \E call \in Calls \cup {Garbage} :
                /\ invoked' = Append(invoked, [call |-> call, error |-> 0, result |-> text.result])
                /\ text.kind = "response"
                /\ (call = Garbage /\ Stateful # {}) \/ text.id = CallOf[call].id
    BY <1>1, <1>4, <2>1, InvokesForResponse
  <2>3. PICK f \in Injection(1..n, 1..h) :
          \A i \in 1..n : Excused(invoked[i]) \/ Answers(heard[f[i]], invoked[i])
    BY <1>1, <2>2 DEF ResponseOfItsOwn
  <2>4. /\ f \in [1..n -> 1..h] /\ \A a, b \in 1..n : f[a] = f[b] => a = b
    BY <2>3 DEF Injection, IsInjective
  <2>5. /\ Len(heard') = h + 1 /\ heard'[h + 1] = text
        /\ \A k \in 1..h : heard'[k] = heard[k]
    <3> HIDE DEF text, Replies
    <3> QED BY <1>2, <2>1, <2>2
  <2>6. CASE UNCHANGED invoked
    <3>1. \A i \in 1..n : f[i] \in 1..h /\ f[i] \in 1..(h + 1)
      BY <1>2, <2>4
    <3>2. f \in Injection(1..n, 1..(h + 1))
      BY <2>4, <3>1 DEF Injection, IsInjective
    <3>3. \A i \in 1..n : Excused(invoked'[i]) \/ Answers(heard'[f[i]], invoked'[i])
      BY <2>3, <2>5, <2>6, <3>1 DEF Answers
    <3> QED BY <2>5, <2>6, <3>2, <3>3 DEF ResponseOfItsOwn
  <2>7. ASSUME NEW call \in Calls \cup {Garbage},
               invoked' = Append(invoked, [call |-> call, error |-> 0, result |-> text.result]),
               text.kind = "response",
               (call = Garbage /\ Stateful # {}) \/ text.id = CallOf[call].id
        PROVE  ResponseOfItsOwn'
    <3> DEFINE new == [call |-> call, error |-> 0, result |-> text.result]
               g == [i \in 1..(n + 1) |-> IF i = n + 1 THEN h + 1 ELSE f[i]]
    <3>1. new \in Invocations /\ new.call = call /\ new.result = text.result
      BY <2>1, <2>7, ResponseTypes DEF Invocations
    <3>2. /\ Len(invoked') = n + 1 /\ invoked'[n + 1] = new
          /\ \A i \in 1..n : invoked'[i] = invoked[i]
      <4> HIDE DEF new, Invocations
      <4> QED BY <1>2, <2>7, <3>1 DEF new
    <3>3. \A i \in 1..(n + 1) : i \in 1..n \/ i = n + 1
      BY <1>2
    <3>4. /\ \A i \in 1..n : i \in 1..(n + 1) /\ i # n + 1 /\ f[i] \in 1..h /\ f[i] \in 1..(h + 1) /\ f[i] # h + 1
          /\ n + 1 \in 1..(n + 1) /\ h + 1 \in 1..(h + 1)
      BY <1>2, <2>4
    <3>5. g[n + 1] = h + 1 /\ \A i \in 1..n : g[i] = f[i]
      BY <3>4
    <3>6. g \in Injection(1..(n + 1), 1..(h + 1))
      <4>1. g \in [1..(n + 1) -> 1..(h + 1)]
        BY <3>3, <3>4
      <4>2. \A a, b \in 1..(n + 1) : g[a] = g[b] => a = b
        BY <2>4, <3>3, <3>4, <3>5
      <4> HIDE DEF g
      <4> QED BY <4>1, <4>2 DEF Injection, IsInjective
    <3> HIDE DEF g, new, text
    <3>7. \A i \in 1..n : Excused(invoked'[i]) \/ Answers(heard'[g[i]], invoked'[i])
      BY <2>3, <2>5, <3>2, <3>4, <3>5 DEF Answers
    <3>8. Excused(invoked'[n + 1]) \/ Answers(heard'[g[n + 1]], invoked'[n + 1])
      BY <2>5, <2>7, <3>1, <3>2, <3>5 DEF Answers, Excused
    <3>9. \A i \in 1..(n + 1) : Excused(invoked'[i]) \/ Answers(heard'[g[i]], invoked'[i])
      BY <3>3, <3>7, <3>8
    <3> QED BY <2>5, <3>2, <3>6, <3>9 DEF ResponseOfItsOwn
  <2> QED BY <2>2, <2>6, <2>7
<1>5. CASE raced'
  BY <1>5 DEF ResponseOfItsOwn
<1>6. CASE Step /\ ~OnRead
  <2>1. CASE Application \/ Connect
    BY <1>3, <2>1 DEF Application, Connect, Run, StoreCallback, PostCall, Call, BeginCall,
       OnConnect, OnConnectError, callVars, readVars, threadVars
  <2>2. CASE Write \/ OnReadError \/ \E k \in 1..Len(fromServer) : Receive(k)
    BY <1>3, <2>2 DEF Write, OnPosted, Transmit, OnWritten, OnWriteError, OnReadError, Receive,
       callVars, readVars, threadVars
  <2> QED BY <1>6, <2>1, <2>2 DEF Step, Read
<1>7. CASE Server \/ UNCHANGED vars
  BY <1>3, <1>7 DEF Server, ServerSend, ServerFin, ServerReset, ServerRead, vars, ownVars,
     callVars, readVars, threadVars
<1> QED BY <1>4, <1>5, <1>6, <1>7 DEF Next

-----------------------------------------------------------------------------
(* The theorems                                                            *)

LEMMA PeerInvInitially == ASSUME PeerInit PROVE PeerInv
<1>1. /\ <<>> \in Seq(Symbols) /\ <<>> \in Seq(Requests) /\ <<>> \in Seq(Replies) /\ <<>> \in Seq(Calls)
      /\ <<>> \in Seq(WriteOps) /\ <<>> \in Seq(Invocations)
      /\ Len(<<>>) = 0 /\ <<>> \o <<>> = <<>>
  BY EmptySeq, ConcatEmptySeq
<1> USE DEF PeerInit, Init
<1>2. PeerTypeOK
  <2>1. untried \in 0..Endpoints
    BY ConnectionAssumption
  <2>2. callbackMap \in [Ids -> Calls \cup {NoCall}]
    OBVIOUS
  <2>3. sending \in Seq(WriteOps) /\ invoked \in Seq(Invocations)
    BY <1>1
  <2>4. /\ posted \in Seq(Requests) /\ writeMsgs \in Seq(Requests) /\ issued \in Seq(Calls)
        /\ readbuf \in Seq(Symbols) /\ fromServer \in Seq(Symbols) /\ toServer \in Seq(Symbols)
        /\ received \in Seq(Symbols) /\ heard \in Seq(Replies) /\ offered \in Seq(Replies)
    BY <1>1
  <2> HIDE DEF Requests, Symbols, Replies
  <2> QED BY <2>1, <2>2, <2>3, <2>4 DEF PeerTypeOK, TypeOK, WriteOps, Invocations
<1>3. Sent = 0 /\ Len(Waiting) = 0 /\ 0 = 2 * 0
  BY <1>1 DEF Sent, Waiting
<1>8. \A texts, from : Carries(<<>>, texts, from)
  BY <1>1 DEF Carries
<1>4. QueueOK /\ WriterOK /\ HeardOK /\ MapOK
  BY <1>1, <1>3 DEF QueueOK, WriterOK, HeardOK, MapOK
<1>5. RequestsUnderWay
  BY <1>1, <1>3, <1>8 DEF RequestsUnderWay, SymbolsPut
<1>6. RepliesUnderWay
  <2>1. /\ Len(offered) = 0 /\ Len(heard) = 0 /\ readbuf \o fromServer = <<>> /\ offered \in Seq(Replies)
        /\ 0 <= 2 * (0 - 0) + 1 /\ 0 = 2 * (0 - 0)
    BY <1>1
  <2>2. Carries(readbuf \o fromServer, offered, Len(heard))
    BY <1>8, <2>1
  <2>3. Len(readbuf \o fromServer) = 0
    BY <1>1, <2>1
  <2>4. /\ Len(offered) <= Len(offered)
        /\ Len(readbuf \o fromServer) <= 2 * (Len(offered) - Len(heard)) + 1
        /\ Len(readbuf \o fromServer) = 2 * (Len(offered) - Len(heard))
    BY <2>1, <2>3
  <2> HIDE DEF Replies, PeerInit, Init
  <2> QED BY <2>1, <2>2, <2>4, Zenon DEF RepliesUnderWay
<1>7. ResponseOfItsOwn
  <2> DEFINE f == [i \in 1..0 |-> i]
  <2>1. f \in Injection(1..0, 1..0)
    BY DEF Injection, IsInjective
  <2>2. \A i : i \notin 1..0
    OBVIOUS
  <2> HIDE DEF f
  <2> QED BY <1>1, <2>1, <2>2 DEF ResponseOfItsOwn
<1> QED BY <1>2, <1>4, <1>5, <1>6, <1>7 DEF PeerInv

LEMMA PeerInvKept == ASSUME PeerInv, [Next]_vars PROVE PeerInv'
<1>1. PeerTypeOK'
  BY TypeStep
<1>2. QueueOK' /\ WriterOK' /\ RequestsUnderWay'
  BY <1>1, RequestStep
<1>3. HeardOK' /\ RepliesUnderWay'
  BY <1>1, ReplyStep
<1>4. MapOK' /\ ResponseOfItsOwn'
  BY <1>1, MapStep, InvokedStep
<1> QED BY <1>1, <1>2, <1>3, <1>4 DEF PeerInv

\* The invariant of a client and whatever server it is connected to.
THEOREM ClientInvariant == Spec => []PeerInv
<1>1. PeerInit => PeerInv
  BY PeerInvInitially
<1>2. PeerInv /\ [Next]_vars => PeerInv'
  BY PeerInvKept
<1> QED BY <1>1, <1>2, PTL DEF Spec

\* The variables of a client always have their types; in particular
\* parse_response is handed texts and nothing else, and m_callback_map keeps
\* a call or nothing for every id (rpc_client.cpp:34-165).
THEOREM ClientTypeCorrect == Spec => []PeerTypeOK
<1>1. PeerInv => PeerTypeOK
  BY DEF PeerInv
<1> QED BY <1>1, ClientInvariant, PTL

\* The bytes the server gets are the calls made, in the order they were made,
\* each whole before the next begins, whenever and from wherever async_call
\* was called (rpc_client.cpp:131-165).
THEOREM ClientRequestStream == Spec => []RequestStream
<1>1. PeerInv => RequestStream
  <2> SUFFICES ASSUME PeerInv PROVE RequestStream
    OBVIOUS
  <2> DEFINE stream == received \o toServer
             n == Len(issued)
  <2>1. PeerTypeOK /\ TypeOK /\ Carries(stream, Requested, 0)
    BY DEF PeerInv, PeerTypeOK, RequestsUnderWay
  <2>2. /\ n \in Nat /\ Len(Requested) = n /\ Len(stream) \in Nat
        /\ \A i \in 1..n : Requested[i] = RequestOf(issued[i])
    BY <2>1, RequestedType, StreamTypes
  <2>3. \A text : Encode(text)[1] = text /\ Encode(text)[2] = NUL
    BY DEF Encode
  <2> SUFFICES ASSUME NEW k \in 1..Len(stream)
               PROVE  /\ (k + 1) \div 2 <= n
                      /\ stream[k] = Encode(RequestOf(issued[(k + 1) \div 2]))[IF k % 2 = 1 THEN 1 ELSE 2]
    BY DEF RequestStream
  <2> DEFINE j == (k + 1) \div 2
  <2>4. j \in Nat /\ j >= 1 /\ 0 + j = j
    <3>1. k \in Nat /\ k >= 1
      OBVIOUS
    <3> QED BY <3>1
  <2> HIDE DEF stream, j, n
  <2>5. j <= n /\ stream[k] = IF k % 2 = 1 THEN Requested[j] ELSE NUL
    BY <2>1, <2>2, <2>4 DEF Carries, j
  <2>6. Requested[j] = RequestOf(issued[j])
    BY <2>2, <2>4, <2>5
  <2> QED BY <2>3, <2>5, <2>6 DEF j
<1> QED BY <1>1, ClientInvariant, PTL

\* However the server's writes and the client's reads cut the stream,
\* parse_response is given the texts the server sent: whole, once, in order
\* (rpc_client.cpp:107-122).
THEOREM ClientRepliesIntact == Spec => []RepliesIntact
<1>1. PeerInv => RepliesIntact
  <2> SUFFICES ASSUME PeerInv PROVE RepliesIntact
    OBVIOUS
  <2>1. heard \in Seq(Replies) /\ offered \in Seq(Replies)
    BY StreamTypes DEF PeerInv
  <2> HIDE DEF Replies
  <2> QED BY <2>1, AgreesIsPrefix DEF PeerInv, HeardOK, RepliesIntact
<1> QED BY <1>1, ClientInvariant, PTL

\* A callback is invoked for a response with its id and with that response's
\* result, and no response is used twice, whatever the ids calls share, unless
\* the map was searched while another thread was changing it
\* (rpc_client.cpp:40,75-105).
THEOREM ClientInvokedForResponse == Spec => []InvokedForResponse
<1>1. PeerInv => InvokedForResponse
  <2> SUFFICES ASSUME PeerInv, ~raced, NEW i \in 1..Len(invoked),
                      ~Excused(invoked[i])
               PROVE  Cardinality({j \in 1..Len(invoked) : invoked[j] = invoked[i]})
                        <= Cardinality({k \in 1..Len(heard) : Answers(heard[k], invoked[i])})
    BY DEF InvokedForResponse, Answers, Excused
  <2> DEFINE n == Len(invoked)
             h == Len(heard)
             Uses == {j \in 1..n : invoked[j] = invoked[i]}
             Given == {k \in 1..h : Answers(heard[k], invoked[i])}
  <2>1. PICK f \in Injection(1..n, 1..h) :
          \A j \in 1..n : Excused(invoked[j]) \/ Answers(heard[f[j]], invoked[j])
    BY DEF PeerInv, ResponseOfItsOwn
  <2>2. f \in [1..n -> 1..h] /\ \A a, b \in 1..n : f[a] = f[b] => a = b
    BY <2>1 DEF Injection, IsInjective
  <2> DEFINE g == [j \in Uses |-> f[j]]
  <2>3. \A j \in Uses : f[j] \in Given
    BY <2>1, <2>2
  <2>4. g \in Injection(Uses, Given)
    <3>1. g \in [Uses -> Given]
      BY <2>3
    <3>2. \A a, b \in Uses : g[a] = g[b] => a = b
      BY <2>2
    <3> QED BY <3>1, <3>2 DEF Injection, IsInjective
  <2>5. IsFiniteSet(Given)
    <3>1. h \in Nat
      BY StreamTypes DEF PeerInv
    <3>2. IsFiniteSet(1..h)
      BY <3>1, FS_Interval
    <3> QED BY <3>2, FS_Subset
  <2> QED BY <2>4, <2>5, FS_Injection
<1> QED BY <1>1, ClientInvariant, PTL
=============================================================================
