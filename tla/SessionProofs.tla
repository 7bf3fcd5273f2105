--------------------------- MODULE SessionProofs ---------------------------
(***************************************************************************)
(* What SessionPeer's safety properties rest on, for every set of texts,   *)
(* every size of the send buffer, every number of texts and every way the  *)
(* peer cuts, ends or breaks the stream.                                   *)
(***************************************************************************)
EXTENDS SessionPeer, SessionLemmas

\* The stream to the peer carries the answers of the texts served; while the
\* connection is not reset it ends where the answer being written does.
AnswersUnderWay ==
    /\ Carries(received \o outbound, Replied, 0)
    /\ peerEnd # "reset" => SymbolsPut(Len(received \o outbound))

\* What is on its way from the peer continues what was served: the texts
\* offered, and once the peer has shut its side down perhaps the first part of
\* one more.
TextsUnderWay ==
    \E sent \in Seq(Frames) :
        /\ Len(offered) <= Len(sent)
        /\ \A i \in 1..Len(offered) : sent[i] = offered[i]
        /\ Carries(streambuf \o inbound, sent, Len(served))
        /\ Len(streambuf \o inbound) <= 2 * (Len(offered) - Len(served)) + 1
        /\ peerEnd = "open" =>
             /\ sent = offered
             /\ Len(streambuf \o inbound) = 2 * (Len(offered) - Len(served))

ServedOK ==
    /\ Len(served) <= Len(offered)
    /\ \A i \in 1..Len(served) : served[i] = offered[i]

SessionInv ==
    /\ PeerTypeOK
    /\ AnswersOK
    /\ WriterOK
    /\ AtWork
    /\ AnswersUnderWay
    /\ ServedOK
    /\ TextsUnderWay

-----------------------------------------------------------------------------
LEMMA StreamTypes ==
  ASSUME PeerTypeOK
  PROVE  /\ streambuf \in Seq(Symbols) /\ inbound \in Seq(Symbols)
         /\ received \in Seq(Symbols) /\ outbound \in Seq(Symbols)
         /\ streambuf \o inbound \in Seq(Symbols) /\ Len(streambuf \o inbound) \in Nat
         /\ received \o outbound \in Seq(Symbols) /\ Len(received \o outbound) \in Nat
         /\ offered \in Seq(Frames) /\ served \in Seq(Frames)
         /\ Len(offered) \in Nat /\ Len(served) \in Nat
<1>1. /\ streambuf \in Seq(Symbols) /\ inbound \in Seq(Symbols)
      /\ received \in Seq(Symbols) /\ outbound \in Seq(Symbols)
      /\ offered \in Seq(Frames) /\ served \in Seq(Frames)
  BY DEF PeerTypeOK, TypeOK
<1> HIDE DEF Symbols, Frames
<1> QED BY <1>1

LEMMA FramesAreSymbols == Frames \subseteq Symbols /\ NUL \notin Frames
  BY NulIsNoText DEF Symbols

LEMMA EncodeType ==
  ASSUME NEW text \in Frames
  PROVE  Encode(text) \in Seq(Symbols) /\ <<text>> \in Seq(Symbols)
  BY FramesAreSymbols DEF Encode, Symbols

\* What the peer adds comes behind what is on its way.
LEMMA Joined ==
  ASSUME PeerTypeOK, NEW more \in Seq(Symbols)
  PROVE  streambuf \o (inbound \o more) = (streambuf \o inbound) \o more
<1>1. streambuf \in Seq(Symbols) /\ inbound \in Seq(Symbols)
  BY StreamTypes
<1> HIDE DEF Symbols
<1> QED BY <1>1, ConcatAssociative

\* The text a read handler takes is the next of those the peer has sent.
LEMMA TakesNext ==
  ASSUME PeerTypeOK, ServedOK, TextsUnderWay, HasText(streambuf)
  PROVE  /\ NextText(streambuf) \in Frames /\ AfterText(streambuf) \in Seq(Symbols)
         /\ Len(served) + 1 <= Len(offered)
         /\ NextText(streambuf) = offered[Len(served) + 1]
         /\ \E sent \in Seq(Frames) :
              /\ Len(offered) <= Len(sent)
              /\ \A i \in 1..Len(offered) : sent[i] = offered[i]
              /\ Carries(AfterText(streambuf) \o inbound, sent, Len(served) + 1)
              /\ Len(AfterText(streambuf) \o inbound) <= 2 * (Len(offered) - (Len(served) + 1)) + 1
              /\ peerEnd = "open" =>
                   /\ sent = offered
                   /\ Len(AfterText(streambuf) \o inbound) = 2 * (Len(offered) - (Len(served) + 1))
<1> DEFINE h == Len(served)
           o == Len(offered)
           n == Len(streambuf \o inbound)
           after == AfterText(streambuf) \o inbound
           m == Len(after)
<1>1. PICK sent \in Seq(Frames) :
        /\ o <= Len(sent)
        /\ \A i \in 1..o : sent[i] = offered[i]
        /\ Carries(streambuf \o inbound, sent, h)
        /\ n <= 2 * (o - h) + 1
        /\ peerEnd = "open" => sent = offered /\ n = 2 * (o - h)
  BY DEF TextsUnderWay
<1>2. h \in Nat /\ o \in Nat /\ n \in Nat /\ h <= o
  BY StreamTypes DEF ServedOK
<1>3. /\ h + 1 <= Len(sent)
      /\ NextText(streambuf) = sent[h + 1] /\ sent[h + 1] \in Frames
      /\ AfterText(streambuf) \in Seq(Symbols)
      /\ after \in Seq(Symbols)
      /\ m + 2 = n
      /\ Carries(after, sent, h + 1)
  <2>1. streambuf \in Seq(Symbols) /\ inbound \in Seq(Symbols)
    BY StreamTypes
  <2> HIDE DEF h
  <2> QED BY <1>1, <1>2, <2>1, FramesAreSymbols, CarriesTake
<1>4. m \in Nat
  BY <1>3
<1> HIDE DEF h, o, n, m, after
<1>5. h + 1 <= o /\ m <= 2 * (o - (h + 1)) + 1 /\ (n = 2 * (o - h) => m = 2 * (o - (h + 1)))
  BY <1>1, <1>2, <1>3, <1>4
<1>6. sent[h + 1] = offered[h + 1]
  BY <1>1, <1>2, <1>5
<1> QED BY <1>1, <1>3, <1>5, <1>6 DEF h, o, n, m, after

-----------------------------------------------------------------------------
LEMMA TypeStep ==
  ASSUME SessionInv, [Next]_vars
  PROVE  PeerTypeOK'
<1>1. PeerTypeOK /\ ServedOK /\ TextsUnderWay /\ TypeOK
  BY DEF SessionInv, PeerTypeOK
<1>2. CASE Step /\ UNCHANGED <<peerEnd, offered, received>>
  <2>1. OnRead => NextText(streambuf) \in Frames /\ AfterText(streambuf) \in Seq(Symbols)
    BY <1>1, TakesNext DEF OnRead
  <2>2. peerEnd' \in {"open", "fin", "reset"}
    BY <1>1, <1>2 DEF TypeOK
  <2>3. TypeOK'
    BY <1>1, <1>2, <2>1, <2>2, StepTypes
  <2> QED BY <1>1, <1>2, <2>3 DEF PeerTypeOK
<1>3. ASSUME UNCHANGED ownVars,
             inbound' \in Seq(Symbols), outbound' \in Seq(Symbols),
             peerEnd' \in {"open", "fin", "reset"},
             offered' \in Seq(Frames), received' \in Seq(Symbols)
      PROVE  PeerTypeOK'
  BY <1>1, <1>3 DEF PeerTypeOK, TypeOK, ownVars
<1>4. /\ inbound \in Seq(Symbols) /\ outbound \in Seq(Symbols)
      /\ peerEnd \in {"open", "fin", "reset"}
      /\ offered \in Seq(Frames) /\ received \in Seq(Symbols)
  BY <1>1, StreamTypes DEF TypeOK
<1> HIDE DEF Frames, Symbols
<1>5. ASSUME NEW text \in Frames, PeerSend(text)
      PROVE  PeerTypeOK'
  <2>1. Encode(text) \in Seq(Symbols)
    BY FramesAreSymbols DEF Encode, Symbols
  <2>2. inbound' \in Seq(Symbols) /\ offered' \in Seq(Frames)
    BY <1>4, <1>5, <2>1 DEF PeerSend
  <2> QED BY <1>3, <1>4, <1>5, <2>2 DEF PeerSend
<1>6. ASSUME NEW fragment \in {<<>>} \cup {<<text>> : text \in Frames}, PeerFin(fragment)
      PROVE  PeerTypeOK'
  <2>1. fragment \in Seq(Symbols)
    <3>1. \A text \in Frames : <<text>> \in Seq(Symbols)
      BY FramesAreSymbols
    <3>2. <<>> \in Seq(Symbols)
      OBVIOUS
    <3> QED BY <3>1, <3>2
  <2>2. inbound' \in Seq(Symbols)
    BY <1>4, <1>6, <2>1 DEF PeerFin
  <2> QED BY <1>3, <1>4, <1>6, <2>2 DEF PeerFin
<1>7. CASE PeerReset
  <2>1. <<>> \in Seq(Symbols)
    OBVIOUS
  <2> QED BY <1>3, <1>4, <1>7, <2>1 DEF PeerReset
<1>8. CASE PeerRead
  <2>1. received' \in Seq(Symbols) /\ outbound' \in Seq(Symbols)
    BY <1>4, <1>8, HeadTailProperties, AppendProperties DEF PeerRead
  <2> QED BY <1>3, <1>4, <1>8, <2>1 DEF PeerRead
<1>9. CASE UNCHANGED vars
  BY <1>3, <1>4, <1>9 DEF vars
<1> QED BY <1>2, <1>5, <1>6, <1>7, <1>8, <1>9 DEF Next, Peer

\* Every step of the session is one that the lemmas about writing speak of, and
\* one of the peer's leaves the session alone.
LEMMA WriteSteps ==
  ASSUME SessionInv, Step
  PROVE  WriteStep
<1>1. PeerTypeOK /\ ServedOK /\ TextsUnderWay /\ TypeOK
  BY DEF SessionInv, PeerTypeOK
<1>2. OnRead => NextText(streambuf) \in Frames
  BY <1>1, TakesNext DEF OnRead
<1> QED BY <1>1, <1>2, WriteCases

LEMMA AnswerStep ==
  ASSUME SessionInv, PeerTypeOK', [Next]_vars
  PROVE  AnswersOK' /\ WriterOK' /\ AtWork' /\ AnswersUnderWay'
<1> DEFINE stream == received \o outbound
<1>1. /\ TypeOK /\ TypeOK' /\ AnswersOK /\ WriterOK /\ AtWork
      /\ Carries(stream, Replied, 0)
      /\ peerEnd # "reset" => SymbolsPut(Len(stream))
      /\ received \in Seq(Symbols) /\ outbound \in Seq(Symbols) /\ Len(stream) \in Nat
  BY StreamTypes DEF SessionInv, PeerTypeOK, AnswersUnderWay
<1>2. CASE Step /\ UNCHANGED <<peerEnd, offered, received>>
  <2>1. WriteStep
    BY <1>2, WriteSteps
  <2>2. AnswersOK' /\ WriterOK' /\ AtWork'
    BY <1>1, <1>2, <2>1, AnswersStep, WriterStep
  <2>3. 2 * 0 + Len(stream) = Len(stream) /\ 0 \in Nat
    BY <1>1
  <2>4. /\ Carries(received \o outbound', Replied', 0)
        /\ \E m \in Nat : /\ m = 2 * 0 + Len(received \o outbound')
                          /\ peerEnd # "reset" => SymbolsPut(m)'
    BY <1>1, <2>1, <2>3, RepliesCarried
  <2>5. PICK m \in Nat : m = 2 * 0 + Len(received \o outbound') /\ (peerEnd # "reset" => SymbolsPut(m)')
    BY <2>4
  <2>6. m = Len(stream')
    <3>1. outbound' \in Seq(Symbols)
      BY <1>1 DEF TypeOK
    <3>2. Len(received \o outbound') \in Nat
      BY <1>1, <3>1
    <3>3. stream' = received \o outbound'
      BY <1>2
    <3> QED BY <2>5, <3>2, <3>3
  <2>7. peerEnd' # "reset" => SymbolsPut(Len(stream))'
    BY <1>2, <2>5, <2>6 DEF SymbolsPut
  <2> QED BY <1>2, <2>2, <2>4, <2>7 DEF AnswersUnderWay
<1>3. ASSUME UNCHANGED ownVars, stream' = stream, peerEnd' # "reset" => peerEnd # "reset"
      PROVE  AnswersOK' /\ WriterOK' /\ AtWork' /\ AnswersUnderWay'
  <2>1. UNCHANGED <<served, answered, msgs, writes>>
    BY <1>3 DEF ownVars
  <2> QED BY <1>1, <1>3, <2>1
      DEF AnswersOK, WriterOK, AtWork, AnswersUnderWay, Replied, SymbolsPut
<1>4. CASE Peer \/ UNCHANGED vars
  <2>1. UNCHANGED ownVars /\ (peerEnd' # "reset" => peerEnd # "reset")
    BY <1>4 DEF Peer, PeerSend, PeerFin, PeerReset, PeerRead, vars
  <2>2. stream' = stream
    <3>1. CASE PeerRead
      <4> HIDE DEF Symbols
      <4> QED BY <1>1, <3>1 DEF PeerRead
    <3>2. CASE ~PeerRead
      BY <1>4, <3>2 DEF Peer, PeerSend, PeerFin, PeerReset, vars
    <3> QED BY <3>1, <3>2
  <2> QED BY <1>3, <2>1, <2>2
<1> QED BY <1>2, <1>4 DEF Next

-----------------------------------------------------------------------------
LEMMA TextStep ==
  ASSUME SessionInv, PeerTypeOK', [Next]_vars
  PROVE  ServedOK' /\ TextsUnderWay'
<1> DEFINE stream == streambuf \o inbound
           h == Len(served)
           o == Len(offered)
<1>1. PeerTypeOK /\ ServedOK /\ TextsUnderWay /\ TypeOK
  BY DEF SessionInv, PeerTypeOK
<1>2. /\ h \in Nat /\ o \in Nat /\ h <= o
      /\ \A i \in 1..h : served[i] = offered[i]
      /\ stream \in Seq(Symbols) /\ Len(stream) \in Nat
      /\ offered \in Seq(Frames) /\ served \in Seq(Frames)
  BY <1>1, StreamTypes DEF ServedOK
<1>3. PICK sent \in Seq(Frames) :
        /\ o <= Len(sent)
        /\ \A i \in 1..o : sent[i] = offered[i]
        /\ Carries(stream, sent, h)
        /\ Len(stream) <= 2 * (o - h) + 1
        /\ peerEnd = "open" => sent = offered /\ Len(stream) = 2 * (o - h)
  BY <1>1 DEF TextsUnderWay
<1>4. ASSUME HasText(streambuf), served' = Append(served, NextText(streambuf)),
             streambuf' = AfterText(streambuf), UNCHANGED <<inbound, offered, peerEnd>>
      PROVE  ServedOK' /\ TextsUnderWay'
  <2>1. /\ NextText(streambuf) \in Frames
        /\ h + 1 <= o /\ NextText(streambuf) = offered[h + 1]
        /\ \E s \in Seq(Frames) :
             /\ o <= Len(s)
             /\ \A i \in 1..o : s[i] = offered[i]
             /\ Carries(streambuf' \o inbound, s, h + 1)
             /\ Len(streambuf' \o inbound) <= 2 * (o - (h + 1)) + 1
             /\ peerEnd = "open" =>
                  s = offered /\ Len(streambuf' \o inbound) = 2 * (o - (h + 1))
    BY <1>1, <1>4, TakesNext
  <2>2. /\ Len(served') = h + 1 /\ served'[h + 1] = NextText(streambuf)
        /\ \A i \in 1..h : served'[i] = served[i]
    <3> HIDE DEF Frames
    <3> QED BY <1>2, <1>4, <2>1
  <2>3. ServedOK'
    <3>1. \A i : i \in 1..(h + 1) => i \in 1..h \/ i = h + 1
      BY <1>2
    <3> HIDE DEF h
    <3> QED BY <1>2, <1>4, <2>1, <2>2, <3>1 DEF ServedOK
  <2>4. TextsUnderWay'
    BY <1>4, <2>1, <2>2 DEF TextsUnderWay
  <2> QED BY <2>3, <2>4
<1>5. ASSUME UNCHANGED <<served, offered, peerEnd>>, stream' = stream
      PROVE  ServedOK' /\ TextsUnderWay'
  BY <1>1, <1>5 DEF ServedOK, TextsUnderWay
<1>6. CASE Step /\ UNCHANGED <<peerEnd, offered, received>>
  BY <1>1, <1>4, <1>5, <1>6, ReadStep
<1>7. ASSUME UNCHANGED ownVars PROVE UNCHANGED <<served, streambuf>>
  BY <1>7 DEF ownVars
<1>8. ASSUME NEW text \in Frames, peerEnd = "open"
      PROVE  /\ o <= Len(sent) /\ sent = offered
             /\ Len(Append(sent, text)) = o + 1
             /\ \A i \in 1..o : Append(sent, text)[i] = offered[i]
             /\ Append(sent, text) \in Seq(Frames)
             /\ Len(stream \o <<text>>) = 2 * (o - h) + 1
             /\ Carries(stream \o <<text>>, Append(sent, text), h)
             /\ Len(stream \o Encode(text)) = 2 * (o + 1 - h)
             /\ Carries(stream \o Encode(text), Append(sent, text), h)
  <2>1. sent = offered /\ Len(stream) = 2 * (o - h) /\ o <= Len(sent)
    BY <1>3, <1>8
  <2> HIDE DEF Frames, stream, h
  <2>2. /\ Len(Append(sent, text)) = o + 1 /\ Append(sent, text) \in Seq(Frames)
        /\ \A i \in 1..o : Append(sent, text)[i] = offered[i]
    BY <1>2, <2>1
  <2>3. /\ Len(stream \o <<text>>) = 2 * (Len(sent) - h) + 1
        /\ Carries(stream \o <<text>>, Append(sent, text), h)
        /\ Len(stream \o Encode(text)) = 2 * (Len(sent) + 1 - h)
        /\ Carries(stream \o Encode(text), Append(sent, text), h)
    <3>1. h \in Nat /\ h <= Len(sent) /\ Len(stream) = 2 * (Len(sent) - h)
      BY <1>2, <2>1
    <3>2. stream \in Seq(Symbols) /\ Carries(stream, sent, h)
      BY <1>2, <1>3
    <3> HIDE DEF o
    <3> QED BY <3>1, <3>2, FramesAreSymbols, CarriesSent, SMTT(30)
  <2> QED BY <2>1, <2>2, <2>3
<1>9. ASSUME NEW text \in Frames, PeerSend(text)
      PROVE  ServedOK' /\ TextsUnderWay'
  <2>1. /\ peerEnd = "open" /\ UNCHANGED peerEnd
        /\ offered' = Append(offered, text) /\ inbound' = inbound \o Encode(text)
        /\ UNCHANGED <<served, streambuf>>
    BY <1>7, <1>9 DEF PeerSend
  <2>2. stream' = stream \o Encode(text)
    BY <1>1, <2>1, Joined, EncodeType
  <2>3. offered' = Append(sent, text) /\ Len(offered') = o + 1
    BY <1>8, <2>1
  <2>4. /\ Append(sent, text) \in Seq(Frames)
        /\ \A i \in 1..o : offered'[i] = offered[i]
        /\ Len(stream') = 2 * (o + 1 - h)
        /\ Carries(stream', Append(sent, text), h)
    BY <1>8, <2>1, <2>2, <2>3
  <2> DEFINE m == Len(stream')
  <2>5. m = 2 * (Len(offered') - h)
    BY <2>3, <2>4
  <2>6. m <= 2 * (Len(offered') - h) + 1 /\ h <= Len(offered')
    <3> HIDE DEF m, h, o
    <3> QED BY <1>2, <2>3, <2>5
  <2>7. TextsUnderWay'
    <3>1. Len(served') = h
      BY <2>1
    <3>2. Len(offered') <= Len(offered')
      BY <1>2, <2>3
    <3> HIDE DEF h, o
    <3> QED BY <2>1, <2>3, <2>4, <2>5, <2>6, <3>1, <3>2 DEF TextsUnderWay
  <2>8. ServedOK'
    <3>1. \A i \in 1..h : i \in 1..o
      BY <1>2
    <3> QED BY <1>2, <2>1, <2>4, <2>6, <3>1 DEF ServedOK
  <2> QED BY <2>7, <2>8
<1>10. ASSUME NEW fragment \in {<<>>} \cup {<<text>> : text \in Frames}, PeerFin(fragment)
       PROVE  ServedOK' /\ TextsUnderWay'
  <2>1. /\ peerEnd = "open" /\ peerEnd' = "fin"
        /\ UNCHANGED offered /\ inbound' = inbound \o fragment
        /\ UNCHANGED <<served, streambuf>>
    BY <1>7, <1>10 DEF PeerFin
  <2>2. CASE fragment = <<>>
    <3>1. stream' = stream
      BY <1>1, <2>1, <2>2, StreamTypes, ConcatEmptySeq
    <3> QED BY <1>1, <2>1, <3>1 DEF ServedOK, TextsUnderWay
  <2>3. ASSUME NEW text \in Frames, fragment = <<text>>
        PROVE  ServedOK' /\ TextsUnderWay'
    <3>1. stream' = stream \o <<text>>
      BY <1>1, <2>1, <2>3, Joined, EncodeType
    <3>2. /\ Append(sent, text) \in Seq(Frames)
          /\ Len(Append(sent, text)) = o + 1
          /\ \A i \in 1..o : Append(sent, text)[i] = offered[i]
          /\ Len(stream') = 2 * (o - h) + 1
          /\ Carries(stream', Append(sent, text), h)
      BY <1>8, <2>1, <3>1
    <3>3. o <= Len(Append(sent, text)) /\ Len(stream') <= 2 * (o - h) + 1
      <4> HIDE DEF h, o
      <4> QED BY <1>2, <3>2
    <3>4. TextsUnderWay'
      BY <2>1, <3>2, <3>3 DEF TextsUnderWay
    <3> QED BY <1>1, <2>1, <3>4 DEF ServedOK
  <2> QED BY <2>2, <2>3
<1>11. CASE PeerReset
  <2>1. /\ peerEnd' # "open" /\ UNCHANGED <<offered, served, streambuf>>
        /\ inbound' \in {inbound, <<>>}
    BY <1>7, <1>11 DEF PeerReset
  <2>2. CASE inbound' = inbound
    BY <1>1, <2>1, <2>2 DEF ServedOK, TextsUnderWay
  <2>3. CASE inbound' = <<>>
    <3>1. stream' = streambuf /\ Len(streambuf) <= Len(stream) /\ Len(streambuf) \in Nat
      BY <1>1, <2>1, <2>3, StreamTypes, ConcatEmptySeq, ConcatProperties
    <3>2. Carries(streambuf, sent, h)
      BY <1>1, <1>3, StreamTypes, CarriesLess
    <3>3. Len(streambuf) <= 2 * (o - h) + 1
      <4> HIDE DEF stream, h, o
      <4> QED BY <1>2, <1>3, <3>1
    <3>4. TextsUnderWay'
      BY <1>3, <2>1, <3>1, <3>2, <3>3 DEF TextsUnderWay
    <3> QED BY <1>1, <2>1, <3>4 DEF ServedOK
  <2> QED BY <2>1, <2>2, <2>3
<1>12. CASE PeerRead \/ UNCHANGED vars
  <2>1. UNCHANGED <<served, offered, peerEnd, streambuf, inbound>>
    BY <1>7, <1>12 DEF PeerRead, vars
  <2> QED BY <1>5, <2>1
<1> QED BY <1>6, <1>9, <1>10, <1>11, <1>12 DEF Next, Peer

-----------------------------------------------------------------------------
(* The theorems                                                            *)

LEMMA SessionInvInitially == ASSUME PeerInit PROVE SessionInv
<1>1. /\ <<>> \in Seq(Symbols) /\ <<>> \in Seq(Replies) /\ <<>> \in Seq(Frames) /\ <<>> \in Seq(WriteOps)
      /\ Len(<<>>) = 0 /\ <<>> \o <<>> = <<>>
  BY EmptySeq, ConcatEmptySeq
<1> USE DEF PeerInit, Init
<1>2. PeerTypeOK
  <2>1. /\ streambuf \in Seq(Symbols) /\ inbound \in Seq(Symbols) /\ outbound \in Seq(Symbols)
        /\ received \in Seq(Symbols) /\ msgs \in Seq(Replies) /\ answered \in Seq(Replies)
        /\ served \in Seq(Frames) /\ offered \in Seq(Frames) /\ writes \in Seq(WriteOps)
    BY <1>1
  <2> HIDE DEF Symbols, Replies, Frames
  <2> QED BY <2>1 DEF PeerTypeOK, TypeOK, WriteOps
<1>3. 0 = 2 * 0 /\ \A i : i \notin 1..0
  OBVIOUS
<1>4. \A texts, from : Carries(<<>>, texts, from)
  BY <1>1 DEF Carries
<1>5. AnswersOK /\ WriterOK /\ AtWork /\ ServedOK
  BY <1>1, <1>3 DEF AnswersOK, WriterOK, AtWork, ServedOK
<1>6. AnswersUnderWay
  BY <1>1, <1>3, <1>4 DEF AnswersUnderWay, SymbolsPut
<1>7. TextsUnderWay
  <2>1. /\ Len(offered) = 0 /\ Len(served) = 0 /\ streambuf \o inbound = <<>> /\ offered \in Seq(Frames)
        /\ 0 <= 2 * (0 - 0) + 1 /\ 0 = 2 * (0 - 0)
    BY <1>1
  <2>2. Carries(streambuf \o inbound, offered, Len(served))
    BY <1>4, <2>1
  <2>3. Len(streambuf \o inbound) = 0
    BY <1>1, <2>1
  <2>4. /\ Len(offered) <= Len(offered)
        /\ Len(streambuf \o inbound) <= 2 * (Len(offered) - Len(served)) + 1
        /\ Len(streambuf \o inbound) = 2 * (Len(offered) - Len(served))
    BY <2>1, <2>3
  <2> HIDE DEF Frames, PeerInit, Init
  <2> QED BY <2>1, <2>2, <2>4, Zenon DEF TextsUnderWay
<1> QED BY <1>2, <1>5, <1>6, <1>7 DEF SessionInv

LEMMA SessionInvKept == ASSUME SessionInv, [Next]_vars PROVE SessionInv'
<1>1. PeerTypeOK'
  BY TypeStep
<1>2. AnswersOK' /\ WriterOK' /\ AtWork' /\ AnswersUnderWay'
  BY <1>1, AnswerStep
<1>3. ServedOK' /\ TextsUnderWay'
  BY <1>1, TextStep
<1> QED BY <1>1, <1>2, <1>3 DEF SessionInv

\* What makes a session correct, in one inductive invariant: types, its queue
\* and its write operation, its answers, the stream it writes and the stream it
\* reads.
THEOREM SessionInvariant == Spec => []SessionInv
<1>1. PeerInit => SessionInv
  BY SessionInvInitially
<1>2. SessionInv /\ [Next]_vars => SessionInv'
  BY SessionInvKept
<1> QED BY <1>1, <1>2, PTL DEF Spec

\* The variables of a session always have their types; in particular parse_json
\* is handed texts and nothing else (rpc_server.cpp:41-101).
THEOREM SessionTypeCorrect == Spec => []PeerTypeOK
<1>1. SessionInv => PeerTypeOK
  BY DEF SessionInv
<1> QED BY <1>1, SessionInvariant, PTL

\* However the peer's writes and the session's reads cut the stream, parse_json
\* is given what the peer sent: whole, once and in order (rpc_server.cpp:52-62).
THEOREM SessionTextsIntact == Spec => []TextsIntact
<1>1. SessionInv => TextsIntact
  <2> SUFFICES ASSUME SessionInv PROVE TextsIntact
    OBVIOUS
  <2>1. served \in Seq(Frames) /\ offered \in Seq(Frames)
    BY StreamTypes DEF SessionInv
  <2> HIDE DEF Frames
  <2> QED BY <2>1, AgreesIsPrefix DEF SessionInv, ServedOK, TextsIntact
<1> QED BY <1>1, SessionInvariant, PTL

\* async_write is given the address of m_msgs.front(): at most one write is
\* outstanding and its message stays at the front of the queue until it
\* completes (write, write_response, rpc_server.cpp:75-101).
THEOREM SessionWriteDiscipline == Spec => []WriteDiscipline
<1>1. SessionInv => WriteDiscipline
  <2> SUFFICES ASSUME SessionInv PROVE WriteDiscipline
    OBVIOUS
  <2>1. PeerTypeOK /\ TypeOK /\ WriterOK /\ Len(writes) <= 1
    BY DEF SessionInv, PeerTypeOK, WriterOK
  <2>2. \A i \in 1..Len(writes) : i = 1 /\ writes # <<>>
    BY <2>1, OneWrite
  <2> QED BY <2>1, <2>2 DEF WriteDiscipline, WriterOK
<1> QED BY <1>1, SessionInvariant, PTL

\* While an answer waits and the connection is not reset, a write is
\* outstanding: the test of the queue's emptiness in write_response never
\* strands an answer (rpc_server.cpp:75-101).
THEOREM SessionNoStalledQueue == Spec => []NoStalledQueue
<1>1. SessionInv => NoStalledQueue
  BY DEF SessionInv, AtWork, NoStalledQueue
<1> QED BY <1>1, SessionInvariant, PTL

\* The bytes the peer is given are, in order, the answers of the texts served,
\* each followed by its terminator, none repeated, none interleaved
\* (rpc_server.cpp:64-101).
THEOREM SessionReplyStream == Spec => []ReplyStream
<1>1. SessionInv => ReplyStream
  <2> SUFFICES ASSUME SessionInv PROVE ReplyStream
    OBVIOUS
  <2> DEFINE stream == received \o outbound
             n == Len(served)
  <2>1. PeerTypeOK /\ TypeOK /\ Carries(stream, Replied, 0)
    BY DEF SessionInv, PeerTypeOK, AnswersUnderWay
  <2>2. /\ n \in Nat /\ Len(Replied) = n /\ Len(stream) \in Nat
        /\ \A i \in 1..n : Replied[i] = Reply(served[i])
    BY <2>1, RepliedType, StreamTypes
  <2>3. \A text : Encode(text)[1] = text /\ Encode(text)[2] = NUL
    BY DEF Encode
  <2> SUFFICES ASSUME NEW k \in 1..Len(stream)
               PROVE  /\ (k + 1) \div 2 <= n
                      /\ stream[k] = Encode(Reply(served[(k + 1) \div 2]))[IF k % 2 = 1 THEN 1 ELSE 2]
    BY DEF ReplyStream
  <2> DEFINE j == (k + 1) \div 2
  <2>4. j \in Nat /\ j >= 1 /\ 0 + j = j
    <3>1. k \in Nat /\ k >= 1
      OBVIOUS
    <3> QED BY <3>1
  <2> HIDE DEF stream, j, n
  <2>5. j <= n /\ stream[k] = IF k % 2 = 1 THEN Replied[j] ELSE NUL
    BY <2>1, <2>2, <2>4 DEF Carries, j
  <2>6. Replied[j] = Reply(served[j])
    BY <2>2, <2>4, <2>5
  <2> QED BY <2>3, <2>5, <2>6 DEF j
<1> QED BY <1>1, SessionInvariant, PTL

\* After a failed write a session goes on reading and queueing but starts no
\* write and gives the peer nothing more (rpc_server.cpp:75-101).
THEOREM SessionSilentAfterWriteError == Spec => SilentAfterWriteError
<1> DEFINE Silent == phase = "reading" /\ msgs # <<>> /\ writes = <<>>
                       => writes' = <<>> /\ outbound' = outbound
<1>1. SessionInv /\ [Next]_vars => [Silent]_vars
  <2> SUFFICES ASSUME SessionInv, Next, msgs # <<>>, writes = <<>>
               PROVE  writes' = <<>> /\ outbound' = outbound
    OBVIOUS
  <2>1. peerEnd = "reset"
    BY DEF SessionInv, AtWork
  <2>2. \A i \in 1..Len(writes) : FALSE
    BY EmptySeq
  <2>3. CASE OnRead
    BY <2>3 DEF OnRead, ParseJson, WriteResponse, PushBack, StartWrite
  <2>4. CASE Start \/ OnReadError \/ \E n \in 1..Len(inbound) : Receive(n)
    BY <2>4 DEF Start, OnReadError, Receive
  <2>5. CASE Peer
    BY <2>1, <2>5 DEF Peer, PeerSend, PeerFin, PeerReset, PeerRead, ownVars
  <2> QED BY <2>2, <2>3, <2>4, <2>5 DEF Next, Step, Read, Write
<1> QED BY <1>1, SessionInvariant, PTL DEF Spec, SilentAfterWriteError

\* The promise speaks of the texts and answers a session speaks of.
LEMMA PromiseSameTexts ==
  /\ Promise!Frames = Frames
  /\ \A text : Promise!Reply(text) = Reply(text)
<1>1. Promise!Frames = Frames
  BY DEF Frames, Requests, Promise!Frames, Promise!Requests
<1>2. ASSUME NEW text PROVE Promise!Reply(text) = Reply(text)
  BY DEF Reply, Executes, ErrorText, EmptyText,
         Promise!Reply, Promise!Executes, Promise!ErrorText, Promise!EmptyText
<1> QED BY <1>1, <1>2

\* A session keeps the promise of OrderedReplies: the read handler takes a
\* text, the write handler gives the answer of the first text not yet answered,
\* every other step is a stutter (rpc_server.cpp:41-101).
THEOREM SessionRepliesInOrder == Spec => RepliesInOrder
<1>1. PeerInit => Promise!Init
  BY DEF PeerInit, Init, Promise!Init
<1>2. SessionInv /\ [Next]_vars => [Promise!Next]_<<served, answered>>
  <2> SUFFICES ASSUME SessionInv, [Next]_vars
               PROVE  Promise!Next \/ UNCHANGED <<served, answered>>
    OBVIOUS
  <2>0. PeerTypeOK /\ TypeOK /\ WriterOK /\ AnswersOK /\ ServedOK /\ TextsUnderWay
    BY DEF SessionInv, PeerTypeOK
  <2>1. CASE OnRead
    <3>1. NextText(streambuf) \in Promise!Frames
      BY <2>0, <2>1, TakesNext, PromiseSameTexts DEF OnRead
    <3>2. served' = Append(served, NextText(streambuf)) /\ UNCHANGED answered
      BY <2>1 DEF OnRead, ParseJson
    <3> QED BY <3>1, <3>2 DEF Promise!Next, Promise!Take
  <2>2. ASSUME NEW i \in 1..Len(writes), OnWritten(i)
        PROVE  Promise!Next
    <3>1. answered' = Append(answered, msgs[1]) /\ served' = served /\ msgs # <<>>
      BY <2>0, <2>2, WrittenDoes
    <3>2. Len(answered) + 1 <= Len(served) /\ msgs[1] = Replied[Len(answered) + 1]
      BY <2>0, <3>1, InFront
    <3>3. Len(answered) < Len(served) /\ Replied[Len(answered) + 1] = Reply(served[Len(answered) + 1])
      BY <2>0, <3>2, QueueTypes, RepliedType
    <3> QED BY <3>1, <3>2, <3>3, PromiseSameTexts DEF Promise!Next, Promise!Give
  <2>3. CASE Peer
    BY <2>3 DEF Peer, PeerSend, PeerFin, PeerReset, PeerRead, ownVars
  <2>4. CASE Start \/ OnReadError \/ \E n \in 1..Len(inbound) : Receive(n)
    BY <2>4 DEF Start, OnReadError, Receive
  <2>5. CASE \E i \in 1..Len(writes) : Transmit(i) \/ OnWriteError(i)
    BY <2>5 DEF Transmit, OnWriteError
  <2>6. CASE UNCHANGED vars
    BY <2>6 DEF vars, ownVars
  <2> QED BY <2>1, <2>2, <2>3, <2>4, <2>5, <2>6 DEF Next, Step, Read, Write
<1> QED BY <1>1, <1>2, SessionInvariant, PTL DEF Spec, RepliesInOrder, Promise!Spec
=============================================================================
