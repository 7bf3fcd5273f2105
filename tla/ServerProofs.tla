---------------------------- MODULE ServerProofs ----------------------------
(***************************************************************************)
(* What Server's safety properties rest on, for every number of calls of   *)
(* run(), of connections and of descriptors, every interval and whenever   *)
(* the library assigns the accepted socket.                                *)
(***************************************************************************)
EXTENDS Server, SequenceTheorems, FiniteSetTheorems, TLAPS

\* The places in a queue of handlers of those of one kind.
Places(queue, op) == {i \in 1..Len(queue) : queue[i].op = op}

Count(queue, op) == Cardinality(Places(queue, op))

\* The connections accepted whose handler is in a queue.
CarriedBy(queue) == {queue[i].conn : i \in {j \in 1..Len(queue) : queue[j].ec = "success"}}

-----------------------------------------------------------------------------
(* Queues of handlers                                                      *)

LEMMA CountType ==
  ASSUME NEW queue \in Seq(Handlers), NEW op
  PROVE  /\ IsFiniteSet(Places(queue, op))
         /\ Count(queue, op) \in Nat
<1>1. IsFiniteSet(1..Len(queue))
  BY FS_Interval
<1>2. Places(queue, op) \subseteq 1..Len(queue)
  BY DEF Places
<1>3. IsFiniteSet(Places(queue, op))
  BY <1>1, <1>2, FS_Subset
<1> QED BY <1>3, FS_CardinalityType DEF Count

LEMMA CountEmpty == ASSUME NEW op PROVE Count(<<>>, op) = 0
<1>1. Places(<<>>, op) = {}
  BY DEF Places
<1> QED BY <1>1, FS_EmptySet DEF Count

LEMMA CountAppend ==
  ASSUME NEW queue \in Seq(Handlers), NEW h \in Handlers, NEW op
  PROVE  /\ Append(queue, h) \in Seq(Handlers)
         /\ Count(Append(queue, h), op) = Count(queue, op) + IF h.op = op THEN 1 ELSE 0
<1> DEFINE n == Len(queue)
           longer == Append(queue, h)
<1>1. /\ longer \in Seq(Handlers) /\ Len(longer) = n + 1 /\ n \in Nat
      /\ \A i \in 1..n : longer[i] = queue[i]
      /\ longer[n + 1] = h
  OBVIOUS
<1>2. CASE h.op = op
  <2>1. Places(longer, op) = Places(queue, op) \cup {n + 1}
    <3> HIDE DEF n, longer
    <3> QED BY <1>1, <1>2 DEF Places, n
  <2>2. n + 1 \notin Places(queue, op)
    BY <1>1 DEF Places
  <2>3. n + 1 \notin Places(queue, op) /\ IsFiniteSet(Places(queue, op))
    BY <2>2, CountType
  <2> HIDE DEF n, longer
  <2>4. Cardinality(Places(longer, op)) = Cardinality(Places(queue, op)) + 1
    BY <2>1, <2>3, FS_AddElement
  <2>5. Count(longer, op) = Count(queue, op) + 1
    BY <2>4 DEF Count
  <2> QED BY <1>1, <1>2, <2>5 DEF longer
<1>3. CASE h.op # op
  <2>1. Places(longer, op) = Places(queue, op)
    <3> HIDE DEF n, longer
    <3> QED BY <1>1, <1>3 DEF Places, n
  <2> QED BY <1>1, <1>3, <2>1, CountType DEF Count
<1> QED BY <1>2, <1>3

\* Running the first handler takes it away and moves the others up.
LEMMA CountTail ==
  ASSUME NEW queue \in Seq(Handlers), queue # <<>>, NEW op
  PROVE  /\ Tail(queue) \in Seq(Handlers)
         /\ Head(queue) \in Handlers
         /\ Count(queue, op) = Count(Tail(queue), op) + IF Head(queue).op = op THEN 1 ELSE 0
<1> DEFINE n == Len(queue)
           rest == Tail(queue)
           later == Places(queue, op) \ {1}
           up == [i \in later |-> i - 1]
<1>1. /\ rest \in Seq(Handlers) /\ n \in Nat /\ n >= 1 /\ Len(rest) = n - 1
      /\ \A i \in 1..(n - 1) : rest[i] = queue[i + 1]
      /\ Head(queue) = queue[1] /\ queue[1] \in Handlers
  BY HeadTailProperties
<1>2. IsFiniteSet(later)
  BY CountType, FS_RemoveElement
<1>3. up \in Bijection(later, Places(rest, op))
  <2> HIDE DEF n, rest
  <2>1. \A i \in later : i - 1 \in Places(rest, op)
    BY <1>1 DEF Places, n
  <2>2. \A i, j \in later : i - 1 = j - 1 => i = j
    BY <1>1 DEF Places, n
  <2>3. \A j \in Places(rest, op) : j + 1 \in later /\ (j + 1) - 1 = j
    BY <1>1 DEF Places, n
  <2> HIDE DEF later
  <2>4. up \in [later -> Places(rest, op)] /\ \A i \in later : up[i] = i - 1
    BY <2>1
  <2>5. up \in Injection(later, Places(rest, op))
    BY <2>2, <2>4 DEF Injection, IsInjective
  <2>6. up \in Surjection(later, Places(rest, op))
    BY <2>3, <2>4 DEF Surjection
  <2> QED BY <2>5, <2>6 DEF Bijection
<1>4. Cardinality(later) = Count(rest, op)
  BY <1>2, <1>3, FS_Bijection DEF ExistsBijection, Count
<1>5. 1 \in Places(queue, op) <=> Head(queue).op = op
  BY <1>1 DEF Places
<1>6. Cardinality(later) = IF 1 \in Places(queue, op) THEN Count(queue, op) - 1 ELSE Count(queue, op)
  BY CountType, FS_RemoveElement DEF Count
<1>7. Count(queue, op) \in Nat /\ Count(rest, op) \in Nat
  BY <1>1, CountType
<1> HIDE DEF later, rest, n
<1> QED BY <1>1, <1>4, <1>5, <1>6, <1>7 DEF rest

\* n handlers that are all the same.
Copies(h, n) == [i \in 1..n |-> h]

LEMMA SameHandlers ==
  ASSUME NEW n \in Nat, NEW h \in Handlers
  PROVE  /\ Copies(h, n) \in Seq(Handlers)
         /\ Len(Copies(h, n)) = n
<1> DEFINE same == [i \in 1..n |-> h]
<1>1. same \in [1..n -> Handlers]
  OBVIOUS
<1>2. same \in Seq(Handlers)
  BY <1>1, SeqDef
<1>3. Len(same) \in Nat /\ DOMAIN same = 1..Len(same)
  BY <1>2, LenProperties
<1>4. 1..Len(same) = 1..n
  BY <1>1, <1>3
<1> QED BY <1>2, <1>3, <1>4 DEF Copies

LEMMA CountSame ==
  ASSUME NEW queue \in Seq(Handlers), NEW n \in Nat, NEW h \in Handlers, NEW op
  PROVE  /\ queue \o Copies(h, n) \in Seq(Handlers)
         /\ Count(queue \o Copies(h, n), op) = Count(queue, op) + IF h.op = op THEN n ELSE 0
<1> DEFINE l == Len(queue)
           same == Copies(h, n)
           longer == queue \o same
<1>1. same \in Seq(Handlers) /\ Len(same) = n /\ l \in Nat
  BY SameHandlers
<1>0. \A i \in 1..n : same[i] = h
  BY DEF Copies
<1>2. /\ longer \in Seq(Handlers) /\ Len(longer) = l + n
      /\ \A i \in 1..l : longer[i] = queue[i]
      /\ \A i \in (l + 1)..(l + n) : longer[i] = h
  <2>1. \A i \in 1..(l + n) : longer[i] = IF i <= l THEN queue[i] ELSE same[i - l]
    BY <1>1, ConcatProperties
  <2>2. longer \in Seq(Handlers) /\ Len(longer) = l + n
    BY <1>1, ConcatProperties
  <2>3. \A i \in (l + 1)..(l + n) : i - l \in 1..n
    BY <1>1
  <2> HIDE DEF l, same, longer
  <2> QED BY <1>1, <1>0, <2>1, <2>2, <2>3
<1> HIDE DEF l, same, longer
<1>3. Places(queue, op) = {i \in 1..l : longer[i].op = op}
  BY <1>2 DEF Places, l
<1>4. CASE h.op = op
  <2>1. Places(longer, op) = Places(queue, op) \cup ((l + 1)..(l + n))
    BY <1>1, <1>2, <1>3, <1>4 DEF Places
  <2>2. Places(queue, op) \cap ((l + 1)..(l + n)) = {}
    BY <1>1, <1>3
  <2>3. IsFiniteSet((l + 1)..(l + n)) /\ Cardinality((l + 1)..(l + n)) = n
    <3>1. l + 1 \in Int /\ l + n \in Int /\ (l + n) - (l + 1) + 1 = n /\ (l + 1 > l + n => n = 0)
      BY <1>1
    <3>2. /\ IsFiniteSet((l + 1)..(l + n))
          /\ Cardinality((l + 1)..(l + n)) = IF l + 1 > l + n THEN 0 ELSE (l + n) - (l + 1) + 1
      BY <3>1, FS_Interval
    <3> QED BY <3>1, <3>2
  <2>4. Count(longer, op) = Count(queue, op) + n - Cardinality({})
    BY <2>1, <2>2, <2>3, CountType, FS_Union DEF Count
  <2> QED BY <1>2, <1>4, <2>4, FS_EmptySet, CountType DEF longer, same
<1>5. CASE h.op # op
  <2>1. Places(longer, op) = Places(queue, op)
    BY <1>1, <1>2, <1>3, <1>5 DEF Places
  <2> QED BY <1>2, <1>5, <2>1, CountType DEF Count, longer, same
<1> QED BY <1>4, <1>5

\* The handlers of accepted connections are queued in the order of their arrival.
Ascending(queue) ==
    \A i, j \in 1..Len(queue) :
        i < j /\ queue[i].ec = "success" /\ queue[j].ec = "success" => queue[i].conn < queue[j].conn

LEMMA HandlerTypes ==
  /\ TimerHandler \in Handlers
  /\ TimerHandler.op = "timer" /\ TimerHandler.ec = "any"
  /\ \A ec \in {"no_descriptors", "already_open", "aborted"} :
       /\ AcceptHandler(ec, None) \in Handlers
       /\ AcceptHandler(ec, None).op = "accept" /\ AcceptHandler(ec, None).ec = ec
  /\ \A c \in 1..MaxConns :
       /\ AcceptHandler("success", c) \in Handlers
       /\ AcceptHandler("success", c).op = "accept" /\ AcceptHandler("success", c).ec = "success"
       /\ AcceptHandler("success", c).conn = c
  /\ \A h \in Handlers :
       /\ h.op \in {"accept", "timer"}
       /\ h.ec = "success" => h.op = "accept" /\ h.conn \in 1..MaxConns
<1>1. /\ TimerHandler \in Handlers
      /\ TimerHandler.op = "timer" /\ TimerHandler.ec = "any"
  BY DEF Handlers, TimerHandler
<1>2. \A ec, c : /\ AcceptHandler(ec, c).op = "accept"
                /\ AcceptHandler(ec, c).ec = ec
                /\ AcceptHandler(ec, c).conn = c
  BY DEF AcceptHandler
<1>3. /\ \A ec \in {"no_descriptors", "already_open", "aborted"} : AcceptHandler(ec, None) \in Handlers
      /\ \A c \in 1..MaxConns : AcceptHandler("success", c) \in Handlers
  BY DEF Handlers
<1>4. ASSUME NEW h \in Handlers
      PROVE  /\ h.op \in {"accept", "timer"}
             /\ h.ec = "success" => h.op = "accept" /\ h.conn \in 1..MaxConns
  <2>1. CASE h = TimerHandler
    BY <1>1, <2>1
  <2>2. CASE h \in {AcceptHandler("success", c) : c \in 1..MaxConns}
    BY <1>2, <2>2
  <2>3. CASE h \in {AcceptHandler(ec, None) : ec \in {"no_descriptors", "already_open", "aborted"}}
    <3>1. PICK ec \in {"no_descriptors", "already_open", "aborted"} : h = AcceptHandler(ec, None)
      BY <2>3
    <3>2. h.op = "accept" /\ h.ec = ec
      BY <1>2, <3>1
    <3> QED BY <3>2
  <2> QED BY <2>1, <2>2, <2>3 DEF Handlers
<1> QED BY <1>1, <1>2, <1>3, <1>4

LEMMA CarriedType ==
  ASSUME NEW queue \in Seq(Handlers)
  PROVE  CarriedBy(queue) \subseteq 1..MaxConns
<1>1. \A i \in 1..Len(queue) : queue[i] \in Handlers
  OBVIOUS
<1> QED BY <1>1, HandlerTypes DEF CarriedBy

LEMMA CarriedEmpty == CarriedBy(<<>>) = {} /\ Ascending(<<>>)
  BY DEF CarriedBy, Ascending

LEMMA CarriedAppend ==
  ASSUME NEW queue \in Seq(Handlers), NEW h \in Handlers
  PROVE  /\ CarriedBy(Append(queue, h))
              = CarriedBy(queue) \cup (IF h.ec = "success" THEN {h.conn} ELSE {})
         /\ Ascending(queue) /\ (h.ec = "success" => \A c \in CarriedBy(queue) : c < h.conn)
              => Ascending(Append(queue, h))
<1> DEFINE n == Len(queue)
           longer == Append(queue, h)
<1>1. /\ Len(longer) = n + 1 /\ n \in Nat
      /\ \A i \in 1..n : longer[i] = queue[i]
      /\ longer[n + 1] = h
  OBVIOUS
<1> HIDE DEF n, longer
<1>2. CarriedBy(longer) = CarriedBy(queue) \cup (IF h.ec = "success" THEN {h.conn} ELSE {})
  <2>1. \A i \in 1..(n + 1) : i \in 1..n \/ i = n + 1
    BY <1>1
  <2>2. \A i \in 1..n : i \in 1..(n + 1)
    BY <1>1
  <2>3. n + 1 \in 1..(n + 1)
    BY <1>1
  <2>4. CarriedBy(longer) \subseteq CarriedBy(queue) \cup (IF h.ec = "success" THEN {h.conn} ELSE {})
    BY <1>1, <2>1 DEF CarriedBy, n
  <2>5. CarriedBy(queue) \subseteq CarriedBy(longer)
    BY <1>1, <2>2 DEF CarriedBy, n
  <2>6. h.ec = "success" => h.conn \in CarriedBy(longer)
    BY <1>1, <2>3 DEF CarriedBy
  <2> QED BY <2>4, <2>5, <2>6
<1>3. ASSUME Ascending(queue), h.ec = "success" => \A c \in CarriedBy(queue) : c < h.conn
      PROVE  Ascending(longer)
  <2>1. \A i, j \in 1..(n + 1) : i < j => i \in 1..n /\ (j \in 1..n \/ j = n + 1)
    BY <1>1
  <2>2. \A i \in 1..n : queue[i].ec = "success" => queue[i].conn \in CarriedBy(queue)
    BY DEF CarriedBy, n
  <2> QED BY <1>1, <1>3, <2>1, <2>2 DEF Ascending, n
<1> QED BY <1>2, <1>3 DEF longer

LEMMA CarriedTail ==
  ASSUME NEW queue \in Seq(Handlers), queue # <<>>
  PROVE  /\ CarriedBy(queue)
              = CarriedBy(Tail(queue)) \cup (IF Head(queue).ec = "success" THEN {Head(queue).conn} ELSE {})
         /\ Ascending(queue) =>
              /\ Ascending(Tail(queue))
              /\ Head(queue).ec = "success" => \A c \in CarriedBy(Tail(queue)) : Head(queue).conn < c
<1> DEFINE n == Len(queue)
           rest == Tail(queue)
           h == Head(queue)
<1>1. /\ n \in Nat /\ n >= 1 /\ Len(rest) = n - 1
      /\ \A i \in 1..(n - 1) : rest[i] = queue[i + 1]
      /\ h = queue[1]
  BY HeadTailProperties
<1> HIDE DEF n, rest, h
<1>2. \A i \in 1..n : i = 1 \/ (i - 1 \in 1..(n - 1) /\ (i - 1) + 1 = i)
  BY <1>1
<1>3. \A i \in 1..(n - 1) : i + 1 \in 1..n /\ 1 < i + 1
  BY <1>1
<1>4. CarriedBy(queue) \subseteq CarriedBy(rest) \cup (IF h.ec = "success" THEN {h.conn} ELSE {})
  <2> SUFFICES ASSUME NEW i \in 1..n, queue[i].ec = "success"
               PROVE  queue[i].conn \in CarriedBy(rest) \cup (IF h.ec = "success" THEN {h.conn} ELSE {})
    BY DEF CarriedBy, n
  <2>1. CASE i = 1
    BY <1>1, <2>1
  <2>2. CASE i # 1
    <3>1. i - 1 \in 1..Len(rest) /\ rest[i - 1] = queue[i]
      BY <1>1, <1>2, <2>2
    <3> QED BY <3>1 DEF CarriedBy
  <2> QED BY <2>1, <2>2
<1>5. CarriedBy(rest) \subseteq CarriedBy(queue)
  BY <1>1, <1>3 DEF CarriedBy, n
<1>6. 1 \in 1..n
  BY <1>1
<1>7. h.ec = "success" => h.conn \in CarriedBy(queue)
  BY <1>1, <1>6 DEF CarriedBy, n
<1>8. ASSUME Ascending(queue) PROVE Ascending(rest)
  <2>1. \A i, j \in 1..(n - 1) : i < j => i + 1 < j + 1
    BY <1>1
  <2> QED BY <1>1, <1>3, <1>8, <2>1 DEF Ascending, n
<1>9. ASSUME Ascending(queue), h.ec = "success"
      PROVE  \A c \in CarriedBy(rest) : h.conn < c
  BY <1>1, <1>3, <1>6, <1>9 DEF Ascending, CarriedBy, n
<1> QED BY <1>4, <1>5, <1>7, <1>8, <1>9 DEF rest, h

LEMMA CarriedSame ==
  ASSUME NEW queue \in Seq(Handlers), NEW n \in Nat, NEW h \in Handlers, h.ec # "success"
  PROVE  /\ CarriedBy(queue \o Copies(h, n)) = CarriedBy(queue)
         /\ Ascending(queue) => Ascending(queue \o Copies(h, n))
<1> DEFINE l == Len(queue)
           same == Copies(h, n)
           longer == queue \o same
<1>1. same \in Seq(Handlers) /\ Len(same) = n /\ l \in Nat
  BY SameHandlers
<1>0. \A i \in 1..n : same[i] = h
  BY DEF Copies
<1>2. /\ Len(longer) = l + n
      /\ \A i \in 1..(l + n) : longer[i] = IF i <= l THEN queue[i] ELSE same[i - l]
  BY <1>1, ConcatProperties
<1>3. \A i \in 1..(l + n) : i \in 1..l \/ (~(i <= l) /\ i - l \in 1..n)
  BY <1>1
<1>4. \A i \in 1..l : i \in 1..(l + n) /\ i <= l
  BY <1>1
<1>5. \A i \in 1..n : same[i] = h
  BY DEF Copies
<1> HIDE DEF l, same, longer
<1>6. \A i \in 1..(l + n) : longer[i].ec = "success" => i \in 1..l /\ longer[i] = queue[i]
  BY <1>2, <1>3, <1>4, <1>5
<1>7. \A i \in 1..l : i \in 1..(l + n) /\ longer[i] = queue[i]
  BY <1>2, <1>4
<1>8. CarriedBy(longer) = CarriedBy(queue)
  BY <1>2, <1>6, <1>7 DEF CarriedBy, l
<1>9. Ascending(queue) => Ascending(longer)
  BY <1>2, <1>6 DEF Ascending, l
<1> QED BY <1>8, <1>9 DEF longer, same

-----------------------------------------------------------------------------
(* The inductive invariant                                                 *)

\* No more connections have a descriptor than there are, whether their handler
\* has run or not.
DescriptorsKept == Cardinality(sessions \cup Carried) <= Files

\* m_socket is in use only between an accept and the run of its handler.
SocketInUse == Alive /\ socket # None => early /\ socket \in Carried

\* Before run() the timer stands where the constructor set it.
NotRun == runs = 0 => fired = 0 /\ expiry = Interval

ServerInv ==
    /\ TypeOK
    /\ DescriptorsKept
    /\ ChainsKept
    /\ SocketInUse
    /\ NoneTurnedAway
    /\ NotRun
    /\ TimerOnSchedule

LEMMA Bounds ==
  /\ MaxRuns \in Nat /\ MaxRuns >= 1 /\ MaxConns \in Nat /\ MaxConns >= 1
  /\ Files \in Nat /\ Files >= 1 /\ Interval \in Nat /\ Interval >= 1 /\ MaxNow \in Nat /\ MaxNow >= 1
  /\ MaxExpiry \in Nat /\ MaxExpiry = MaxNow + 2 * Interval
  /\ None \notin 1..MaxConns
<1>1. \A n \in Nat \ {0} : n \in Nat /\ n >= 1
  OBVIOUS
<1>2. /\ MaxRuns \in Nat /\ MaxRuns >= 1 /\ MaxConns \in Nat /\ MaxConns >= 1
      /\ Files \in Nat /\ Files >= 1 /\ Interval \in Nat /\ Interval >= 1 /\ MaxNow \in Nat /\ MaxNow >= 1
      /\ None \notin 1..MaxConns
  BY <1>1, ServerAssumption
<1> QED BY <1>2 DEF MaxExpiry

LEMMA Connections ==
  /\ \A S : S \subseteq 1..MaxConns => IsFiniteSet(S) /\ Cardinality(S) \in Nat
  /\ \A q \in Seq(1..MaxConns), c \in 1..MaxConns : Append(q, c) \in Seq(1..MaxConns)
<1>1. IsFiniteSet(1..MaxConns)
  BY Bounds, FS_Interval
<1>2. \A S : S \subseteq 1..MaxConns => IsFiniteSet(S)
  BY <1>1, FS_Subset
<1>3. \A S : S \subseteq 1..MaxConns => IsFiniteSet(S) /\ Cardinality(S) \in Nat
  BY <1>2, FS_CardinalityType
<1> DEFINE conns == 1..MaxConns
<1> HIDE DEF conns
<1>4. \A q \in Seq(conns), c \in conns : Append(q, c) \in Seq(conns)
  OBVIOUS
<1> QED BY <1>3, <1>4 DEF conns

LEMMA StateTypes ==
  ASSUME TypeOK
  PROVE  /\ ready \in Seq(Handlers) /\ backlog \in Seq(1..MaxConns) /\ served \in Seq(1..MaxConns)
         /\ runs \in Nat /\ accepts \in Nat /\ waits \in Nat /\ fired \in Nat /\ expiry \in Nat /\ now \in Nat
         /\ sessions \subseteq 1..MaxConns /\ Carried \subseteq 1..MaxConns
         /\ Carried = CarriedBy(ready)
         /\ \A op : Queued(op) = Count(ready, op) /\ Count(ready, op) \in Nat
<1>1. \A op : Count(ready, op) \in Nat
  BY CountType DEF TypeOK
<1>2. \A op : Queued(op) = Count(ready, op)
  BY DEF Queued, Count, Places
<1>3. Carried = CarriedBy(ready)
  BY DEF Carried, CarriedBy
<1>4. Carried \subseteq 1..MaxConns
  BY <1>3, CarriedType DEF TypeOK
<1> QED BY <1>1, <1>2, <1>3, <1>4, Bounds DEF TypeOK

-----------------------------------------------------------------------------
(* What the operations of the acceptor and the timer do to the queue       *)

\* accept() adds one to the accepts at work, and nobody's connection.
LEMMA AsyncAcceptDoes ==
  ASSUME NEW queue \in Seq(Handlers), NEW peer, accepts \in Nat, AsyncAccept(queue, peer)
  PROVE  /\ ready' \in Seq(Handlers) /\ accepts' \in Nat /\ socket' = peer
         /\ accepts' + Count(ready', "accept") = accepts + Count(queue, "accept") + 1
         /\ Count(ready', "timer") = Count(queue, "timer")
         /\ CarriedBy(ready') = CarriedBy(queue)
         /\ Ascending(queue) => Ascending(ready')
<1> DEFINE h == AcceptHandler("already_open", None)
<1>1. h \in Handlers /\ h.op = "accept" /\ h.ec = "already_open"
  BY HandlerTypes
<1>2. CASE peer = None
  <2>1. ready' = queue /\ accepts' = accepts + 1 /\ socket' = peer
    BY <1>2 DEF AsyncAccept
  <2> QED BY <2>1, CountType
<1>3. CASE peer # None
  <2>1. ready' = Append(queue, h) /\ accepts' = accepts /\ socket' = peer
    BY <1>3 DEF AsyncAccept
  <2> HIDE DEF h
  <2>2. /\ ready' \in Seq(Handlers)
        /\ Count(ready', "accept") = Count(queue, "accept") + 1
        /\ Count(ready', "timer") = Count(queue, "timer") + 0
    BY <1>1, <2>1, CountAppend
  <2>3. CarriedBy(ready') = CarriedBy(queue) \cup {} /\ (Ascending(queue) => Ascending(ready'))
    BY <1>1, <2>1, CarriedAppend
  <2> QED BY <2>1, <2>2, <2>3, CountType
<1> QED BY <1>2, <1>3

\* expires_at makes the handlers of the waits outstanding ready, and one wait is
\* made in their place.
LEMMA TimerEventDoes ==
  ASSUME NEW queue \in Seq(Handlers), waits \in Nat, expiry \in Nat, TimerEvent(queue)
  PROVE  /\ ready' \in Seq(Handlers) /\ waits' = 1 /\ expiry' \in 0..MaxExpiry
         /\ Count(ready', "timer") = Count(queue, "timer") + waits
         /\ Count(ready', "accept") = Count(queue, "accept")
         /\ CarriedBy(ready') = CarriedBy(queue)
         /\ Ascending(queue) => Ascending(ready')
<1>1. ready' = queue \o Copies(TimerHandler, waits) /\ waits' = 1
  BY DEF TimerEvent, WaitAgain, Copies
<1>2. expiry' \in 0..MaxExpiry
  BY Bounds DEF TimerEvent, NextExpiry
<1>3. TimerHandler \in Handlers /\ TimerHandler.op = "timer" /\ TimerHandler.ec # "success"
  BY HandlerTypes
<1>4. /\ ready' \in Seq(Handlers)
      /\ Count(ready', "timer") = Count(queue, "timer") + waits
      /\ Count(ready', "accept") = Count(queue, "accept")
  <2> DEFINE longer == queue \o Copies(TimerHandler, waits)
  <2>1. /\ longer \in Seq(Handlers)
        /\ Count(longer, "timer") = Count(queue, "timer") + IF TimerHandler.op = "timer" THEN waits ELSE 0
    BY <1>3, CountSame
  <2>5. Count(longer, "accept") = Count(queue, "accept") + IF TimerHandler.op = "accept" THEN waits ELSE 0
    BY <1>3, CountSame
  <2>2. Count(queue, "accept") \in Nat
    BY CountType
  <2> HIDE DEF longer
  <2>3. Count(longer, "timer") = Count(queue, "timer") + waits
    BY <1>3, <2>1
  <2>4. Count(longer, "accept") = Count(queue, "accept")
    BY <1>3, <2>5, <2>2
  <2> QED BY <1>1, <2>1, <2>3, <2>4 DEF longer
<1>5. CarriedBy(ready') = CarriedBy(queue) /\ (Ascending(queue) => Ascending(ready'))
  BY <1>1, <1>3, CarriedSame
<1> QED BY <1>1, <1>2, <1>4, <1>5, CountType

\* The destructor leaves nothing at work.
LEMMA DestroyDoes ==
  ASSUME TypeOK, Destroy
  PROVE  /\ ready' \in Seq(Handlers) /\ CarriedBy(ready') = CarriedBy(ready)
         /\ accepts' = 0 /\ waits' = 0 /\ socket' = None /\ backlog' = <<>>
         /\ refused' \subseteq 1..MaxConns
<1> DEFINE h == AcceptHandler("aborted", None)
           first == ready \o Copies(TimerHandler, waits)
<1>1. /\ TimerHandler \in Handlers /\ TimerHandler.ec # "success"
      /\ h \in Handlers /\ h.ec # "success"
  BY HandlerTypes
<1>2. first \in Seq(Handlers) /\ CarriedBy(first) = CarriedBy(ready)
  BY <1>1, StateTypes, CountSame, CarriedSame
<1>3. ready' = first \o Copies(h, accepts)
  BY DEF Destroy, Copies
<1> HIDE DEF first, h
<1>4. ready' \in Seq(Handlers) /\ CarriedBy(ready') = CarriedBy(first)
  BY <1>1, <1>2, <1>3, StateTypes, CountSame, CarriedSame
<1>5. ToSet(backlog) \subseteq 1..MaxConns
  <2>1. backlog \in Seq(1..MaxConns) /\ DOMAIN backlog = 1..Len(backlog)
    BY StateTypes
  <2>2. \A i \in 1..Len(backlog) : backlog[i] \in 1..MaxConns
    BY <2>1, ElementOfSeq
  <2> QED BY <2>1, <2>2 DEF ToSet
<1>6. refused' \subseteq 1..MaxConns
  BY <1>5 DEF Destroy, TypeOK
<1> QED BY <1>2, <1>4, <1>6 DEF Destroy

\* The handler of an accept is followed by another accept.
LEMMA OnAcceptDoes ==
  ASSUME TypeOK, OnAccept
  PROVE  /\ ready' \in Seq(Handlers) /\ accepts' \in Nat
         /\ accepts' + Count(ready', "accept") = accepts + Count(ready, "accept")
         /\ Count(ready', "timer") = Count(ready, "timer")
         /\ Head(ready) \in Handlers
         /\ CarriedBy(ready') = CarriedBy(Tail(ready))
         /\ Ascending(ready) => Ascending(ready')
<1> DEFINE rest == Tail(ready)
           peer == IF Head(ready).ec = "success" THEN None ELSE socket
<1>1. ready \in Seq(Handlers) /\ ready # <<>> /\ Head(ready).op = "accept" /\ accepts \in Nat
  BY StateTypes DEF OnAccept
<1>2. /\ rest \in Seq(Handlers) /\ Head(ready) \in Handlers
      /\ Count(ready, "accept") = Count(rest, "accept") + 1
      /\ Count(ready, "timer") = Count(rest, "timer") + 0
  BY <1>1, CountTail
<1>3. Ascending(ready) => Ascending(rest)
  BY <1>1, CarriedTail
<1>4. AsyncAccept(rest, peer)
  BY DEF OnAccept, AcceptAgain
<1> HIDE DEF rest, peer
<1>5. /\ ready' \in Seq(Handlers) /\ accepts' \in Nat
      /\ accepts' + Count(ready', "accept") = accepts + Count(rest, "accept") + 1
      /\ Count(ready', "timer") = Count(rest, "timer")
      /\ CarriedBy(ready') = CarriedBy(rest)
      /\ Ascending(rest) => Ascending(ready')
  BY <1>1, <1>2, <1>4, AsyncAcceptDoes
<1>6. /\ Count(ready, "accept") \in Nat /\ Count(rest, "accept") \in Nat
      /\ Count(ready', "accept") \in Nat /\ Count(rest, "timer") \in Nat
  BY <1>1, <1>2, <1>5, CountType
<1>7. accepts' + Count(ready', "accept") = accepts + Count(ready, "accept")
  BY <1>1, <1>2, <1>5, <1>6
<1>8. Count(ready', "timer") = Count(ready, "timer")
  BY <1>2, <1>5, <1>6
<1> QED BY <1>2, <1>3, <1>5, <1>7, <1>8 DEF rest

\* The timer's handler takes its place again when its wait ends.
LEMMA OnTimerDoes ==
  ASSUME TypeOK, OnTimer
  PROVE  /\ ready' \in Seq(Handlers) /\ waits' = 1 /\ expiry' \in 0..MaxExpiry
         /\ 1 + Count(ready', "timer") = waits + Count(ready, "timer")
         /\ Count(ready', "accept") = Count(ready, "accept")
         /\ CarriedBy(ready') = CarriedBy(ready)
         /\ Ascending(ready) => Ascending(ready')
<1> DEFINE rest == Tail(ready)
<1>1. /\ ready \in Seq(Handlers) /\ ready # <<>> /\ Head(ready).op = "timer"
      /\ waits \in Nat /\ expiry \in Nat
  BY StateTypes DEF OnTimer
<1>2. /\ rest \in Seq(Handlers) /\ Head(ready) \in Handlers
      /\ Count(ready, "timer") = Count(rest, "timer") + 1
      /\ Count(ready, "accept") = Count(rest, "accept") + 0
  BY <1>1, CountTail
<1>3. Head(ready).ec # "success"
  BY <1>1, <1>2, HandlerTypes
<1>4. CarriedBy(ready) = CarriedBy(rest) \cup {} /\ (Ascending(ready) => Ascending(rest))
  BY <1>1, <1>3, CarriedTail
<1>5. TimerEvent(rest)
  BY DEF OnTimer
<1> HIDE DEF rest
<1>6. /\ ready' \in Seq(Handlers) /\ waits' = 1 /\ expiry' \in 0..MaxExpiry
      /\ Count(ready', "timer") = Count(rest, "timer") + waits
      /\ Count(ready', "accept") = Count(rest, "accept")
      /\ CarriedBy(ready') = CarriedBy(rest)
      /\ Ascending(rest) => Ascending(ready')
  BY <1>1, <1>2, <1>5, TimerEventDoes
<1> QED BY <1>1, <1>2, <1>4, <1>6, CountType

\* run() sets one accept and one wait to work.
LEMMA RunDoes ==
  ASSUME TypeOK, Run
  PROVE  /\ ready' \in Seq(Handlers) /\ accepts' \in Nat /\ waits' = 1 /\ expiry' \in 0..MaxExpiry
         /\ accepts' + Count(ready', "accept") = accepts + Count(ready, "accept") + 1
         /\ 1 + Count(ready', "timer") = waits + Count(ready, "timer") + 1
         /\ CarriedBy(ready') = CarriedBy(ready)
         /\ Ascending(ready) => Ascending(ready')
<1> DEFINE h == AcceptHandler("already_open", None)
           queue == IF socket = None THEN ready ELSE Append(ready, h)
<1>1. h \in Handlers /\ h.op = "accept" /\ h.ec # "success"
  BY HandlerTypes
<1>2. ready \in Seq(Handlers) /\ accepts \in Nat /\ waits \in Nat /\ expiry \in Nat
  BY StateTypes
<1>3. TimerEvent(queue) /\ accepts' = IF socket = None THEN accepts + 1 ELSE accepts
  BY DEF Run
<1> HIDE DEF h
<1>4. /\ queue \in Seq(Handlers)
      /\ Count(queue, "timer") = Count(ready, "timer") + 0
      /\ Count(queue, "accept") = Count(ready, "accept") + IF socket = None THEN 0 ELSE 1
      /\ CarriedBy(queue) = CarriedBy(ready) \cup {}
      /\ Ascending(ready) => Ascending(queue)
  <2>1. CASE socket = None
    BY <1>2, <2>1, CountType
  <2>2. CASE socket # None
    <3>1. /\ Append(ready, h) \in Seq(Handlers)
          /\ Count(Append(ready, h), "timer") = Count(ready, "timer") + 0
          /\ Count(Append(ready, h), "accept") = Count(ready, "accept") + 1
      BY <1>1, <1>2, CountAppend
    <3>2. CarriedBy(Append(ready, h)) = CarriedBy(ready) \cup {} /\ (Ascending(ready) => Ascending(Append(ready, h)))
      BY <1>1, <1>2, CarriedAppend
    <3> QED BY <2>2, <3>1, <3>2
  <2> QED BY <2>1, <2>2
<1> HIDE DEF queue
<1>5. /\ ready' \in Seq(Handlers) /\ waits' = 1 /\ expiry' \in 0..MaxExpiry
      /\ Count(ready', "timer") = Count(queue, "timer") + waits
      /\ Count(ready', "accept") = Count(queue, "accept")
      /\ CarriedBy(ready') = CarriedBy(queue)
      /\ Ascending(queue) => Ascending(ready')
  BY <1>2, <1>3, <1>4, TimerEventDoes
<1>6. /\ Count(ready, "accept") \in Nat /\ Count(ready, "timer") \in Nat
      /\ Count(queue, "accept") \in Nat /\ Count(queue, "timer") \in Nat
  BY <1>2, <1>4, CountType
<1>7. accepts' \in Nat /\ accepts' + Count(ready', "accept") = accepts + Count(ready, "accept") + 1
  BY <1>2, <1>3, <1>4, <1>5, <1>6
<1>8. 1 + Count(ready', "timer") = waits + Count(ready, "timer") + 1
  BY <1>2, <1>4, <1>5, <1>6
<1> QED BY <1>4, <1>5, <1>7, <1>8

\* accept(2) turns an accept at work into its handler.
LEMMA AcceptDoes ==
  ASSUME TypeOK, Accept
  PROVE  /\ ready' \in Seq(Handlers) /\ accepts' \in Nat
         /\ backlog # <<>> /\ Head(backlog) \in 1..MaxConns
         /\ accepts' + Count(ready', "accept") = accepts + Count(ready, "accept")
         /\ Count(ready', "timer") = Count(ready, "timer")
         /\ CarriedBy(ready')
              = CarriedBy(ready) \cup (IF DescriptorLeft /\ socket = None THEN {Head(backlog)} ELSE {})
         /\ Ascending(ready) /\ (\A c \in CarriedBy(ready) : c < Head(backlog)) => Ascending(ready')
<1>1. /\ ready \in Seq(Handlers) /\ accepts \in Nat /\ accepts' = accepts - 1 /\ accepts' \in Nat
      /\ backlog # <<>> /\ Head(backlog) \in 1..MaxConns
  <2>1. /\ ready \in Seq(Handlers) /\ accepts \in Nat /\ accepts > 0 /\ accepts' = accepts - 1
        /\ backlog \in Seq(1..MaxConns) /\ backlog # <<>>
    BY StateTypes DEF Accept
  <2>2. Head(backlog) \in 1..MaxConns
    <3> DEFINE conns == 1..MaxConns
    <3>1. backlog \in Seq(conns) /\ backlog # <<>>
      BY <2>1
    <3> HIDE DEF conns
    <3>2. Head(backlog) \in conns
      BY <3>1, HeadTailProperties
    <3> QED BY <3>2 DEF conns
  <2> QED BY <2>1, <2>2
<1>2. PICK h \in Handlers :
        /\ ready' = Append(ready, h)
        /\ h.op = "accept"
        /\ IF DescriptorLeft /\ socket = None
           THEN h.ec = "success" /\ h.conn = Head(backlog)
           ELSE h.ec # "success"
  <2>1. CASE ~DescriptorLeft
    BY <2>1, HandlerTypes DEF Accept
  <2>2. CASE DescriptorLeft /\ socket = None
    BY <1>1, <2>2, HandlerTypes DEF Accept
  <2>3. CASE DescriptorLeft /\ socket # None
    BY <2>3, HandlerTypes DEF Accept
  <2> QED BY <2>1, <2>2, <2>3
<1>3. /\ ready' \in Seq(Handlers)
      /\ Count(ready', "accept") = Count(ready, "accept") + 1
      /\ Count(ready', "timer") = Count(ready, "timer") + 0
  BY <1>1, <1>2, CountAppend
<1>4. /\ CarriedBy(ready') = CarriedBy(ready) \cup (IF h.ec = "success" THEN {h.conn} ELSE {})
      /\ Ascending(ready) /\ (h.ec = "success" => \A c \in CarriedBy(ready) : c < h.conn)
           => Ascending(ready')
  BY <1>1, <1>2, CarriedAppend
<1>5. Count(ready, "accept") \in Nat /\ Count(ready, "timer") \in Nat
  BY <1>1, CountType
<1>6. accepts' + Count(ready', "accept") = accepts + Count(ready, "accept")
  BY <1>1, <1>3, <1>5
<1>7. Count(ready', "timer") = Count(ready, "timer")
  BY <1>3, <1>5
<1>8. CarriedBy(ready')
        = CarriedBy(ready) \cup (IF DescriptorLeft /\ socket = None THEN {Head(backlog)} ELSE {})
  BY <1>2, <1>4
<1>9. Ascending(ready) /\ (\A c \in CarriedBy(ready) : c < Head(backlog)) => Ascending(ready')
  BY <1>2, <1>4
<1> QED BY <1>1, <1>3, <1>6, <1>7, <1>8, <1>9

\* An expiry turns the waits outstanding into their handlers.
LEMMA ExpireDoes ==
  ASSUME TypeOK, Expire
  PROVE  /\ ready' \in Seq(Handlers) /\ waits' = 0
         /\ Count(ready', "timer") = waits + Count(ready, "timer")
         /\ Count(ready', "accept") = Count(ready, "accept")
         /\ CarriedBy(ready') = CarriedBy(ready)
         /\ Ascending(ready) => Ascending(ready')
<1>1. TimerHandler \in Handlers /\ TimerHandler.op = "timer" /\ TimerHandler.ec # "success"
  BY HandlerTypes
<1>2. ready \in Seq(Handlers) /\ waits \in Nat
  BY StateTypes
<1>3. ready' = ready \o Copies(TimerHandler, waits) /\ waits' = 0
  BY DEF Expire, Copies
<1> DEFINE longer == ready \o Copies(TimerHandler, waits)
<1>4. /\ longer \in Seq(Handlers)
      /\ Count(longer, "timer") = Count(ready, "timer") + IF TimerHandler.op = "timer" THEN waits ELSE 0
  BY <1>1, <1>2, CountSame
<1>5. Count(longer, "accept") = Count(ready, "accept") + IF TimerHandler.op = "accept" THEN waits ELSE 0
  BY <1>1, <1>2, CountSame
<1>6. CarriedBy(longer) = CarriedBy(ready) /\ (Ascending(ready) => Ascending(longer))
  BY <1>1, <1>2, CarriedSame
<1>7. Count(ready, "accept") \in Nat /\ Count(ready, "timer") \in Nat
  BY <1>2, CountType
<1>8. ready' = longer
  BY <1>3
<1> HIDE DEF longer
<1>9. Count(longer, "timer") = waits + Count(ready, "timer")
  BY <1>1, <1>2, <1>4, <1>7
<1>10. Count(longer, "accept") = Count(ready, "accept")
  BY <1>1, <1>5, <1>7
<1> QED BY <1>3, <1>4, <1>6, <1>8, <1>9, <1>10

\* Letting go of a pointer to the server destroys it or changes none of this.
LEMMA UnownedDoes ==
  ASSUME TypeOK, NEW pointer \in BOOLEAN, NEW lives, Unowned(pointer, lives)
  PROVE  /\ ready' \in Seq(Handlers) /\ CarriedBy(ready') = CarriedBy(ready)
         /\ \/ /\ pointer \/ lives # {}
               /\ UNCHANGED <<ready, waits, accepts, refused, backlog, socket>>
            \/ /\ ~pointer /\ lives = {}
               /\ accepts' = 0 /\ waits' = 0 /\ socket' = None /\ backlog' = <<>>
               /\ refused' \subseteq 1..MaxConns
<1>1. CASE pointer \/ lives # {}
  BY <1>1, StateTypes DEF Unowned
<1>2. CASE ~(pointer \/ lives # {})
  BY <1>2, DestroyDoes DEF Unowned
<1> QED BY <1>1, <1>2

LEMMA CarriedNext == Carried' = CarriedBy(ready')
  BY DEF Carried, CarriedBy

-----------------------------------------------------------------------------
(* The parts of the invariant are kept                                     *)

\* The descriptors in use: accept(2) takes one that is left, a handler moves a
\* connection from the queue to a session.
LEMMA DescriptorsStep ==
  ASSUME TypeOK, DescriptorsKept, [Next]_vars
  PROVE  DescriptorsKept'
<1> DEFINE used == sessions \cup Carried
           usedNext == sessions' \cup Carried'
<1>1. /\ IsFiniteSet(used) /\ Cardinality(used) \in Nat /\ Cardinality(used) <= Files /\ Files \in Nat
  <2>1. used \subseteq 1..MaxConns
    BY StateTypes
  <2>2. IsFiniteSet(1..MaxConns)
    BY Bounds, FS_Interval
  <2>3. IsFiniteSet(used)
    BY <2>1, <2>2, FS_Subset
  <2> QED BY <2>3, FS_CardinalityType, Bounds DEF DescriptorsKept
<1>2. ready \in Seq(Handlers) /\ Carried = CarriedBy(ready) /\ Carried' = CarriedBy(ready')
  BY StateTypes, CarriedNext
<1>3. \/ usedNext \subseteq used
      \/ DescriptorLeft /\ \E c : usedNext = used \cup {c}
  <2>1. CASE Run
    BY <1>2, <2>1, RunDoes DEF Run
  <2>2. CASE Loop
    BY <1>2, <2>2 DEF Loop, socketVars
  <2>3. CASE Release
    <3>1. Unowned(FALSE, sessions) /\ sessions' = sessions
      BY <2>3 DEF Release
    <3> QED BY <1>2, <3>1, UnownedDoes
  <2>4. CASE OnAccept
    <3>1. /\ Head(ready) \in Handlers /\ ready # <<>>
          /\ CarriedBy(ready') = CarriedBy(Tail(ready))
      BY <2>4, OnAcceptDoes DEF OnAccept
    <3>2. CarriedBy(ready)
            = CarriedBy(Tail(ready)) \cup (IF Head(ready).ec = "success" THEN {Head(ready).conn} ELSE {})
      BY <1>2, <3>1, CarriedTail
    <3>3. sessions' = sessions \cup (IF Head(ready).ec = "success" THEN {Head(ready).conn} ELSE {})
      BY <2>4 DEF OnAccept
    <3> QED BY <1>2, <3>1, <3>2, <3>3
  <2>5. CASE OnTimer
    BY <1>2, <2>5, OnTimerDoes DEF OnTimer, socketVars
  <2>6. CASE OnDangling
    BY <1>2, <2>6, CarriedEmpty DEF OnDangling, socketVars
  <2>7. CASE Arrive
    BY <1>2, <2>7 DEF Arrive
  <2>8. CASE Accept
    <3>1. /\ CarriedBy(ready')
              = CarriedBy(ready) \cup (IF DescriptorLeft /\ socket = None THEN {Head(backlog)} ELSE {})
          /\ sessions' = sessions
      BY <2>8, AcceptDoes DEF Accept
    <3> QED BY <1>2, <3>1
  <2>9. CASE Tick
    BY <1>2, <2>9 DEF Tick, socketVars
  <2>10. CASE Expire
    BY <1>2, <2>10, ExpireDoes DEF Expire, socketVars
  <2>11. CASE \E c \in 1..MaxConns : EndSession(c)
    <3>1. PICK c \in 1..MaxConns : EndSession(c)
      BY <2>11
    <3>2. Unowned(held, sessions') /\ sessions' = sessions \ {c} /\ held \in BOOLEAN
      BY <3>1 DEF EndSession, TypeOK
    <3> QED BY <1>2, <3>2, UnownedDoes
  <2>12. CASE UNCHANGED vars
    BY <1>2, <2>12 DEF vars, socketVars
  <2> QED BY <2>1, <2>2, <2>3, <2>4, <2>5, <2>6, <2>7, <2>8, <2>9, <2>10, <2>11, <2>12 DEF Next, Handler
<1>4. CASE usedNext \subseteq used
  <2>1. Cardinality(usedNext) \in Nat /\ Cardinality(usedNext) <= Cardinality(used)
    <3>1. IsFiniteSet(usedNext)
      BY <1>1, <1>4, FS_Subset
    <3> QED BY <1>1, <1>4, <3>1, FS_Subset, FS_CardinalityType
  <2> HIDE DEF used
  <2>2. Cardinality(usedNext) <= Files
    BY <1>1, <2>1
  <2> QED BY <2>2 DEF DescriptorsKept
<1>5. CASE DescriptorLeft /\ \E c : usedNext = used \cup {c}
  <2>1. PICK c : usedNext = used \cup {c}
    BY <1>5
  <2>2. Cardinality(used) < Files
    BY <1>5 DEF DescriptorLeft
  <2> HIDE DEF used
  <2>3. Cardinality(usedNext) = IF c \in used THEN Cardinality(used) ELSE Cardinality(used) + 1
    BY <1>1, <2>1, FS_AddElement
  <2>4. Cardinality(usedNext) <= Files
    BY <1>1, <2>2, <2>3
  <2> QED BY <2>4 DEF DescriptorsKept
<1> QED BY <1>3, <1>4, <1>5

\* The chains of accepts and of waits, and that the queue stays one of handlers.
LEMMA ChainsStep ==
  ASSUME TypeOK, ChainsKept, [Next]_vars
  PROVE  /\ ready' \in Seq(Handlers)
         /\ ChainsKept'
         /\ accepts' \in Nat /\ waits' \in Nat
         /\ Alive' \/ (accepts' <= accepts /\ waits' <= waits)
<1>1. /\ ready \in Seq(Handlers) /\ runs \in Nat /\ accepts \in Nat /\ waits \in Nat
      /\ Count(ready, "accept") \in Nat /\ Count(ready, "timer") \in Nat
      /\ held \in BOOLEAN
  BY StateTypes DEF TypeOK
<1>2. Alive => /\ accepts + Count(ready, "accept") = runs
               /\ waits + Count(ready, "timer") = runs
  BY StateTypes DEF ChainsKept
<1> DEFINE Goal == /\ ready' \in Seq(Handlers)
                   /\ Alive' => /\ accepts' + Count(ready', "accept") = runs'
                                /\ waits' + Count(ready', "timer") = runs'
                   /\ accepts' \in Nat /\ waits' \in Nat
                   /\ Alive' \/ (accepts' <= accepts /\ waits' <= waits)
<1>3. SUFFICES Goal
  BY DEF ChainsKept, Queued, Count, Places
<1>4. CASE Run
  <2>1. held /\ held' = held /\ runs' = runs + 1
    BY <1>4 DEF Run
  <2>2. /\ ready' \in Seq(Handlers) /\ accepts' \in Nat /\ waits' = 1
        /\ accepts' + Count(ready', "accept") = accepts + Count(ready, "accept") + 1
        /\ 1 + Count(ready', "timer") = waits + Count(ready, "timer") + 1
    BY <1>4, RunDoes
  <2> QED BY <1>1, <1>2, <2>1, <2>2 DEF Alive
<1>5. CASE Loop \/ Arrive \/ Tick \/ UNCHANGED vars
  <2>1. UNCHANGED <<ready, held, sessions, runs, accepts, waits>>
    BY <1>5 DEF Loop, Arrive, Tick, vars, socketVars, timerVars, applicationVars
  <2> QED BY <1>1, <1>2, <2>1 DEF Alive
<1>6. CASE Release
  <2>1. Unowned(FALSE, sessions) /\ UNCHANGED <<sessions, runs>> /\ ~held'
    BY <1>6 DEF Release
  <2>2. ready' \in Seq(Handlers)
    BY <2>1, UnownedDoes
  <2>3. \/ /\ sessions # {}
           /\ UNCHANGED <<ready, waits, accepts>>
        \/ sessions = {} /\ accepts' = 0 /\ waits' = 0
    BY <2>1, UnownedDoes
  <2> QED BY <1>1, <1>2, <2>1, <2>2, <2>3 DEF Alive
<1>7. CASE OnAccept
  <2>1. /\ ready' \in Seq(Handlers) /\ accepts' \in Nat
        /\ accepts' + Count(ready', "accept") = accepts + Count(ready, "accept")
        /\ Count(ready', "timer") = Count(ready, "timer")
    BY <1>7, OnAcceptDoes
  <2>2. Alive /\ UNCHANGED <<held, runs, waits>> /\ sessions \subseteq sessions'
    BY <1>7 DEF OnAccept, applicationVars, timerVars
  <2> QED BY <1>1, <1>2, <2>1, <2>2 DEF Alive
<1>8. CASE OnTimer
  <2>1. /\ ready' \in Seq(Handlers) /\ waits' = 1
        /\ 1 + Count(ready', "timer") = waits + Count(ready, "timer")
        /\ Count(ready', "accept") = Count(ready, "accept")
    BY <1>8, OnTimerDoes
  <2>2. Alive /\ UNCHANGED <<held, runs, accepts, sessions>>
    BY <1>8 DEF OnTimer, applicationVars, socketVars
  <2> QED BY <1>1, <1>2, <2>1, <2>2 DEF Alive
<1>9. CASE OnDangling
  <2>1. ~Alive /\ ready' = <<>> /\ UNCHANGED <<held, sessions, runs, accepts, waits>>
    BY <1>9 DEF OnDangling, applicationVars, socketVars, timerVars
  <2> QED BY <1>1, <2>1 DEF Alive
<1>10. CASE Accept
  <2>1. /\ ready' \in Seq(Handlers) /\ accepts' \in Nat
        /\ accepts' + Count(ready', "accept") = accepts + Count(ready, "accept")
        /\ Count(ready', "timer") = Count(ready, "timer")
    BY <1>10, AcceptDoes
  <2>2. UNCHANGED <<held, runs, sessions, waits>> /\ accepts' = accepts - 1
    BY <1>10 DEF Accept, applicationVars, timerVars
  <2> QED BY <1>1, <1>2, <2>1, <2>2 DEF Alive
<1>11. CASE Expire
  <2>1. /\ ready' \in Seq(Handlers) /\ waits' = 0
        /\ Count(ready', "timer") = waits + Count(ready, "timer")
        /\ Count(ready', "accept") = Count(ready, "accept")
    BY <1>11, ExpireDoes
  <2>2. UNCHANGED <<held, runs, accepts, sessions>>
    BY <1>11 DEF Expire, applicationVars, socketVars
  <2> QED BY <1>1, <1>2, <2>1, <2>2 DEF Alive
<1>12. CASE \E c \in 1..MaxConns : EndSession(c)
  <2>1. PICK c \in 1..MaxConns : EndSession(c)
    BY <1>12
  <2>2. Unowned(held, sessions') /\ UNCHANGED <<held, runs>> /\ c \in sessions
    BY <2>1 DEF EndSession, applicationVars
  <2>3. ready' \in Seq(Handlers)
    BY <1>1, <2>2, UnownedDoes
  <2>4. \/ /\ held \/ sessions' # {}
           /\ UNCHANGED <<ready, waits, accepts>>
        \/ ~held /\ sessions' = {} /\ accepts' = 0 /\ waits' = 0
    BY <1>1, <2>2, UnownedDoes
  <2> QED BY <1>1, <1>2, <2>2, <2>3, <2>4 DEF Alive
<1> QED BY <1>4, <1>5, <1>6, <1>7, <1>8, <1>9, <1>10, <1>11, <1>12 DEF Next, Handler

LEMMA TypeStep ==
  ASSUME TypeOK, ChainsKept, DescriptorsKept, [Next]_vars
  PROVE  TypeOK'
<1>1. /\ ready' \in Seq(Handlers) /\ ChainsKept' /\ accepts' \in Nat /\ waits' \in Nat
      /\ Alive' \/ (accepts' <= accepts /\ waits' <= waits)
  BY ChainsStep
<1>2. runs' \in 0..MaxRuns /\ {held', looping', early', undefined'} \subseteq BOOLEAN
  <2>1. /\ runs' = runs \/ (runs < MaxRuns /\ runs' = runs + 1)
        /\ held' = held \/ held' = FALSE
        /\ looping' = looping \/ looping' = TRUE
        /\ early' = early
        /\ undefined' = undefined \/ undefined' = TRUE
    <3>1. CASE Run
      BY <3>1 DEF Run
    <3>2. CASE Loop \/ Release \/ Arrive \/ Accept \/ Tick \/ Expire
      BY <3>2 DEF Loop, Release, Arrive, Accept, Tick, Expire, applicationVars
    <3>3. CASE Handler
      BY <3>3 DEF Handler, OnAccept, OnTimer, OnDangling, applicationVars
    <3>4. CASE \E c \in 1..MaxConns : EndSession(c)
      BY <3>4 DEF EndSession, applicationVars
    <3>5. CASE UNCHANGED vars
      BY <3>5 DEF vars, applicationVars
    <3> QED BY <3>1, <3>2, <3>3, <3>4, <3>5 DEF Next
  <2>2. runs \in 0..MaxRuns /\ {held, looping, early, undefined} \subseteq BOOLEAN
    BY DEF TypeOK
  <2>3. runs' \in 0..MaxRuns
    BY <2>1, <2>2, Bounds
  <2> QED BY <2>1, <2>2, <2>3
<1>3. accepts' \in 0..MaxRuns /\ waits' \in 0..MaxRuns
  <2>1. CASE Alive'
    <3>1. /\ accepts' + Count(ready', "accept") = runs'
          /\ waits' + Count(ready', "timer") = runs'
      BY <1>1, <2>1 DEF ChainsKept, Queued, Count, Places
    <3>2. Count(ready', "accept") \in Nat /\ Count(ready', "timer") \in Nat
      BY <1>1, CountType
    <3> QED BY <1>1, <1>2, <3>1, <3>2, Bounds
  <2>2. CASE ~Alive'
    <3>1. accepts' <= accepts /\ waits' <= waits /\ accepts \in 0..MaxRuns /\ waits \in 0..MaxRuns
      BY <1>1, <2>2 DEF TypeOK
    <3> QED BY <1>1, <3>1, Bounds
  <2> QED BY <2>1, <2>2
<1>4. /\ backlog \in Seq(1..MaxConns) /\ served \in Seq(1..MaxConns) /\ refused \subseteq 1..MaxConns
      /\ socket \in {None} \cup 1..MaxConns /\ sessions \subseteq 1..MaxConns
      /\ expiry \in 0..MaxExpiry /\ now \in 0..MaxNow /\ fired \in Nat /\ held \in BOOLEAN
  BY DEF TypeOK
<1> DEFINE SocketTypes ==
             /\ backlog' \in Seq(1..MaxConns) /\ served' \in Seq(1..MaxConns) /\ refused' \subseteq 1..MaxConns
             /\ socket' \in {None} \cup 1..MaxConns /\ sessions' \subseteq 1..MaxConns
           TimerTypes == expiry' \in 0..MaxExpiry /\ now' \in 0..MaxNow /\ fired' \in Nat
<1>5. SocketTypes /\ TimerTypes
  <2>1. CASE Run
    <3>1. SocketTypes /\ now' = now /\ fired' = fired
      BY <1>4, <2>1 DEF Run
    <3> QED BY <1>4, <2>1, <3>1, RunDoes
  <2>2. CASE Loop \/ Tick \/ OnDangling \/ UNCHANGED vars
    <3>1. UNCHANGED <<backlog, served, refused, socket, sessions, expiry, fired>>
      BY <2>2 DEF Loop, Tick, OnDangling, vars, socketVars, timerVars
    <3>2. now' \in 0..MaxNow
      BY <1>4, <2>2, Bounds DEF Loop, Tick, OnDangling, vars
    <3> QED BY <1>4, <3>1, <3>2
  <2>3. CASE Release
    <3>1. Unowned(FALSE, sessions) /\ UNCHANGED <<sessions, served, expiry, fired, now>>
      BY <2>3 DEF Release
    <3>2. \/ UNCHANGED <<refused, backlog, socket>>
          \/ backlog' = <<>> /\ socket' = None /\ refused' \subseteq 1..MaxConns
      BY <3>1, UnownedDoes
    <3>3. <<>> \in Seq(1..MaxConns)
      OBVIOUS
    <3> QED BY <1>4, <3>1, <3>2, <3>3
  <2>4. CASE OnAccept
    <3>1. Head(ready) \in Handlers
      BY <2>4, OnAcceptDoes
    <3>2. Head(ready).ec = "success" => Head(ready).conn \in 1..MaxConns
      BY <3>1, HandlerTypes
    <3>3. UNCHANGED <<backlog, refused, expiry, fired, now>>
      BY <2>4 DEF OnAccept, timerVars
    <3>4. socket' \in {None} \cup 1..MaxConns
      BY <1>4, <2>4 DEF OnAccept, AcceptAgain, AsyncAccept
    <3>5. sessions' \subseteq 1..MaxConns /\ served' \in Seq(1..MaxConns)
      <4>1. CASE Head(ready).ec = "success"
        <5>1. sessions' = sessions \cup {Head(ready).conn} /\ served' = Append(served, Head(ready).conn)
          BY <2>4, <4>1 DEF OnAccept
        <5>2. served' \in Seq(1..MaxConns)
          BY <1>4, <3>2, <4>1, <5>1, Connections
        <5> QED BY <1>4, <3>2, <4>1, <5>1, <5>2
      <4>2. CASE Head(ready).ec # "success"
        BY <1>4, <2>4, <4>2 DEF OnAccept
      <4> QED BY <4>1, <4>2
    <3> QED BY <1>4, <3>3, <3>4, <3>5
  <2>5. CASE OnTimer
    <3>1. SocketTypes /\ now' = now /\ fired' \in Nat
      BY <1>4, <2>5 DEF OnTimer, socketVars
    <3> QED BY <1>4, <2>5, <3>1, OnTimerDoes
  <2>6. CASE Arrive
    <3>1. UNCHANGED <<socket, sessions, served, refused, expiry, fired, now>>
      BY <2>6 DEF Arrive, timerVars
    <3> DEFINE n == Len(served) + Len(backlog) + Cardinality(refused \cup Carried)
    <3>2. n < MaxConns /\ backlog' = Append(backlog, n + 1)
      BY <2>6 DEF Arrive
    <3>3. n \in Nat
      <4>1. refused \cup Carried \subseteq 1..MaxConns
        BY <1>4, StateTypes
      <4>3. Cardinality(refused \cup Carried) \in Nat
        BY <4>1, Connections
      <4>4. Len(served) \in Nat /\ Len(backlog) \in Nat
        BY <1>4
      <4> QED BY <4>3, <4>4
    <3>4. n + 1 \in 1..MaxConns
      <4> HIDE DEF n
      <4> QED BY <3>2, <3>3, Bounds
    <3> HIDE DEF n
    <3>5. backlog' \in Seq(1..MaxConns)
      BY <1>4, <3>2, <3>4, Connections
    <3> QED BY <1>4, <3>1, <3>5
  <2>7. CASE Accept
    <3>1. UNCHANGED <<sessions, served, expiry, fired, now>>
      BY <2>7 DEF Accept, timerVars
    <3>2. Head(backlog) \in 1..MaxConns /\ backlog # <<>>
      BY <2>7, AcceptDoes
    <3>3. Tail(backlog) \in Seq(1..MaxConns)
      BY <1>4, <3>2
    <3>4. backlog' \in {backlog, Tail(backlog)} /\ refused' \subseteq refused \cup {Head(backlog)}
          /\ socket' \in {None, socket, Head(backlog)}
      BY <2>7 DEF Accept
    <3> QED BY <1>4, <3>1, <3>2, <3>3, <3>4
  <2>8. CASE Expire
    BY <1>4, <2>8 DEF Expire, socketVars
  <2>9. CASE \E c \in 1..MaxConns : EndSession(c)
    <3>1. PICK c \in 1..MaxConns : EndSession(c)
      BY <2>9
    <3>2. /\ Unowned(held, sessions') /\ sessions' = sessions \ {c}
          /\ UNCHANGED <<served, expiry, fired, now>>
      BY <3>1 DEF EndSession
    <3>3. \/ UNCHANGED <<refused, backlog, socket>>
          \/ backlog' = <<>> /\ socket' = None /\ refused' \subseteq 1..MaxConns
      BY <1>4, <3>2, UnownedDoes
    <3>4. <<>> \in Seq(1..MaxConns)
      OBVIOUS
    <3> QED BY <1>4, <3>2, <3>3, <3>4
  <2> QED BY <2>1, <2>2, <2>3, <2>4, <2>5, <2>6, <2>7, <2>8, <2>9 DEF Next, Handler
<1>6. Cardinality(sessions') <= Files
  <2> DEFINE used == sessions' \cup Carried'
  <2>1. used \subseteq 1..MaxConns
    BY <1>1, <1>5, CarriedNext, CarriedType
  <2>2. IsFiniteSet(used)
    BY <2>1, Connections
  <2>3. Cardinality(used) <= Files
    BY DescriptorsStep DEF DescriptorsKept
  <2>4. IsFiniteSet(sessions') /\ Cardinality(sessions') <= Cardinality(used)
    BY <2>2, FS_Subset
  <2>5. Cardinality(sessions') \in Nat /\ Cardinality(used) \in Nat
    BY <2>2, <2>4, FS_CardinalityType
  <2> HIDE DEF used
  <2> QED BY <2>3, <2>4, <2>5, Bounds
<1> QED BY <1>1, <1>2, <1>3, <1>5, <1>6 DEF TypeOK

\* A connection that a handler carries is an accept at work.
LEMMA CarriedCounts ==
  ASSUME NEW queue \in Seq(Handlers), Count(queue, "accept") = 0
  PROVE  CarriedBy(queue) = {}
<1>1. Places(queue, "accept") = {}
  BY CountType, FS_EmptySet DEF Count
<1>2. \A i \in 1..Len(queue) : queue[i].ec = "success" => queue[i].op = "accept"
  <2>1. \A i \in 1..Len(queue) : queue[i] \in Handlers
    OBVIOUS
  <2> QED BY <2>1, HandlerTypes
<1> QED BY <1>1, <1>2 DEF Places, CarriedBy

LEMMA IntervalCount ==
  ASSUME NEW first \in Nat, NEW last \in Nat, first <= last
  PROVE  Cardinality((first + 1)..last) = last - first
<1>1. first + 1 \in Int /\ last \in Int
  OBVIOUS
<1>2. Cardinality((first + 1)..last) = IF first + 1 > last THEN 0 ELSE last - (first + 1) + 1
  BY <1>1, FS_Interval
<1> QED BY <1>2

\* A server that lives has lived, and one that has been run once was not run twice.
LEMMA LivesStep ==
  ASSUME TypeOK, [Next]_vars
  PROVE  /\ Alive' => Alive
         /\ early' = early /\ (runs' > 1 \/ ~(runs > 1))
<1>1. runs \in Nat
  BY StateTypes
<1>2. CASE Run
  BY <1>1, <1>2 DEF Run, Alive
<1>3. CASE Loop \/ Release \/ Arrive \/ Accept \/ Tick \/ Expire
  <2>1. runs' = runs /\ early' = early
    BY <1>3 DEF Loop, Release, Arrive, Accept, Tick, Expire, applicationVars
  <2>2. sessions' = sessions /\ (held' = held \/ ~held')
    BY <1>3 DEF Loop, Release, Arrive, Accept, Tick, Expire, applicationVars, socketVars
  <2> QED BY <1>1, <2>1, <2>2 DEF Alive
<1>4. CASE Handler
  <2>1. runs' = runs /\ early' = early /\ held' = held
    BY <1>4 DEF Handler, OnAccept, OnTimer, OnDangling, applicationVars
  <2>2. Alive \/ sessions' = sessions
    BY <1>4 DEF Handler, OnAccept, OnTimer, OnDangling, socketVars
  <2> QED BY <1>1, <2>1, <2>2 DEF Alive
<1>5. CASE \E c \in 1..MaxConns : EndSession(c)
  BY <1>1, <1>5 DEF EndSession, applicationVars, Alive
<1>6. CASE UNCHANGED vars
  BY <1>1, <1>6 DEF vars, applicationVars, socketVars, Alive
<1> QED BY <1>2, <1>3, <1>4, <1>5, <1>6 DEF Next

\* m_socket: assigned with the accept of a connection, moved out by its handler.
LEMMA SocketStep ==
  ASSUME TypeOK, SocketInUse, [Next]_vars
  PROVE  SocketInUse'
<1>1. /\ ready \in Seq(Handlers) /\ Carried = CarriedBy(ready) /\ Carried' = CarriedBy(ready')
      /\ held \in BOOLEAN
  BY StateTypes, CarriedNext DEF TypeOK
<1>2. Alive' => Alive
  BY LivesStep
<1> SUFFICES ASSUME Alive, Alive', socket' # None
             PROVE  early' /\ socket' \in Carried'
  BY <1>2 DEF SocketInUse
<1>3. early' = early /\ (socket # None => early /\ socket \in Carried)
  BY LivesStep DEF SocketInUse
<1>4. ASSUME socket' = socket, Carried' = Carried
      PROVE  early' /\ socket' \in Carried'
  BY <1>3, <1>4
<1>5. CASE Run
  BY <1>1, <1>4, <1>5, RunDoes DEF Run
<1>6. CASE Loop \/ Arrive \/ Tick \/ UNCHANGED vars
  BY <1>1, <1>4, <1>6 DEF Loop, Arrive, Tick, vars, socketVars
<1>7. CASE Release
  <2>1. Unowned(FALSE, sessions)
    BY <1>7 DEF Release
  <2> QED BY <1>1, <1>4, <2>1, UnownedDoes
<1>8. CASE OnAccept
  <2>1. Head(ready).ec # "success" /\ socket' = socket
    BY <1>8 DEF OnAccept, AcceptAgain, AsyncAccept
  <2>2. CarriedBy(ready') = CarriedBy(Tail(ready)) /\ ready # <<>>
    BY <1>8, OnAcceptDoes DEF OnAccept
  <2>3. CarriedBy(ready) = CarriedBy(Tail(ready)) \cup {}
    BY <1>1, <2>1, <2>2, CarriedTail
  <2> QED BY <1>1, <1>4, <2>1, <2>2, <2>3
<1>9. CASE OnTimer
  BY <1>1, <1>4, <1>9, OnTimerDoes DEF OnTimer, socketVars
<1>10. CASE OnDangling
  BY <1>10 DEF OnDangling
<1>11. CASE Accept
  <2>1. CarriedBy(ready')
          = CarriedBy(ready) \cup (IF DescriptorLeft /\ socket = None THEN {Head(backlog)} ELSE {})
    BY <1>11, AcceptDoes
  <2>2. CASE DescriptorLeft /\ socket = None
    <3>1. socket' = IF early THEN Head(backlog) ELSE None
      BY <1>11, <2>2 DEF Accept
    <3> QED BY <1>1, <1>3, <2>1, <2>2, <3>1
  <2>3. CASE ~(DescriptorLeft /\ socket = None)
    <3>1. socket' = socket
      BY <1>11, <2>3 DEF Accept
    <3> QED BY <1>1, <1>4, <2>1, <2>3, <3>1
  <2> QED BY <2>2, <2>3
<1>12. CASE Expire
  BY <1>1, <1>4, <1>12, ExpireDoes DEF Expire, socketVars
<1>13. CASE \E c \in 1..MaxConns : EndSession(c)
  <2>1. PICK c \in 1..MaxConns : EndSession(c)
    BY <1>13
  <2>2. Unowned(held, sessions')
    BY <2>1 DEF EndSession
  <2> QED BY <1>1, <1>4, <2>2, UnownedDoes
<1> QED BY <1>5, <1>6, <1>7, <1>8, <1>9, <1>10, <1>11, <1>12, <1>13 DEF Next, Handler

\* The connections served, carried and waiting, each in its place: what
\* NoneTurnedAway says of a server that lives and does not share m_socket.
InOrder(last) ==
    /\ last \in Nat
    /\ Len(served) <= last
    /\ refused = {}
    /\ \A i \in 1..Len(served) : served[i] = i
    /\ CarriedBy(ready) = (Len(served) + 1)..last
    /\ Ascending(ready)
    /\ \A i \in 1..Len(backlog) : backlog[i] = last + i

LEMMA OrderFound ==
  ASSUME TypeOK, NoneTurnedAway, Alive, ~(early /\ runs > 1)
  PROVE  \E last : InOrder(last)
<1>1. /\ ready \in Seq(Handlers) /\ served \in Seq(1..MaxConns) /\ Carried = CarriedBy(ready)
      /\ Cardinality(Carried) \in Nat /\ Len(served) \in Nat
  BY StateTypes, Connections
<1> DEFINE last == Len(served) + Cardinality(Carried)
<1>2. /\ refused = {}
      /\ \A i \in 1..Len(served) : served[i] = i
      /\ Carried = (Len(served) + 1)..last
      /\ \A i \in 1..Len(backlog) : backlog[i] = last + i
      /\ Ascending(ready)
  BY DEF NoneTurnedAway, Ascending
<1>3. last \in Nat /\ Len(served) <= last
  BY <1>1
<1> HIDE DEF last
<1> QED BY <1>1, <1>2, <1>3 DEF InOrder

LEMMA OrderKept ==
  ASSUME NEW last \in Nat, served' \in Seq(1..MaxConns), InOrder(last)'
  PROVE  NoneTurnedAway'
<1> DEFINE first == Len(served')
<1>1. first \in Nat /\ first <= last /\ Carried' = (first + 1)..last
  BY CarriedNext DEF InOrder
<1> HIDE DEF first
<1>2. Cardinality(Carried') = last - first
  BY <1>1, IntervalCount
<1>3. first + Cardinality(Carried') = last
  BY <1>1, <1>2
<1>4. /\ refused' = {}
      /\ \A i \in 1..first : served'[i] = i
      /\ \A i \in 1..Len(backlog') : backlog'[i] = last + i
      /\ Ascending(ready')
  BY DEF InOrder, first, Ascending
<1> HIDE DEF Carried
<1>5. /\ Carried' = (first + 1)..(first + Cardinality(Carried'))
      /\ \A i \in 1..Len(backlog') : backlog'[i] = (first + Cardinality(Carried')) + i
  BY <1>1, <1>3, <1>4
<1> QED BY <1>4, <1>5 DEF NoneTurnedAway, first, Ascending

\* accept(2) and the handlers take the connections from the front, arrivals join
\* at the end.
LEMMA OrderStep ==
  ASSUME TypeOK, ChainsKept, SocketInUse, NoneTurnedAway, [Next]_vars, TypeOK'
  PROVE  NoneTurnedAway'
<1> SUFFICES ASSUME Alive', ~(early' /\ runs' > 1)
             PROVE  NoneTurnedAway'
  BY DEF NoneTurnedAway
<1>1. Alive /\ ~(early /\ runs > 1) /\ runs \in Nat
  BY LivesStep, StateTypes
<1>2. PICK last : InOrder(last)
  BY <1>1, OrderFound
<1>3. /\ ready \in Seq(Handlers) /\ Carried = CarriedBy(ready)
      /\ served \in Seq(1..MaxConns) /\ backlog \in Seq(1..MaxConns) /\ served' \in Seq(1..MaxConns)
      /\ Len(served) \in Nat /\ Len(backlog) \in Nat /\ last \in Nat /\ Len(served) <= last
      /\ held \in BOOLEAN
  <2>1. served' \in Seq(1..MaxConns)
    BY DEF TypeOK
  <2>2. last \in Nat /\ Len(served) <= last
    BY <1>2 DEF InOrder
  <2>3. /\ served \in Seq(1..MaxConns) /\ backlog \in Seq(1..MaxConns)
        /\ ready \in Seq(Handlers) /\ Carried = CarriedBy(ready)
    BY StateTypes
  <2>4. held \in BOOLEAN
    BY DEF TypeOK
  <2>5. Len(served) \in Nat /\ Len(backlog) \in Nat
    BY <2>3, LenProperties
  <2> QED BY <2>1, <2>2, <2>3, <2>4, <2>5
<1>4. SUFFICES \E l \in Nat : InOrder(l)'
  <2>1. ASSUME NEW l \in Nat, InOrder(l)' PROVE NoneTurnedAway'
    <3>1. served' \in Seq(1..MaxConns)
      BY <1>3
    <3> QED BY <2>1, <3>1, OrderKept
  <2> HIDE DEF InOrder, NoneTurnedAway
  <2> QED BY <2>1
<1>5. ASSUME UNCHANGED <<served, refused, backlog>>, CarriedBy(ready') = CarriedBy(ready),
             Ascending(ready) => Ascending(ready')
      PROVE  InOrder(last)'
  BY <1>2, <1>5 DEF InOrder
<1>6. CASE Run
  BY <1>3, <1>5, <1>6, RunDoes DEF Run
<1>7. CASE Loop \/ Tick \/ UNCHANGED vars
  BY <1>3, <1>5, <1>7 DEF Loop, Tick, vars, socketVars
<1>8. CASE Release
  <2>1. Unowned(FALSE, sessions) /\ served' = served /\ sessions' = sessions /\ ~held'
    BY <1>8 DEF Release
  <2>2. sessions # {}
    BY <2>1 DEF Alive
  <2>3. UNCHANGED <<ready, refused, backlog>>
    BY <2>1, <2>2 DEF Unowned
  <2> QED BY <1>3, <1>5, <2>1, <2>3
<1>9. CASE OnAccept
  <2> DEFINE conn == Head(ready).conn
             rest == CarriedBy(Tail(ready))
             first == Len(served)
  <2>1. /\ ready # <<>> /\ Head(ready) \in Handlers
        /\ CarriedBy(ready') = rest /\ (Ascending(ready) => Ascending(ready'))
        /\ UNCHANGED <<backlog, refused>>
    BY <1>9, OnAcceptDoes DEF OnAccept
  <2>2. /\ CarriedBy(ready) = rest \cup (IF Head(ready).ec = "success" THEN {conn} ELSE {})
        /\ Ascending(ready) => (Head(ready).ec = "success" => \A c \in rest : conn < c)
    BY <1>3, <2>1, CarriedTail
  <2>3. CASE Head(ready).ec # "success"
    <3>1. served' = served
      BY <1>9, <2>3 DEF OnAccept
    <3> QED BY <1>3, <1>5, <2>1, <2>2, <2>3, <3>1
  <2>4. CASE Head(ready).ec = "success"
    <3>1. served' = Append(served, conn)
      BY <1>9, <2>4 DEF OnAccept
    <3>2. conn \in 1..MaxConns
      BY <2>1, <2>4, HandlerTypes
    <3>3. CarriedBy(ready) = (first + 1)..last /\ Ascending(ready)
      BY <1>2 DEF InOrder
    <3> HIDE DEF conn, rest, first
    <3>4. first \in Nat
      BY <1>3 DEF first
    <3>5. rest \cup {conn} = (first + 1)..last /\ \A c \in rest : conn < c
      BY <2>2, <2>4, <3>3
    <3>6. conn \in (first + 1)..last /\ conn \notin rest
      BY <3>2, <3>5
    <3>7. conn = first + 1
      <4>1. first + 1 \in (first + 1)..last
        BY <1>3, <3>4, <3>6
      <4>2. first + 1 = conn \/ first + 1 \in rest
        BY <3>5, <4>1
      <4>3. first + 1 \notin rest
        BY <3>4, <3>5, <3>6
      <4> QED BY <4>2, <4>3
    <3>8. rest = (first + 1 + 1)..last
      <4>1. \A c \in (first + 1)..last : c # first + 1 <=> c \in (first + 1 + 1)..last
        BY <1>3, <3>4
      <4>2. \A c \in (first + 1 + 1)..last : c \in (first + 1)..last
        BY <1>3, <3>4
      <4>3. \A c : c \in rest <=> c \in (first + 1)..last /\ c # first + 1
        BY <3>5, <3>6, <3>7
      <4> QED BY <4>1, <4>2, <4>3
    <3>9. Len(served') = first + 1 /\ \A i \in 1..(first + 1) : served'[i] = i
      <4>1. Len(served') = first + 1 /\ served'[first + 1] = conn
            /\ \A i \in 1..first : served'[i] = served[i]
        BY <1>3, <3>1, <3>2 DEF first
      <4>2. \A i \in 1..first : served[i] = i
        BY <1>2 DEF InOrder, first
      <4> QED BY <3>4, <3>7, <4>1, <4>2
    <3>10. first + 1 <= last
      BY <3>6, <3>7
    <3>11. InOrder(last)'
      BY <1>2, <1>3, <2>1, <3>3, <3>8, <3>9, <3>10 DEF InOrder
    <3> QED BY <1>3, <3>11
  <2> QED BY <2>3, <2>4
<1>10. CASE OnTimer
  BY <1>3, <1>5, <1>10, OnTimerDoes DEF OnTimer, socketVars
<1>11. CASE OnDangling
  BY <1>1, <1>11 DEF OnDangling
<1>12. CASE Arrive
  <2> DEFINE n == Len(served) + Len(backlog) + Cardinality(refused \cup Carried)
  <2>1. backlog' = Append(backlog, n + 1) /\ UNCHANGED <<ready, served, refused>>
    BY <1>12 DEF Arrive
  <2>2. n = last + Len(backlog)
    <3>1. refused \cup Carried = (Len(served) + 1)..last
      BY <1>2, <1>3 DEF InOrder
    <3>2. Cardinality((Len(served) + 1)..last) = last - Len(served)
      BY <1>3, IntervalCount
    <3>3. Cardinality(refused \cup Carried) = last - Len(served)
      BY <3>1, <3>2
    <3> QED BY <1>3, <3>3
  <2> HIDE DEF n
  <2>3. /\ Len(backlog') = Len(backlog) + 1
        /\ \A i \in 1..Len(backlog) : backlog'[i] = backlog[i]
        /\ backlog'[Len(backlog) + 1] = n + 1
    BY <1>3, <2>1
  <2>4. \A i \in 1..Len(backlog') : backlog'[i] = last + i
    <3>1. \A i \in 1..Len(backlog) : backlog[i] = last + i
      BY <1>2 DEF InOrder
    <3>2. n + 1 = last + (Len(backlog) + 1)
      BY <1>3, <2>2
    <3>3. \A i \in 1..Len(backlog') : i \in 1..Len(backlog) \/ i = Len(backlog) + 1
      BY <1>3, <2>3
    <3> QED BY <2>3, <3>1, <3>2, <3>3
  <2>5. InOrder(last)'
    BY <1>2, <2>1, <2>4 DEF InOrder
  <2> QED BY <1>3, <2>5
<1>13. CASE Accept
  <2>1. /\ backlog # <<>>
        /\ CarriedBy(ready')
              = CarriedBy(ready) \cup (IF DescriptorLeft /\ socket = None THEN {Head(backlog)} ELSE {})
        /\ Ascending(ready) /\ (\A c \in CarriedBy(ready) : c < Head(backlog)) => Ascending(ready')
        /\ served' = served
    BY <1>13, AcceptDoes DEF Accept
  <2>2. /\ Len(backlog) >= 1 /\ Head(backlog) = backlog[1]
        /\ Len(Tail(backlog)) = Len(backlog) - 1
        /\ \A i \in 1..(Len(backlog) - 1) : Tail(backlog)[i] = backlog[i + 1]
    BY <1>3, <2>1, HeadTailProperties
  <2>3. Head(backlog) = last + 1 /\ \A i \in 1..Len(Tail(backlog)) : Tail(backlog)[i] = last + 1 + i
    <3>1. \A i \in 1..Len(backlog) : backlog[i] = last + i
      BY <1>2 DEF InOrder
    <3> QED BY <1>3, <2>2, <3>1
  <2>4. /\ Ascending(ready) /\ CarriedBy(ready) = (Len(served) + 1)..last
        /\ \A c \in CarriedBy(ready) : c < Head(backlog)
    BY <1>2, <1>3, <2>3 DEF InOrder
  <2>5. Ascending(ready')
    BY <2>1, <2>4
  <2>6. CASE ~DescriptorLeft
    <3>1. UNCHANGED <<backlog, refused>>
      BY <1>13, <2>6 DEF Accept
    <3> QED BY <1>3, <1>5, <2>1, <2>5, <2>6, <3>1
  <2>7. CASE DescriptorLeft
    <3>1. socket = None
      <4> SUFFICES ASSUME socket # None PROVE FALSE
        OBVIOUS
      <4>1. early /\ Carried # {}
        BY <1>1 DEF SocketInUse
      <4>2. accepts > 0 /\ accepts \in Nat
        BY <1>13, StateTypes DEF Accept
      <4>3. accepts + Count(ready, "accept") = runs /\ Count(ready, "accept") \in Nat
        BY <1>1, StateTypes DEF ChainsKept
      <4>4. Count(ready, "accept") = 0
        BY <1>1, <4>1, <4>2, <4>3
      <4> QED BY <1>3, <4>1, <4>4, CarriedCounts
    <3>2. backlog' = Tail(backlog) /\ refused' = refused
      BY <1>13, <2>7, <3>1 DEF Accept
    <3>3. CarriedBy(ready') = (Len(served) + 1)..(last + 1)
      <4>1. CarriedBy(ready') = ((Len(served) + 1)..last) \cup {last + 1}
        BY <2>1, <2>3, <2>4, <2>7, <3>1
      <4>2. ((Len(served) + 1)..last) \cup {last + 1} = (Len(served) + 1)..(last + 1)
        BY <1>3
      <4> QED BY <4>1, <4>2
    <3>4. last + 1 \in Nat /\ Len(served) <= last + 1
      BY <1>3
    <3>5. InOrder(last + 1)'
      BY <1>2, <2>1, <2>3, <2>5, <3>2, <3>3, <3>4 DEF InOrder
    <3> QED BY <3>4, <3>5
  <2> QED BY <2>6, <2>7
<1>14. CASE Expire
  BY <1>3, <1>5, <1>14, ExpireDoes DEF Expire, socketVars
<1>15. CASE \E c \in 1..MaxConns : EndSession(c)
  <2>1. PICK c \in 1..MaxConns : EndSession(c)
    BY <1>15
  <2>2. Unowned(held, sessions') /\ served' = served /\ held' = held
    BY <2>1 DEF EndSession, applicationVars
  <2>3. held \/ sessions' # {}
    BY <2>2 DEF Alive
  <2>4. UNCHANGED <<ready, refused, backlog>>
    BY <2>2, <2>3 DEF Unowned
  <2> QED BY <1>3, <1>5, <2>2, <2>4
<1> QED BY <1>6, <1>7, <1>8, <1>9, <1>10, <1>11, <1>12, <1>13, <1>14, <1>15 DEF Next, Handler

LEMMA Intervals ==
  ASSUME NEW n \in Nat, NEW d \in Nat, d >= 1
  PROVE  n * d \in Nat /\ n * d >= n /\ (n + 1) * d = n * d + d
  OBVIOUS

\* The timer's handler runs only when it is due, which bounds how often.
LEMMA TimerDue ==
  ASSUME TypeOK, ChainsKept, NotRun, TimerOnSchedule, OnTimer
  PROVE  /\ Alive /\ Count(ready, "timer") >= 1
         /\ runs >= 1
         /\ runs = 1 => /\ fired < MaxNow
                        /\ expiry = (fired + 2) * Interval
                        /\ expiry' = (fired + 3) * Interval
                        /\ Count(ready', "timer") = 0
<1>1. /\ Alive /\ ready \in Seq(Handlers) /\ ready # <<>> /\ Head(ready).op = "timer"
      /\ waits \in Nat /\ runs \in Nat /\ fired \in Nat /\ now \in Nat /\ now <= MaxNow
      /\ Count(ready, "timer") \in Nat
  BY StateTypes, Bounds DEF OnTimer, TypeOK
<1>2. Count(ready, "timer") >= 1
  <2>1. Tail(ready) \in Seq(Handlers) /\ Count(ready, "timer") = Count(Tail(ready), "timer") + 1
    BY <1>1, CountTail
  <2>2. Count(Tail(ready), "timer") \in Nat
    BY <2>1, CountType
  <2> QED BY <2>1, <2>2
<1>3. waits + Count(ready, "timer") = runs
  BY <1>1, StateTypes DEF ChainsKept
<1>4. runs >= 1
  BY <1>1, <1>2, <1>3
<1>5. ASSUME runs = 1
      PROVE  /\ fired < MaxNow
             /\ expiry = (fired + 2) * Interval
             /\ expiry' = (fired + 3) * Interval
             /\ Count(ready', "timer") = 0
  <2>1. expiry = (fired + 2) * Interval /\ now >= expiry
    BY <1>1, <1>2, <1>5, StateTypes DEF TimerOnSchedule
  <2>2. fired + 2 \in Nat /\ (fired + 2) + 1 = fired + 3
    BY <1>1
  <2>3. expiry \in Nat /\ expiry >= fired + 2 /\ ((fired + 2) + 1) * Interval = expiry + Interval
    BY <2>1, <2>2, Intervals, Bounds
  <2>4. fired < MaxNow /\ expiry + Interval <= MaxExpiry
    BY <1>1, <2>1, <2>3, Bounds
  <2>5. expiry' = expiry + Interval
    BY <2>3, <2>4, Bounds DEF OnTimer, TimerEvent, NextExpiry
  <2>6. expiry' = (fired + 3) * Interval
    BY <2>2, <2>3, <2>5
  <2>7. ready' \in Seq(Handlers) /\ 1 + Count(ready', "timer") = waits + Count(ready, "timer")
    BY OnTimerDoes
  <2>8. Count(ready', "timer") = 0
    BY <1>3, <1>5, <2>7, CountType
  <2> QED BY <2>1, <2>4, <2>6, <2>8
<1> QED BY <1>1, <1>2, <1>4, <1>5

\* Nothing but run() and the timer's handler moves the expiry, and nothing but
\* time makes a handler of it.
LEMMA TimerStep ==
  ASSUME TypeOK, ChainsKept, NotRun, TimerOnSchedule, [Next]_vars
  PROVE  NotRun' /\ TimerOnSchedule'
<1>1. /\ ready \in Seq(Handlers) /\ runs \in Nat /\ fired \in Nat /\ now \in Nat /\ waits \in Nat
      /\ Count(ready, "timer") \in Nat /\ held \in BOOLEAN
      /\ Queued("timer") = Count(ready, "timer") /\ Queued("timer")' = Count(ready', "timer")
  BY StateTypes DEF TypeOK, Queued, Count, Places
<1>2. Alive' => Alive
  BY LivesStep
<1>3. ASSUME UNCHANGED <<runs, fired, expiry>>, now' = now \/ now' = now + 1,
             Alive' => Count(ready', "timer") = Count(ready, "timer")
      PROVE  NotRun' /\ TimerOnSchedule'
  <2>1. expiry \in Nat
    BY StateTypes
  <2> DEFINE due == (fired + 2) * Interval
  <2>2. due' = due
    BY <1>3
  <2>3. runs = 1 /\ Alive => expiry = due /\ (Count(ready, "timer") > 0 => now >= expiry)
    BY <1>1 DEF TimerOnSchedule
  <2> HIDE DEF due
  <2>4. runs' = 1 /\ Alive' => expiry' = due' /\ (Count(ready', "timer") > 0 => now' >= expiry')
    BY <1>1, <1>2, <1>3, <2>1, <2>2, <2>3
  <2>5. TimerOnSchedule'
    BY <1>1, <2>4 DEF TimerOnSchedule, due
  <2>6. NotRun'
    BY <1>3 DEF NotRun
  <2> QED BY <2>5, <2>6
<1>4. CASE Run
  <2>1. runs' = runs + 1 /\ fired' = fired /\ Alive
    BY <1>4 DEF Run, Alive
  <2>2. NotRun'
    BY <1>1, <2>1 DEF NotRun
  <2>3. ASSUME runs' = 1
        PROVE  expiry' = (fired' + 2) * Interval /\ Queued("timer")' = 0
    <3>1. runs = 0 /\ fired = 0 /\ expiry = Interval
      BY <1>1, <2>1, <2>3 DEF NotRun
    <3>2. expiry' = Interval + Interval
      BY <1>4, <3>1, Bounds DEF Run, TimerEvent, NextExpiry
    <3>3. ready' \in Seq(Handlers) /\ 1 + Count(ready', "timer") = waits + Count(ready, "timer") + 1
      BY <1>4, RunDoes
    <3>4. waits + Count(ready, "timer") = 0
      BY <1>1, <2>1, <3>1 DEF ChainsKept
    <3>5. Count(ready', "timer") = 0
      BY <1>1, <3>3, <3>4, CountType
    <3>6. (fired' + 2) * Interval = Interval + Interval
      BY <2>1, <3>1, Bounds
    <3> QED BY <1>1, <3>2, <3>5, <3>6
  <2>4. TimerOnSchedule'
    BY <2>3 DEF TimerOnSchedule
  <2> QED BY <2>2, <2>4
<1>5. CASE Loop \/ Arrive \/ Tick \/ UNCHANGED vars
  BY <1>3, <1>5 DEF Loop, Arrive, Tick, vars, applicationVars, timerVars
<1>6. CASE Release
  <2>1. Unowned(FALSE, sessions) /\ UNCHANGED <<runs, fired, expiry, now, sessions>> /\ ~held'
    BY <1>6 DEF Release
  <2>2. Alive' => ready' = ready
    BY <2>1 DEF Unowned, Alive
  <2> QED BY <1>3, <2>1, <2>2
<1>7. CASE OnAccept
  BY <1>3, <1>7, OnAcceptDoes DEF OnAccept, applicationVars, timerVars
<1>8. CASE OnTimer
  <2>1. /\ Alive /\ runs >= 1
        /\ runs = 1 => /\ fired < MaxNow
                       /\ expiry' = (fired + 3) * Interval
                       /\ Count(ready', "timer") = 0
    BY <1>8, TimerDue
  <2>2. runs' = runs /\ fired' = IF fired = MaxNow THEN fired ELSE fired + 1
    BY <1>8 DEF OnTimer, applicationVars
  <2>3. NotRun'
    BY <1>1, <2>1, <2>2 DEF NotRun
  <2>4. runs = 1 => fired' + 2 = fired + 3
    BY <1>1, <2>1, <2>2, Bounds
  <2>5. TimerOnSchedule'
    BY <1>1, <2>1, <2>2, <2>4 DEF TimerOnSchedule
  <2> QED BY <2>3, <2>5
<1>9. CASE OnDangling
  <2>1. ~Alive /\ UNCHANGED <<runs, fired, expiry, now>>
    BY <1>9 DEF OnDangling, applicationVars, timerVars
  <2> QED BY <1>2, <1>3, <2>1
<1>10. CASE Accept
  BY <1>3, <1>10, AcceptDoes DEF Accept, applicationVars, timerVars
<1>11. CASE Expire
  <2>1. now >= expiry /\ UNCHANGED <<runs, fired, expiry, now>>
    BY <1>11 DEF Expire, applicationVars
  <2>2. NotRun'
    BY <2>1 DEF NotRun
  <2>3. TimerOnSchedule'
    <3>1. runs = 1 /\ Alive => expiry = (fired + 2) * Interval
      BY DEF TimerOnSchedule
    <3> QED BY <1>2, <2>1, <3>1 DEF TimerOnSchedule
  <2> QED BY <2>2, <2>3
<1>12. CASE \E c \in 1..MaxConns : EndSession(c)
  <2>1. PICK c \in 1..MaxConns : EndSession(c)
    BY <1>12
  <2>2. Unowned(held, sessions') /\ UNCHANGED <<held, runs, fired, expiry, now>>
    BY <2>1 DEF EndSession, applicationVars
  <2>3. Alive' => ready' = ready
    BY <2>2 DEF Unowned, Alive
  <2> QED BY <1>3, <2>2, <2>3
<1> QED BY <1>4, <1>5, <1>6, <1>7, <1>8, <1>9, <1>10, <1>11, <1>12 DEF Next, Handler

-----------------------------------------------------------------------------
(* The theorems                                                            *)

LEMMA ServerInit == Init => ServerInv
<1> SUFFICES ASSUME Init PROVE ServerInv
  OBVIOUS
<1>1. /\ held = TRUE /\ looping = FALSE /\ runs = 0 /\ early \in BOOLEAN /\ ready = <<>> /\ accepts = 0
      /\ backlog = <<>> /\ socket = None /\ sessions = {} /\ waits = 0 /\ expiry = Interval /\ now = 0
      /\ fired = 0 /\ served = <<>> /\ refused = {} /\ undefined = FALSE
  BY DEF Init
<1>2. Carried = {} /\ CarriedBy(ready) = {} /\ Ascending(ready)
  BY <1>1, CarriedEmpty DEF Carried, CarriedBy
<1>3. \A op : Queued(op) = 0
  BY <1>1, CountEmpty DEF Queued, Count, Places
<1>4. Cardinality({}) = 0
  BY FS_EmptySet
<1>5. TypeOK
  <2>1. <<>> \in Seq(Handlers) /\ <<>> \in Seq(1..MaxConns)
    OBVIOUS
  <2>2. runs \in 0..MaxRuns /\ accepts \in 0..MaxRuns /\ waits \in 0..MaxRuns
        /\ expiry \in 0..MaxExpiry /\ now \in 0..MaxNow
    BY <1>1, Bounds
  <2>3. Cardinality(sessions) <= Files
    BY <1>1, <1>4, Bounds
  <2> QED BY <1>1, <2>1, <2>2, <2>3 DEF TypeOK
<1>6. DescriptorsKept
  <2>1. sessions \cup Carried = {}
    BY <1>1, <1>2
  <2>2. Cardinality(sessions \cup Carried) = 0
    BY <1>4, <2>1
  <2> QED BY <2>2, Bounds DEF DescriptorsKept
<1>7. ChainsKept
  BY <1>1, <1>3 DEF ChainsKept
<1>8. NoneTurnedAway
  <2>1. /\ Len(served) = 0 /\ Len(backlog) = 0 /\ Len(ready) = 0 /\ refused = {}
        /\ Carried = {} /\ Cardinality(Carried) = 0
    BY <1>1, <1>2, <1>4
  <2> QED BY <2>1 DEF NoneTurnedAway
<1> QED BY <1>1, <1>5, <1>6, <1>7, <1>8 DEF ServerInv, SocketInUse, NotRun, TimerOnSchedule

LEMMA ServerStep == ServerInv /\ [Next]_vars => ServerInv'
<1> SUFFICES ASSUME ServerInv, [Next]_vars PROVE ServerInv'
  OBVIOUS
<1>1. /\ TypeOK /\ DescriptorsKept /\ ChainsKept /\ SocketInUse /\ NoneTurnedAway
      /\ NotRun /\ TimerOnSchedule
  BY DEF ServerInv
<1>2. TypeOK'
  BY <1>1, TypeStep
<1>3. DescriptorsKept' /\ ChainsKept' /\ SocketInUse'
  BY <1>1, DescriptorsStep, ChainsStep, SocketStep
<1>4. NoneTurnedAway'
  BY <1>1, <1>2, OrderStep
<1>5. NotRun' /\ TimerOnSchedule'
  BY <1>1, TimerStep
<1> QED BY <1>2, <1>3, <1>4, <1>5 DEF ServerInv

\* The invariant of the acceptor and the timer (rpc_server.cpp:204-241).
THEOREM ServerInvariant == Spec => []ServerInv
<1>1. Init => ServerInv
  BY ServerInit
<1>2. ServerInv /\ [Next]_vars => ServerInv'
  BY ServerStep
<1> QED BY <1>1, <1>2, PTL DEF Spec

\* No more accepts and waits are outstanding than run() was called times, no
\* more sessions live than there are descriptors, and the numbers of the
\* connections stay in their range.
THEOREM ServerTypeCorrect == Spec => []TypeOK
<1>1. ServerInv => TypeOK
  BY DEF ServerInv
<1> QED BY <1>1, ServerInvariant, PTL

\* Each call of run() keeps one accept and one wait at work, whatever the errors,
\* and however the handlers of the acceptor and the timer interleave.
THEOREM ServerChainsKept == Spec => []ChainsKept
<1>1. ServerInv => ChainsKept
  BY DEF ServerInv
<1> QED BY <1>1, ServerInvariant, PTL

\* Every connection made to a server that lives is served, carried by a handler
\* or in the backlog, in the order of arrival, unless accepts share m_socket and
\* the library assigns it early.
THEOREM ServerNoneTurnedAway == Spec => []NoneTurnedAway
<1>1. ServerInv => NoneTurnedAway
  BY DEF ServerInv
<1> QED BY <1>1, ServerInvariant, PTL

\* The n-th call of the timer's handler is due n + 1 intervals after the server
\* was created, for every interval and however late the handlers are run.
THEOREM ServerTimerOnSchedule == Spec => []TimerOnSchedule
<1>1. ServerInv => TimerOnSchedule
  BY DEF ServerInv
<1> QED BY <1>1, ServerInvariant, PTL
=============================================================================
