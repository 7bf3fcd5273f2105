------------------------------- MODULE Server -------------------------------
(***************************************************************************)
(* class server_imp of rpc_server.cpp: the acceptor that makes a session   *)
(* of every connection and the timer that re-arms itself, on the one       *)
(* thread that the application lets into io_service::run().  Every action  *)
(* is a call of the application, a handler run by that thread, or          *)
(* something that the kernel or Boost.Asio does.                           *)
(*                                                                         *)
(* Connections are numbered in the order in which they arrive.             *)
(***************************************************************************)
EXTENDS Integers, FiniteSets, SequencesExt

CONSTANTS
    MaxRuns,    \* bound: how often the application calls run()
    MaxConns,   \* bound: connections that arrive
    Files,      \* descriptors the process has left for connections
    Interval,   \* timer_interval
    MaxNow,     \* bound: the time at which the clock stops
    None        \* no connection

ASSUME ServerAssumption ==
    /\ {MaxRuns, MaxConns, Files, Interval, MaxNow} \subseteq Nat \ {0}
    /\ None \notin 1..MaxConns

VARIABLES
    held,       \* the application holds its server_ptr
    looping,    \* its thread is in io_service::run()
    runs,       \* how often run() was called
    early,      \* the library assigns an accepted socket when it is accepted, not
                \* when the handler is run: its versions differ
    ready,      \* the handlers that are ready, in the order in which they will run
    accepts,    \* async_accept operations that wait for a connection
    backlog,    \* connections the kernel has established
    socket,     \* m_socket
    sessions,   \* connections with a live session, which holds the server
    waits,      \* async_wait operations outstanding on m_timer
    expiry,     \* m_timer.expires_at()
    now,        \* the time since the server was created
    fired,      \* history: how often the timer's handler has run
    served,     \* history: the connections that got a session, in that order
    refused,    \* history: the connections closed without one
    undefined   \* history: a handler has used a server that is gone

socketVars == <<accepts, backlog, socket, sessions, served, refused>>
timerVars == <<waits, expiry, fired>>
applicationVars == <<held, looping, runs, early>>
vars == <<applicationVars, ready, socketVars, timerVars, now, undefined>>

AcceptHandler(ec, conn) == [op |-> "accept", ec |-> ec, conn |-> conn]
TimerHandler == [op |-> "timer", ec |-> "any", conn |-> None]

Handlers ==
    {TimerHandler} \cup {AcceptHandler("success", c) : c \in 1..MaxConns}
        \cup {AcceptHandler(ec, None) : ec \in {"no_descriptors", "already_open", "aborted"}}

\* Bound: where an expiry that only moves away is held.
MaxExpiry == MaxNow + 2 * Interval

TypeOK ==
    /\ {held, looping, early, undefined} \subseteq BOOLEAN
    /\ runs \in 0..MaxRuns
    /\ ready \in Seq(Handlers)
    /\ accepts \in 0..MaxRuns
    /\ backlog \in Seq(1..MaxConns)
    /\ socket \in {None} \cup 1..MaxConns
    /\ sessions \subseteq 1..MaxConns
    /\ Cardinality(sessions) <= Files
    /\ waits \in 0..MaxRuns
    /\ expiry \in 0..MaxExpiry
    /\ now \in 0..MaxNow
    /\ fired \in Nat
    /\ served \in Seq(1..MaxConns)
    /\ refused \subseteq 1..MaxConns

\* The constructor: the acceptor listens, nothing waits on the timer.
Init ==
    /\ held = TRUE
    /\ looping = FALSE
    /\ runs = 0
    /\ early \in BOOLEAN
    /\ ready = <<>>
    /\ accepts = 0
    /\ backlog = <<>>
    /\ socket = None
    /\ sessions = {}
    /\ waits = 0
    /\ expiry = Interval
    /\ now = 0
    /\ fired = 0
    /\ served = <<>>
    /\ refused = {}
    /\ undefined = FALSE

\* server_imp lives while the application or a session holds a pointer to it.
Alive == held \/ sessions # {}

-----------------------------------------------------------------------------
\* async_accept(m_socket, ...): refused at once if m_socket is in use.
AsyncAccept(queue, peer) ==
    /\ socket' = peer
    /\ IF peer = None
       THEN ready' = queue /\ accepts' = accepts + 1
       ELSE ready' = Append(queue, AcceptHandler("already_open", None)) /\ UNCHANGED accepts

\* Fault: the handler does not accept again after an error.
AcceptAgainOnSuccess(ec, queue, peer) ==
    IF ec = "success"
    THEN AsyncAccept(queue, peer)
    ELSE ready' = queue /\ socket' = peer /\ UNCHANGED accepts

\* Fault: the handler accepts again twice.
AcceptAgainTwice(ec, queue, peer) ==
    ready' = queue /\ socket' = peer /\ accepts' = accepts + 2

\* The handler calls accept() again, whatever the error was.
AcceptAgain(ec, queue, peer) == AsyncAccept(queue, peer)

\* Fault: the next expiry is counted from the present time.
NextExpiryFromNow == now + Interval

NextExpiry == expiry + Interval

\* Fault: m_timer is set and not waited on.
WaitAgainNever == waits' = 0

WaitAgain == waits' = 1

\* timer_event_getblocktemplate(): expires_at cancels the waits outstanding,
\* whose handlers, bound without the error, will call it again.
TimerEvent(queue) ==
    /\ expiry' = IF NextExpiry > MaxExpiry THEN MaxExpiry ELSE NextExpiry
    /\ ready' = queue \o [i \in 1..waits |-> TimerHandler]
    /\ WaitAgain

\* server::run(), before the application lets its thread into the loop.
Run ==
    /\ held
    /\ ~looping
    /\ runs < MaxRuns
    /\ runs' = runs + 1
    /\ IF socket = None
       THEN accepts' = accepts + 1 /\ TimerEvent(ready)
       ELSE TimerEvent(Append(ready, AcceptHandler("already_open", None))) /\ UNCHANGED accepts
    /\ UNCHANGED <<held, looping, early, backlog, socket, sessions, served, refused, fired, now, undefined>>

Loop ==
    /\ ~looping
    /\ looping' = TRUE
    /\ UNCHANGED <<held, runs, early, ready, socketVars, timerVars, now, undefined>>

-----------------------------------------------------------------------------
\* The destructor: the operations outstanding are cancelled, which makes their
\* handlers ready, and the listening socket is closed on those that wait.
Destroy ==
    /\ ready' = ready \o [i \in 1..waits |-> TimerHandler]
                      \o [i \in 1..accepts |-> AcceptHandler("aborted", None)]
    /\ waits' = 0
    /\ accepts' = 0
    /\ refused' = refused \cup ToSet(backlog) \cup ({socket} \ {None})
    /\ backlog' = <<>>
    /\ socket' = None

Unowned(pointer, lives) ==
    IF pointer \/ lives # {}
    THEN UNCHANGED <<ready, waits, accepts, refused, backlog, socket>>
    ELSE Destroy

Release ==
    /\ held
    /\ held' = FALSE
    /\ Unowned(FALSE, sessions)
    /\ UNCHANGED <<looping, runs, early, sessions, served, expiry, fired, now, undefined>>

\* The last handler of a session is done, as when its peer has gone.
EndSession(c) ==
    /\ looping
    /\ c \in sessions
    /\ sessions' = sessions \ {c}
    /\ Unowned(held, sessions')
    /\ UNCHANGED <<applicationVars, served, expiry, fired, now, undefined>>

-----------------------------------------------------------------------------
\* The handler async_accept was given: a session for the socket, which is
\* moved out of m_socket, unless there was an error.
OnAccept ==
    /\ looping /\ Alive
    /\ ready # <<>>
    /\ Head(ready).op = "accept"
    /\ LET ec == Head(ready).ec
           conn == Head(ready).conn
       IN  /\ IF ec = "success"
              THEN sessions' = sessions \cup {conn} /\ served' = Append(served, conn)
              ELSE UNCHANGED <<sessions, served>>
           /\ AcceptAgain(ec, Tail(ready), IF ec = "success" THEN None ELSE socket)
    /\ UNCHANGED <<applicationVars, backlog, refused, timerVars, now, undefined>>

OnTimer ==
    /\ looping /\ Alive
    /\ ready # <<>>
    /\ Head(ready).op = "timer"
    /\ TimerEvent(Tail(ready))
    /\ fired' = IF fired = MaxNow THEN fired ELSE fired + 1
    /\ UNCHANGED <<applicationVars, socketVars, now, undefined>>

\* Both handlers hold a raw `this': what they do to a server that is gone is
\* undefined, and nothing is said of what follows.
OnDangling ==
    /\ looping /\ ~Alive
    /\ ready # <<>>
    /\ ready' = <<>>
    /\ undefined' = TRUE
    /\ UNCHANGED <<applicationVars, socketVars, timerVars, now>>

-----------------------------------------------------------------------------
\* Connections accepted whose handler has not run.
Carried == {ready[i].conn : i \in {j \in 1..Len(ready) : ready[j].ec = "success"}}

DescriptorLeft == Cardinality(sessions \cup Carried) < Files

\* The kernel establishes a connection to the listening socket.
Arrive ==
    /\ Alive
    /\ Len(served) + Len(backlog) + Cardinality(refused \cup Carried) < MaxConns
    /\ backlog' = Append(backlog, Len(served) + Len(backlog) + Cardinality(refused \cup Carried) + 1)
    /\ UNCHANGED <<applicationVars, ready, accepts, socket, sessions, served, refused, timerVars, now, undefined>>

\* accept(2) for the async_accept that waits longest: the new socket is given
\* to m_socket now or when the handler is run.
Accept ==
    /\ accepts > 0
    /\ backlog # <<>>
    /\ accepts' = accepts - 1
    /\ IF ~DescriptorLeft
       THEN /\ ready' = Append(ready, AcceptHandler("no_descriptors", None))
            /\ UNCHANGED <<backlog, socket, refused>>
       ELSE /\ backlog' = Tail(backlog)
            /\ IF socket = None
               THEN /\ ready' = Append(ready, AcceptHandler("success", Head(backlog)))
                    /\ socket' = IF early THEN Head(backlog) ELSE None
                    /\ UNCHANGED refused
               ELSE /\ ready' = Append(ready, AcceptHandler("already_open", None))
                    /\ refused' = refused \cup {Head(backlog)}
                    /\ UNCHANGED socket
    /\ UNCHANGED <<applicationVars, sessions, served, timerVars, now, undefined>>

Tick ==
    /\ Alive
    /\ now < MaxNow
    /\ now' = now + 1
    /\ UNCHANGED <<applicationVars, ready, socketVars, timerVars, undefined>>

Expire ==
    /\ waits > 0
    /\ now >= expiry
    /\ waits' = 0
    /\ ready' = ready \o [i \in 1..waits |-> TimerHandler]
    /\ UNCHANGED <<applicationVars, socketVars, expiry, fired, now, undefined>>

Handler == OnAccept \/ OnTimer \/ OnDangling

Next ==
    \/ Run \/ Loop \/ Release
    \/ Handler
    \/ Arrive \/ Accept \/ Tick \/ Expire
    \/ \E c \in 1..MaxConns : EndSession(c)

Spec == Init /\ [][Next]_vars

\* The thread in io_service::run() runs the handlers in turn; the kernel and
\* the library complete an operation that can be completed.  No session need
\* end and time need not pass.
Fairness == WF_vars(Handler) /\ WF_vars(Accept) /\ WF_vars(Expire)

FairSpec == Spec /\ Fairness

-----------------------------------------------------------------------------
Queued(op) == Cardinality({i \in 1..Len(ready) : ready[i].op = op})

\* Whatever becomes of an accept or of a wait on the timer, run() having been
\* called once or more, each call keeps one accept and one wait at work: the
\* server neither goes deaf nor gathers operations (rpc_server.cpp:214-234).
ChainsKept ==
    Alive => /\ accepts + Queued("accept") = runs
             /\ waits + Queued("timer") = runs

\* A connection that is accepted is given a session, in the order of arrival,
\* unless two accepts share m_socket and the library assigns it early: those
\* served, those whose handler waits and those in the backlog are the connections
\* made, none missing and none closed (rpc_server.cpp:216-219).
NoneTurnedAway ==
    Alive /\ ~(early /\ runs > 1) =>
        LET first == Len(served)
            last == first + Cardinality(Carried)
        IN  /\ refused = {}
            /\ \A i \in 1..first : served[i] = i
            /\ Carried = (first + 1)..last
            /\ \A i, j \in 1..Len(ready) :
                 i < j /\ ready[i].ec = "success" /\ ready[j].ec = "success" => ready[i].conn < ready[j].conn
            /\ \A i \in 1..Len(backlog) : backlog[i] = last + i

\* The timer of a server run once neither drifts, however late its handler is
\* run, nor calls it early: the n-th call is due n + 1 intervals after the
\* server was created (rpc_server.cpp:230-234).
TimerOnSchedule ==
    runs = 1 /\ Alive =>
        /\ expiry = (fired + 2) * Interval
        /\ Queued("timer") > 0 => now >= expiry

\* However long accepts fail for want of descriptors, and though the timer of a
\* server run twice cancels itself for ever, a connection made to a server that
\* is kept gets its session once a descriptor stays free to be had.
EveryConnectionServed ==
    \A c \in 1..MaxConns :
        []<>DescriptorLeft =>
            (looping /\ runs > 0 /\ c \in ToSet(backlog)
                ~> c \in ToSet(served) \/ c \in refused \/ ~held)

\* An acceptor that fails again and again does not keep the timer's handler
\* from being run when it is due.
TimerHeard ==
    \A n \in 1..MaxNow :
        looping /\ runs = 1 /\ now >= (n + 1) * Interval ~> fired >= n \/ ~held
=============================================================================
