----------------------------- MODULE TcpServer -----------------------------
(***************************************************************************)
(* TcpServer (src/dwframe/Tcp_server.cc): bind, start, stop, the accept    *)
(* loops and the handlers of the clients, together with fibers that        *)
(* connect (Socket::connect, connect_with_timeout in hook.cc).  The accept *)
(* worker is an IOManager of one or more threads; handlers and connecting  *)
(* fibers run on the same IOManager (the default) or on another.           *)
(***************************************************************************)
EXTENDS FdManager, Sequences, SequencesExt

CONSTANTS Listeners,   \* listening Sockets of the server
          Clients,     \* Sockets made by accept
          Dialers,     \* connecting Sockets
          PoolSizes,   \* numbers of threads the accept worker may have
          MaxDials,    \* calls of connect()
          MaxStarts    \* calls of start() that start something

CloseAll == "closeAll"

ASSUME SocketsAssumption ==
    /\ Sockets = Listeners \cup Clients \cup Dialers
    /\ Listeners \cap (Clients \cup Dialers) = {} /\ Clients \cap Dialers = {}
    /\ IsFiniteSet(Listeners) /\ CloseAll \notin Listeners

ASSUME PoolAssumption == PoolSizes \subseteq Nat \ {0}

VARIABLES pool,        \* threads of the accept worker
          shared,      \* io_worker and accept_worker are one IOManager
          m_isStop, m_socks,
          queue,       \* tasks of the accept worker: acceptors, and CloseAll for stop()'s callback
          running,     \* tasks that have a thread
          spc, sone,   \* where stop()'s callback is, and with which listening Socket
          apc,         \* [Listeners -> where the acceptor is]
          afd,         \* the descriptor its call of accept was made with
          waiting,     \* IOManager: the fibers registered for an event of a descriptor
          stale,       \* acceptors whose registration epoll has dropped with the closed descriptor
          late,        \* history: acceptors registered after the descriptor's FdCtx was deleted
          backlog,     \* connections that wait to be accepted
          fpc,         \* where handlers and connecting fibers are
          forced,      \* history: Sockets whose owner turned O_NONBLOCK off with ioctl
          conn,        \* what has become of a connection attempt
          cacelled, timer,   \* connect_with_timeout's timer_info, whether its timer is set
          cancelling,  \* descriptors whose events a timer's callback is about to cancel
          disturbed,   \* history: the fiber's event was cancelled by somebody else
          unwatched,   \* history: the fiber's addEvent failed
          starts, dials

workerVars == <<queue, running, spc, sone, apc, afd, waiting, stale, late>>
serverVars == <<pool, shared, m_isStop, m_socks, starts>>
dialVars   == <<conn, cacelled, timer, cancelling, disturbed, unwatched, dials>>
vars == <<fdVars, serverVars, workerVars, fpc, forced, dialVars, backlog>>

Fibers == Clients \cup Dialers

Init ==
    /\ InitFds
    /\ pool \in PoolSizes /\ shared \in BOOLEAN
    /\ m_isStop = TRUE /\ m_socks = {}
    /\ queue = <<>> /\ running = {}
    /\ spc = "next" /\ sone = Nobody
    /\ apc = [l \in Listeners |-> "none"]
    /\ afd = [l \in Listeners |-> NoFd]
    /\ waiting = [f \in Fds |-> {}]
    /\ stale = {} /\ late = {}
    /\ backlog = [f \in Fds |-> 0]
    /\ fpc = [s \in Fibers |-> "none"]
    /\ forced = {}
    /\ conn = [d \in Dialers |-> "none"]
    /\ cacelled = [d \in Dialers |-> FALSE]
    /\ timer = [d \in Dialers |-> FALSE]
    /\ cancelling = {} /\ disturbed = {} /\ unwatched = {}
    /\ starts = 0 /\ dials = 0

\* The kernel listens on f: from bind until the system call of close().
Listening(f) == kernel[f].of \in Listeners

\* A thread of the accept worker is not held by a task: it polls, and can take one.
IdleThread == Cardinality(running) < pool

\* Handlers and connecting fibers need a thread of the accept worker when there is no other.
HasThread == ~shared \/ IdleThread

--------------------------------------------------------------------------
(* The IOManager, as far as acceptors wait in it.                          *)

\* addEvent(f) works on an open descriptor, unless the FdContext still holds a registration
\* that epoll has dropped: EPOLL_CTL_MOD then fails, and EPOLL_CTL_DEL too.
Watchable(f) == kernel[f] # Free /\ waiting[f] \cap stale = {}

\* The acceptors S go from the FdContext of f to the end of the queue.
WakeAcceptors(f, S) ==
    /\ waiting' = [waiting EXCEPT ![f] = @ \ S]
    /\ queue' = queue \o SetToSeq(S)
    /\ apc' = [l \in Listeners |-> IF l \in S THEN "accept" ELSE apc[l]]
    /\ late' = late \ S
    /\ UNCHANGED <<running, afd, stale>>

cancelALL(f) == WakeAcceptors(f, IF waiting[f] \cap stale = {} THEN waiting[f] \cap Listeners ELSE {})

\* close_f: epoll forgets the descriptor, the FdContext keeps its registrations.
Forget(f) == stale' = stale \cup (waiting[f] \cap Listeners)

--------------------------------------------------------------------------
(* The application.  It binds and starts again only when the callback of   *)
(* stop() has run and the acceptors have ended.                            *)

Settled ==
    /\ m_isStop /\ queue = <<>> /\ running = {}
    /\ \A l \in Listeners : apc[l] \in {"none", "ended"}

BindOne(l) ==
    /\ Settled /\ starts < MaxStarts
    /\ l \notin m_socks
    /\ Open(l)
    /\ m_socks' = m_socks \cup {l}
    /\ UNCHANGED <<pool, shared, m_isStop, starts, workerVars, fpc, forced, dialVars, backlog>>

\* One address that fails makes bind drop all sockets; the last reference closes them.
BindFails ==
    /\ Settled /\ m_socks # {}
    /\ CloseSockets(m_socks)
    /\ backlog' = [f \in Fds |-> IF Listening(f) THEN 0 ELSE backlog[f]]
    /\ m_socks' = {}
    /\ UNCHANGED <<pool, shared, m_isStop, starts, workerVars, fpc, forced, dialVars>>

Start ==
    /\ Settled /\ m_socks # {} /\ starts < MaxStarts
    /\ m_isStop' = FALSE
    /\ queue' = queue \o SetToSeq(m_socks)
    /\ apc' = [l \in Listeners |-> IF l \in m_socks THEN "loop" ELSE apc[l]]
    /\ starts' = starts + 1
    /\ UNCHANGED <<fdVars, pool, shared, m_socks, running, spc, sone, afd, waiting, stale, late,
                   fpc, forced, dialVars, backlog>>

Stop ==
    /\ ~m_isStop
    /\ m_isStop' = TRUE
    /\ queue' = Append(queue, CloseAll)
    /\ UNCHANGED <<fdVars, pool, shared, m_socks, starts, running, spc, sone, apc, afd, waiting,
                   stale, late, fpc, forced, dialVars, backlog>>

--------------------------------------------------------------------------
(* The accept worker: an idle thread takes the task at the head of the     *)
(* queue and runs it until it yields or ends.                              *)

Take ==
    /\ queue # <<>> /\ IdleThread
    /\ running' = running \cup {Head(queue)}
    /\ queue' = Tail(queue)
    /\ UNCHANGED <<fdVars, serverVars, spc, sone, apc, afd, waiting, stale, late, fpc, forced,
                   dialVars, backlog>>

\* while(!m_isStop) sock->accept().
AcceptLoop(l) ==
    /\ l \in running /\ apc[l] = "loop"
    /\ \/ /\ m_isStop
          /\ apc' = [apc EXCEPT ![l] = "ended"]
          /\ running' = running \ {l}
          /\ UNCHANGED afd
       \/ /\ ~m_isStop /\ m_sock[l] # NoFd
          /\ apc' = [apc EXCEPT ![l] = "accept"]
          /\ afd' = [afd EXCEPT ![l] = m_sock[l]]
          /\ UNCHANGED running
    /\ UNCHANGED <<fdVars, serverVars, queue, spc, sone, waiting, stale, late, fpc, forced,
                   dialVars, backlog>>

\* do_io's call of accept_f, with the descriptor of the first try also after a wake-up.
AcceptTakes(l) ==
    /\ l \in running /\ apc[l] = "accept"
    /\ Listening(afd[l]) /\ backlog[afd[l]] > 0
    /\ \E c \in Clients :
         /\ fpc[c] = "none"
         /\ OpenAccepted(c)
         /\ fpc' = [fpc EXCEPT ![c] = "run"]
    /\ backlog' = [backlog EXCEPT ![afd[l]] = @ - 1]
    /\ apc' = [apc EXCEPT ![l] = "loop"]
    /\ afd' = [afd EXCEPT ![l] = NoFd]
    /\ UNCHANGED <<serverVars, queue, running, spc, sone, waiting, stale, late, forced, dialVars>>

AcceptAgain(l) ==
    /\ l \in running /\ apc[l] = "accept"
    /\ Listening(afd[l]) /\ backlog[afd[l]] = 0
    /\ apc' = [apc EXCEPT ![l] = "again"]
    /\ UNCHANGED <<fdVars, serverVars, queue, running, spc, sone, afd, waiting, stale, late, fpc,
                   forced, dialVars, backlog>>

\* After EAGAIN do_io looks at neither m_isStop nor the FdCtx again: addEvent with the number
\* it has, whosever that is by now, and YieldToHold.
AcceptWaits(l) ==
    /\ l \in running /\ apc[l] = "again"
    /\ Watchable(afd[l])
    /\ waiting' = [waiting EXCEPT ![afd[l]] = @ \cup {l}]
    /\ late' = IF m_datas[afd[l]].of = l THEN late ELSE late \cup {l}
    /\ apc' = [apc EXCEPT ![l] = "wait"]
    /\ running' = running \ {l}
    /\ UNCHANGED <<fdVars, serverVars, queue, spc, sone, afd, stale, fpc, forced, dialVars, backlog>>

\* Mutant: a failing accept ends the loop.
AcceptFailsLeaves(l) ==
    /\ l \in running
    /\ \/ apc[l] = "again"
       \/ apc[l] = "accept" /\ ~Listening(afd[l])
       \/ apc[l] = "accept" /\ backlog[afd[l]] > 0 /\ FreeFds = {}
    /\ apc' = [apc EXCEPT ![l] = "ended"]
    /\ running' = running \ {l}
    /\ UNCHANGED <<fdVars, serverVars, queue, spc, sone, afd, waiting, stale, late, fpc,
                   forced, dialVars, backlog>>

\* EBADF, EINVAL or EMFILE of accept_f, or a failing addEvent: accept returns nullptr and
\* the loop goes on without a yield.
AcceptFails(l) ==
    /\ l \in running
    /\ \/ apc[l] = "again"
       \/ apc[l] = "accept" /\ ~Listening(afd[l])
       \/ apc[l] = "accept" /\ backlog[afd[l]] > 0 /\ FreeFds = {}
    /\ apc' = [apc EXCEPT ![l] = "loop"]
    /\ afd' = [afd EXCEPT ![l] = NoFd]
    /\ UNCHANGED <<fdVars, serverVars, queue, running, spc, sone, waiting, stale, late, fpc,
                   forced, dialVars, backlog>>

\* epoll reports the listening socket; or whoever has the number by now is readable.
AcceptorWakes(l) ==
    /\ IdleThread
    /\ apc[l] = "wait" /\ l \in waiting[afd[l]] \ stale
    /\ backlog[afd[l]] > 0
    /\ WakeAcceptors(afd[l], {l})
    /\ UNCHANGED <<fdVars, serverVars, spc, sone, fpc, forced, dialVars, backlog>>

LateWakes(l) ==
    /\ IdleThread
    /\ apc[l] = "wait" /\ l \in waiting[afd[l]] \ stale
    /\ kernel[afd[l]].of \in Fibers
    /\ WakeAcceptors(afd[l], {l})
    /\ UNCHANGED <<fdVars, serverVars, spc, sone, fpc, forced, dialVars, backlog>>

--------------------------------------------------------------------------
(* The callback of stop(): cancelAll and close for each of m_socks.        *)

StopCancels(l) ==
    /\ CloseAll \in running /\ spc = "next"
    /\ l \in m_socks /\ m_sock[l] # NoFd
    /\ cancelALL(m_sock[l])
    /\ spc' = "cancelled" /\ sone' = l
    /\ UNCHANGED <<fdVars, serverVars, fpc, forced, dialVars, backlog>>

\* Mutant: close() deletes the FdCtx and cancels nothing.
StopDeletesSilent ==
    /\ CloseAll \in running /\ spc = "cancelled"
    /\ CloseDelete(sone)
    /\ spc' = "deleted"
    /\ UNCHANGED <<serverVars, queue, running, sone, apc, afd, waiting, stale, late, fpc,
                   forced, dialVars, backlog>>

\* close(): cancelALL once more, for an acceptor that waits again, and FdManager::del.
StopDeletes ==
    /\ CloseAll \in running /\ spc = "cancelled"
    /\ cancelALL(m_sock[sone])
    /\ CloseDelete(sone)
    /\ spc' = "deleted"
    /\ UNCHANGED <<serverVars, sone, fpc, forced, dialVars, backlog>>

\* close_f; what waits in the backlog is gone.
StopShuts ==
    /\ CloseAll \in running /\ spc = "deleted"
    /\ Forget(m_sock[sone])
    /\ backlog' = [backlog EXCEPT ![m_sock[sone]] = 0]
    /\ CloseEnd(sone)
    /\ spc' = "next" /\ sone' = Nobody
    /\ UNCHANGED <<serverVars, queue, running, apc, afd, waiting, late, fpc, forced, dialVars>>

StopClears ==
    /\ CloseAll \in running /\ spc = "next"
    /\ \A l \in m_socks : m_sock[l] = NoFd
    /\ m_socks' = {}
    /\ running' = running \ {CloseAll}
    /\ UNCHANGED <<fdVars, pool, shared, m_isStop, starts, queue, spc, sone, apc, afd, waiting,
                   stale, late, fpc, forced, dialVars, backlog>>

--------------------------------------------------------------------------
(* A handler or a connecting fiber that uses and closes its own Socket.    *)

\* It may change the mode of its descriptor.
SetFlags(s) ==
    /\ fpc[s] = "run"
    /\ \E b \in BOOLEAN :
         \/ fcntl(m_sock[s], b) /\ forced' = forced \ {s}
         \/ ioctl(m_sock[s], b) /\ forced' = IF b THEN forced \ {s} ELSE forced \cup {s}
    /\ UNCHANGED <<serverVars, workerVars, fpc, dialVars, backlog>>

\* Socket::close calls close(fd), which cancels the events in the IOManager of its thread
\* (the owner waits for none), deletes the FdCtx and, in a second step, closes the descriptor.
CloseBegin(s) ==
    /\ fpc[s] \in {"run", "failed"}
    /\ CloseDelete(s)
    /\ \/ shared /\ cancelALL(m_sock[s])
       \/ ~shared /\ UNCHANGED <<queue, running, apc, afd, waiting, stale, late>>
    /\ fpc' = [fpc EXCEPT ![s] = "deleted"]
    /\ UNCHANGED <<serverVars, spc, sone, forced, dialVars, backlog>>

CloseLast(s) ==
    /\ fpc[s] = "deleted"
    /\ Forget(m_sock[s])
    /\ CloseEnd(s)
    /\ fpc' = [fpc EXCEPT ![s] = "none"]
    /\ conn' = [d \in Dialers |-> IF d = s THEN "none" ELSE conn[d]]
    /\ forced' = forced \ {s}
    /\ disturbed' = disturbed \ {s}
    /\ unwatched' = unwatched \ {s}
    /\ UNCHANGED <<serverVars, queue, running, spc, sone, apc, afd, waiting, late, cacelled, timer,
                   cancelling, dials, backlog>>

\* A session closes its Socket several times (recvRequest, handleClient, two destructors):
\* without a descriptor that does nothing.
CloseAgain(s) ==
    /\ fpc[s] = "none"
    /\ CloseSockets({s})
    /\ UNCHANGED <<serverVars, workerVars, fpc, forced, dialVars, backlog>>

--------------------------------------------------------------------------
(* Socket::connect and connect_with_timeout. *)

\* newSock and connect_f: it fails or is done at once, or goes on (EINPROGRESS) and the
\* timer is added.
Dial(d) ==
    /\ dials < MaxDials
    /\ fpc[d] = "none"
    /\ Open(d)
    /\ dials' = dials + 1
    /\ \/ /\ conn' = [conn EXCEPT ![d] = "progress"]
          /\ timer' = [timer EXCEPT ![d] = TRUE]
          /\ fpc' = [fpc EXCEPT ![d] = "armed"]
          /\ UNCHANGED backlog
       \/ /\ fpc' = [fpc EXCEPT ![d] = "failed"]
          /\ UNCHANGED <<conn, timer, backlog>>
       \/ \E f \in Fds :
             /\ Listening(f) /\ backlog' = [backlog EXCEPT ![f] = @ + 1]
             /\ conn' = [conn EXCEPT ![d] = "up"]
             /\ fpc' = [fpc EXCEPT ![d] = "run"]
             /\ UNCHANGED timer
    /\ UNCHANGED <<serverVars, workerVars, forced, cacelled, cancelling, disturbed, unwatched>>

\* addEvent(WRITE) and YieldToHold.
DialWaits(d) ==
    /\ fpc[d] = "armed"
    /\ shared => Watchable(m_sock[d])
    /\ waiting' = [waiting EXCEPT ![m_sock[d]] = @ \cup {d}]
    /\ fpc' = [fpc EXCEPT ![d] = "wait"]
    /\ UNCHANGED <<fdVars, serverVars, queue, running, spc, sone, apc, afd, stale, late, forced,
                   dialVars, backlog>>

\* addEvent fails, because of what is left in the FdContext or for another reason of
\* epoll_ctl: the timer is cancelled, the timer_info is not looked at, and SO_ERROR decides.
DialUnwatched(d) ==
    /\ fpc[d] = "armed"
    /\ timer' = [timer EXCEPT ![d] = FALSE]
    /\ cacelled' = [cacelled EXCEPT ![d] = FALSE]
    /\ unwatched' = unwatched \cup {d}
    /\ fpc' = [fpc EXCEPT ![d] = IF conn[d] = "refused" THEN "failed" ELSE "run"]
    /\ UNCHANGED <<fdVars, serverVars, workerVars, forced, conn, cancelling, dials, disturbed,
                   backlog>>

\* The attempt succeeds or is refused; what is already up waits in the backlog.
Established(d) ==
    /\ conn[d] = "progress"
    /\ \/ \E f \in Fds : /\ Listening(f) /\ backlog' = [backlog EXCEPT ![f] = @ + 1]
                         /\ conn' = [conn EXCEPT ![d] = "up"]
       \/ conn' = [conn EXCEPT ![d] = "refused"] /\ UNCHANGED backlog
    /\ UNCHANGED <<fdVars, serverVars, workerVars, fpc, forced, cacelled, timer, cancelling,
                   disturbed, unwatched, dials>>

Wake(f, d) ==
    /\ waiting' = [waiting EXCEPT ![f] = @ \ {d}]
    /\ fpc' = [fpc EXCEPT ![d] = "woken"]

DialerWakes(d) ==
    /\ fpc[d] = "wait" /\ conn[d] \in {"up", "refused"}
    /\ d \in waiting[m_sock[d]]
    /\ Wake(m_sock[d], d)
    /\ UNCHANGED <<fdVars, serverVars, queue, running, spc, sone, apc, afd, stale, late, forced,
                   dialVars, backlog>>

\* The timer's callback: it does nothing once the call has returned (winfo), else it marks
\* the call and, in a second step, cancels whatever waits on the descriptor by then.
TimerMarks(d) ==
    /\ timer[d]
    /\ timer' = [timer EXCEPT ![d] = FALSE]
    /\ cacelled' = [cacelled EXCEPT ![d] = TRUE]
    /\ cancelling' = cancelling \cup {m_sock[d]}
    /\ UNCHANGED <<fdVars, serverVars, workerVars, fpc, forced, conn, dials, disturbed, unwatched,
                   backlog>>

TimerCancels(f) ==
    /\ f \in cancelling
    /\ cancelling' = cancelling \ {f}
    /\ \/ /\ waiting[f] \cap Dialers = {}
          /\ UNCHANGED <<waiting, fpc, disturbed>>
       \/ \E d \in waiting[f] \cap Dialers :
              /\ Wake(f, d)
              /\ disturbed' = IF cacelled[d] THEN disturbed ELSE disturbed \cup {d}
    /\ UNCHANGED <<fdVars, serverVars, queue, running, spc, sone, apc, afd, stale, late, forced,
                   conn, cacelled, timer, unwatched, dials, backlog>>

\* Mutant: only SO_ERROR is looked at.
DialReturnsUnmarked(d) ==
    /\ fpc[d] = "woken"
    /\ timer' = [timer EXCEPT ![d] = FALSE]
    /\ cacelled' = [cacelled EXCEPT ![d] = FALSE]
    /\ fpc' = [fpc EXCEPT ![d] = IF conn[d] = "refused" THEN "failed" ELSE "run"]
    /\ UNCHANGED <<fdVars, serverVars, workerVars, forced, conn, cancelling, dials, disturbed,
                   unwatched, backlog>>

\* timer->cancel(), the timer_info, then SO_ERROR, which is 0 while the attempt goes on.
DialReturns(d) ==
    /\ fpc[d] = "woken"
    /\ timer' = [timer EXCEPT ![d] = FALSE]
    /\ cacelled' = [cacelled EXCEPT ![d] = FALSE]
    /\ fpc' = [fpc EXCEPT ![d] = IF cacelled[d] \/ conn[d] = "refused" THEN "failed" ELSE "run"]
    /\ UNCHANGED <<fdVars, serverVars, workerVars, forced, conn, cancelling, dials, disturbed,
                   unwatched, backlog>>

--------------------------------------------------------------------------
Acceptor(l) == AcceptLoop(l) \/ AcceptTakes(l) \/ AcceptAgain(l) \/ AcceptWaits(l) \/ AcceptFails(l)

StopTask == (\E l \in Listeners : StopCancels(l)) \/ StopDeletes \/ StopShuts \/ StopClears

Handler(s) == HasThread /\ (CloseBegin(s) \/ CloseLast(s) \/ CloseAgain(s))

Dialing(d) ==
    HasThread /\ (DialWaits(d) \/ DialUnwatched(d) \/ DialerWakes(d) \/ TimerMarks(d) \/ DialReturns(d))

Next ==
    \/ \E l \in Listeners : BindOne(l) \/ Acceptor(l) \/ AcceptorWakes(l) \/ LateWakes(l)
    \/ BindFails \/ Start \/ Stop
    \/ Take \/ StopTask
    \/ \E s \in Fibers : Handler(s) \/ (HasThread /\ SetFlags(s))
    \/ \E d \in Dialers : (HasThread /\ Dial(d)) \/ Dialing(d) \/ Established(d)
    \/ \E f \in Fds : HasThread /\ TimerCancels(f)

Spec == Init /\ [][Next]_vars

\* Each thread goes on with its task, an idle one takes the next and polls, attempts to
\* connect end or time out, and a handler ends while its worker has a thread for it.
FairSpec ==
    /\ Spec
    /\ WF_vars(Take) /\ WF_vars(StopTask)
    /\ \A l \in Listeners : WF_vars(Acceptor(l)) /\ WF_vars(AcceptorWakes(l))
    /\ \A s \in Fibers : WF_vars(Handler(s))
    /\ \A d \in Dialers : WF_vars(Dialing(d)) /\ WF_vars(Established(d))
    /\ \A f \in Fds : WF_vars(HasThread /\ TimerCancels(f))

--------------------------------------------------------------------------
\* Every variable has its type.
TypeOK ==
    /\ m_sock \in [Sockets -> Fds \cup {NoFd}]
    /\ m_datas \in [Fds -> [of : Sockets \cup {Nobody}, user : BOOLEAN, recvTimeout : BOOLEAN]]
    /\ kernel \in [Fds -> [of : Sockets \cup {Nobody}, nonblock : BOOLEAN]]
    /\ pool \in PoolSizes /\ shared \in BOOLEAN
    /\ m_isStop \in BOOLEAN
    /\ m_socks \in SUBSET Listeners
    /\ queue \in Seq(Listeners \cup {CloseAll})
    /\ running \in SUBSET (Listeners \cup {CloseAll})
    /\ spc \in {"next", "cancelled", "deleted"}
    /\ sone \in Listeners \cup {Nobody}
    /\ apc \in [Listeners -> {"none", "loop", "accept", "again", "wait", "ended"}]
    /\ afd \in [Listeners -> Fds \cup {NoFd}]
    /\ waiting \in [Fds -> SUBSET (Listeners \cup Dialers)]
    /\ stale \in SUBSET Listeners /\ late \in SUBSET Listeners
    /\ backlog \in [Fds -> Nat]
    /\ fpc \in [Fibers -> {"none", "armed", "wait", "woken", "run", "failed", "deleted"}]
    /\ forced \in SUBSET Fibers
    /\ conn \in [Dialers -> {"none", "progress", "up", "refused"}]
    /\ cacelled \in [Dialers -> BOOLEAN]
    /\ timer \in [Dialers -> BOOLEAN]
    /\ cancelling \in SUBSET Fds
    /\ disturbed \in SUBSET Dialers /\ unwatched \in SUBSET Dialers
    /\ starts \in Nat
    /\ dials \in Nat

\* Although numbers are reused at once and a Socket is closed several times, a Socket's
\* descriptor is open and its own: nobody closes or uses the descriptor of another.
OwnDescriptor == \A s \in Sockets : m_sock[s] # NoFd => kernel[m_sock[s]].of = s

\* Sockets whose close() has deleted the FdCtx and not yet closed the descriptor.
HalfClosed == {s \in Fibers : fpc[s] = "deleted"} \cup {l \in Listeners : l = sone /\ spc = "deleted"}

\* The FdCtx of a descriptor was made for its present owner, never left by the one before,
\* and is there from the moment the owner has the number until its own close() deletes it;
\* a handler finds the receive timeout that startAccept has set.
CtxIsOwn ==
    /\ \A f \in Fds : m_datas[f] # NoCtx => m_datas[f].of = kernel[f].of
    /\ \A s \in Sockets : m_sock[s] # NoFd /\ s \notin HalfClosed => m_datas[m_sock[s]].of = s
    /\ \A c \in Clients : fpc[c] = "run" => m_datas[m_sock[c]].recvTimeout

\* do_io relies on descriptors that never block the thread.  Every open Socket's is so in the
\* kernel, for whoever had the number before and whatever its owner sets with fcntl, the
\* accepted ones that nobody touches included; the exception is an owner whose last word is
\* ioctl(FIONBIO) with 0, which the hook hands to the kernel.
NeverBlocks ==
    \A s \in Sockets : m_sock[s] # NoFd /\ s \notin forced => kernel[m_sock[s]].nonblock

\* connect() reports success only for a connection that is up, whether the event, the
\* timeout or both come first.  Two exceptions: somebody else cancelled the waiting fiber's
\* event, or addEvent failed; both let connect_with_timeout fall through to an SO_ERROR of 0.
ConnectTrue ==
    \A d \in Dialers : fpc[d] = "run" /\ d \notin disturbed \cup unwatched => conn[d] = "up"

\* After stop() no accept loop goes on for ever, not even one that waits in accept at that
\* moment.  With several threads there is an exception: an acceptor between EAGAIN and addEvent
\* while close() has done its cancelALL registers on a number nobody will wake it from.
StopEndsAccept ==
    \A l \in Listeners :
        []<>(~m_isStop \/ apc[l] \in {"none", "ended"} \/ (pool > 1 /\ l \in late))

\* No thread is left for a handler to end on, while every accept fails with EMFILE.
Starved == shared /\ ~IdleThread /\ FreeFds = {}

\* A server that runs and is not stopped leaves no connection in the backlog for ever, also
\* when all descriptors were in use (EMFILE) for a while.  The exception is a server whose
\* handlers share all their threads with accept loops that spin on EMFILE.
ClientIsServed ==
    \A f \in Fds : <>[](Listening(f) /\ ~m_isStop /\ backlog[f] > 0) => <>[]Starved
=============================================================================
