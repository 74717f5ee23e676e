----------------------------- MODULE FdManager -----------------------------
(***************************************************************************)
(* FdManager and FdCtx (src/dwframe/fd_manager.cc), the hooked calls that  *)
(* use them (socket, accept, close, fcntl, ioctl, setsockopt of hook.cc)   *)
(* and the Socket objects above (socket.cc), over a table of descriptors   *)
(* in which the kernel reuses the lowest free number.                      *)
(***************************************************************************)
EXTENDS Naturals, FiniteSets, FiniteSetsExt

CONSTANTS Fds,        \* descriptor numbers: positive
          Sockets     \* Socket objects

NoFd == 0
Nobody == "nobody"

ASSUME FdsAssumption == Fds \subseteq Nat \ {NoFd} /\ Nobody \notin Sockets

VARIABLES m_sock,     \* Socket::m_sock: the descriptor, or NoFd for -1
          m_datas,    \* FdManager::m_datas: the FdCtx of a descriptor, or NoCtx
          kernel      \* the descriptor table: whom a descriptor was given to, and O_NONBLOCK

fdVars == <<m_sock, m_datas, kernel>>

NoCtx  == [of |-> Nobody, user |-> FALSE, recvTimeout |-> FALSE]
Free   == [of |-> Nobody, nonblock |-> FALSE]

InitFds ==
    /\ m_sock = [s \in Sockets |-> NoFd]
    /\ m_datas = [f \in Fds |-> NoCtx]
    /\ kernel = [f \in Fds |-> Free]

FreeFds    == {f \in Fds : kernel[f] = Free}
LowestFree == Min(FreeFds)

FdCtx(s) == [of |-> s, user |-> FALSE, recvTimeout |-> FALSE]

\* FdManager::get with auto_create: an FdCtx that is there is kept.
getCreate(datas, f, s) == IF datas[f] = NoCtx THEN [datas EXCEPT ![f] = FdCtx(s)] ELSE datas
del(datas, f)          == [datas EXCEPT ![f] = NoCtx]

\* The system call gives s a blocking descriptor; only FdCtx::init, which runs when an
\* FdCtx is made, changes that.
NewKernel(f, s) == [of |-> s, nonblock |-> m_datas[f] = NoCtx]

\* socket() or accept() gives s the lowest free number; Socket keeps it.
Open(s) ==
    /\ FreeFds # {}
    /\ m_sock' = [m_sock EXCEPT ![s] = LowestFree]
    /\ m_datas' = getCreate(m_datas, LowestFree, s)
    /\ kernel' = [kernel EXCEPT ![LowestFree] = NewKernel(LowestFree, s)]

\* The same for an accepted connection, with Socket::setRecvTimeout of startAccept:
\* setsockopt stores the timeout in the FdCtx.
OpenAccepted(s) ==
    /\ FreeFds # {}
    /\ m_sock' = [m_sock EXCEPT ![s] = LowestFree]
    /\ m_datas' = [getCreate(m_datas, LowestFree, s) EXCEPT ![LowestFree].recvTimeout = TRUE]
    /\ kernel' = [kernel EXCEPT ![LowestFree] = NewKernel(LowestFree, s)]

\* Mutant: close() leaves the FdCtx in the table.
CloseDeleteKeeps(s) == UNCHANGED fdVars

\* Mutant: Socket::close keeps the number.
CloseEndKeepsNumber(s) ==
    /\ kernel' = [kernel EXCEPT ![m_sock[s]] = Free]
    /\ UNCHANGED <<m_sock, m_datas>>

\* The second and the third part of close(fd): FdManager::del, then the system call, after
\* which Socket::close forgets the number.
CloseDelete(s) ==
    /\ m_datas' = del(m_datas, m_sock[s])
    /\ UNCHANGED <<m_sock, kernel>>

CloseEnd(s) ==
    /\ kernel' = [kernel EXCEPT ![m_sock[s]] = Free]
    /\ m_sock' = [m_sock EXCEPT ![s] = NoFd]
    /\ UNCHANGED m_datas

\* Several sockets closed by a thread that nobody who knows them runs against.
CloseSockets(S) ==
    LET fs == {m_sock[s] : s \in S} \ {NoFd} IN
    /\ m_sock' = [s \in Sockets |-> IF s \in S THEN NoFd ELSE m_sock[s]]
    /\ m_datas' = [f \in Fds |-> IF f \in fs THEN NoCtx ELSE m_datas[f]]
    /\ kernel' = [f \in Fds |-> IF f \in fs THEN Free ELSE kernel[f]]

\* Mutant: the argument goes to the system call without O_NONBLOCK added.
fcntlPassesOn(f, nonblock) ==
    /\ m_datas' = [m_datas EXCEPT ![f].user = nonblock]
    /\ kernel' = [kernel EXCEPT ![f].nonblock = nonblock]
    /\ UNCHANGED m_sock

\* fcntl(F_SETFL) on a socket that has its FdCtx: the user's wish goes into the FdCtx and
\* O_NONBLOCK is added to the argument.
fcntl(f, nonblock) ==
    /\ m_datas' = [m_datas EXCEPT ![f].user = nonblock]
    /\ kernel' = [kernel EXCEPT ![f].nonblock = TRUE]
    /\ UNCHANGED m_sock

\* ioctl(FIONBIO) passes the argument on: it can make the descriptor blocking.
ioctl(f, nonblock) ==
    /\ m_datas' = [m_datas EXCEPT ![f].user = nonblock]
    /\ kernel' = [kernel EXCEPT ![f].nonblock = nonblock]
    /\ UNCHANGED m_sock
=============================================================================
