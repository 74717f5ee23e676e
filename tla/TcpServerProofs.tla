-------------------------- MODULE TcpServerProofs --------------------------
(***************************************************************************)
(* Proofs about TcpServer and FdManager, for any number of descriptors,    *)
(* sockets, threads, connections and restarts.                             *)
(*                                                                         *)
(* The properties of the descriptors rest on each other: a number is given *)
(* out only when the kernel has it free, and then no FdCtx is left at it,  *)
(* because whoever closes a number deletes the FdCtx first (DeletedCtx).   *)
(* ConnectTrue rests on what a woken fiber knows (WokenInv).  That an      *)
(* accept worker of one thread strands no acceptor rests on who may have   *)
(* its thread (ThreadInv).                                                 *)
(***************************************************************************)
EXTENDS TcpServer, CommonLemmas, FiniteSetTheorems, SequenceTheorems, TLAPS

(* A fiber has a descriptor from open to close, and so has the listening   *)
(* socket that the callback of stop() is closing.                          *)
Opened == {"armed", "wait", "woken", "run", "failed", "deleted"}
HasFd ==
    /\ \A s \in Fibers : m_sock[s] # NoFd <=> fpc[s] \in Opened
    /\ spc # "next" => sone \in Listeners /\ m_sock[sone] # NoFd /\ CloseAll \in running

(* An FdCtx belongs to whom the kernel has given the descriptor. *)
CtxOf == \A f \in Fds : m_datas[f] # NoCtx => m_datas[f].of # Nobody /\ m_datas[f].of = kernel[f].of

(* Between FdManager::del and the system call of close() there is none. *)
DeletedCtx == \A s \in HalfClosed : m_datas[m_sock[s]] = NoCtx

(* A connecting fiber that is registered waits, on its own descriptor.     *)
DialerWaits == \A f \in Fds : \A d \in waiting[f] \cap Dialers : fpc[d] = "wait" /\ m_sock[d] = f

(* A timer is set only within connect_with_timeout; only connecting fibers *)
(* are in its states.                                                      *)
TimerSet == \A d \in Dialers : timer[d] => fpc[d] \in {"armed", "wait", "woken"}

(* A fiber is woken by its event, by its own timer, or by another's. *)
WokenInv == \A d \in Dialers :
    fpc[d] = "woken" /\ ~cacelled[d] /\ d \notin disturbed => conn[d] \in {"up", "refused"}

FdCore == OwnDescriptor /\ CtxOf /\ DeletedCtx /\ CtxIsOwn /\ NeverBlocks
FdInv == HasFd /\ FdCore
DialInv == DialerWaits /\ TimerSet /\ WokenInv /\ ConnectTrue
IndInv == TypeOK /\ FdInv /\ DialInv

----------------------------------------------------------------------------
(* Descriptors *)

(* The kernel gives out a number that is free. *)
LEMMA LowestIsFree ==
    ASSUME FreeFds # {}
    PROVE  LowestFree \in Fds /\ kernel[LowestFree] = Free
<1>1. FreeFds \in SUBSET Nat
  BY FdsAssumption DEF FreeFds
<1>2. \E n \in FreeFds : \A m \in FreeFds : n <= m
  BY <1>1, MinExists
<1>3. LowestFree \in FreeFds
  BY <1>2 DEF LowestFree, Min
<1> QED BY <1>3 DEF FreeFds

(* Two Sockets never share a descriptor, and a free one is nobody's. *)
LEMMA FdsDistinct ==
    ASSUME TypeOK, OwnDescriptor
    PROVE  /\ \A s, t \in Sockets : m_sock[s] = m_sock[t] /\ m_sock[s] # NoFd => s = t
           /\ \A s \in Sockets, f \in Fds : kernel[f] = Free => m_sock[s] # f
           /\ \A s \in Sockets : m_sock[s] # NoFd => m_sock[s] \in Fds
           /\ NoFd \notin Fds
<1>1. NoFd \notin Fds
  BY FdsAssumption
<1>2. \A s \in Sockets : m_sock[s] # NoFd => m_sock[s] \in Fds
  BY DEF TypeOK
<1>3. \A s, t \in Sockets : m_sock[s] = m_sock[t] /\ m_sock[s] # NoFd => s = t
  BY DEF OwnDescriptor
<1>4. \A s \in Sockets, f \in Fds : kernel[f] = Free => m_sock[s] # f
  BY <1>1, FdsAssumption DEF OwnDescriptor, Free
<1> QED BY <1>1, <1>2, <1>3, <1>4

(* The kinds of Sockets are distinct. *)
LEMMA Kinds ==
    /\ Fibers \subseteq Sockets /\ Listeners \subseteq Sockets
    /\ Clients \subseteq Fibers /\ Dialers \subseteq Fibers
    /\ \A s \in Listeners : s \notin Fibers
    /\ \A c \in Clients : c \notin Dialers /\ c \notin Listeners
    /\ Nobody \notin Sockets /\ Nobody \notin Listeners /\ Nobody \notin Dialers
BY SocketsAssumption, FdsAssumption DEF Fibers

(* s gets a free number f: socket() and accept(), with the FdCtx that      *)
(* FdManager::get makes; no FdCtx of an earlier owner is there.            *)
OpensAt(s, f, timeout) ==
    /\ kernel[f] = Free
    /\ m_sock' = [m_sock EXCEPT ![s] = f]
    /\ m_datas' = [m_datas EXCEPT ![f] = [of |-> s, user |-> FALSE, recvTimeout |-> timeout]]
    /\ kernel' = [kernel EXCEPT ![f] = [of |-> s, nonblock |-> TRUE]]

(* Open and OpenAccepted do that. *)
LEMMA OpenAt ==
    ASSUME TypeOK, CtxOf, NEW s \in Sockets
    PROVE  /\ Open(s) => \E f \in Fds : OpensAt(s, f, FALSE)
           /\ OpenAccepted(s) => \E f \in Fds : OpensAt(s, f, TRUE)
<1>1. ASSUME FreeFds # {} PROVE /\ LowestFree \in Fds /\ kernel[LowestFree] = Free
                               /\ m_datas[LowestFree] = NoCtx
  BY <1>1, LowestIsFree DEF CtxOf, Free
<1>2. ASSUME Open(s) PROVE \E f \in Fds : OpensAt(s, f, FALSE)
  BY <1>1, <1>2 DEF Open, OpensAt, getCreate, FdCtx, NewKernel
<1>3. ASSUME OpenAccepted(s) PROVE \E f \in Fds : OpensAt(s, f, TRUE)
  <2> DEFINE f == LowestFree
  <2> DEFINE d == [m_datas EXCEPT ![f] = FdCtx(s)]
  <2>1. f \in Fds /\ kernel[f] = Free /\ m_datas[f] = NoCtx
    BY <1>1, <1>3 DEF OpenAccepted
  <2>2. m_datas' = [d EXCEPT ![f].recvTimeout = TRUE]
    BY <1>3, <2>1 DEF OpenAccepted, getCreate
  <2>3. [d EXCEPT ![f].recvTimeout = TRUE]
          = [m_datas EXCEPT ![f] = [of |-> s, user |-> FALSE, recvTimeout |-> TRUE]]
    <3> HIDE DEF f
    <3>1. DOMAIN m_datas = Fds
      BY DEF TypeOK
    <3>2. m_datas = [g \in Fds |-> m_datas[g]]
      BY DEF TypeOK
    <3>3. d = [g \in Fds |-> IF g = f THEN FdCtx(s) ELSE m_datas[g]]
      BY <2>1, <3>2
    <3>4. [d EXCEPT ![f].recvTimeout = TRUE]
            = [g \in Fds |-> IF g = f THEN [of |-> s, user |-> FALSE, recvTimeout |-> TRUE] ELSE m_datas[g]]
      BY <2>1, <3>3 DEF FdCtx
    <3> QED BY <2>1, <3>2, <3>4
  <2> QED BY <1>3, <2>1, <2>2, <2>3 DEF OpenAccepted, OpensAt, NewKernel
<1> QED BY <1>2, <1>3

(* A Socket that is half closed has its descriptor still. *)
LEMMA HalfClosedFds ==
    ASSUME TypeOK, HasFd
    PROVE  \A s \in HalfClosed : s \in Sockets /\ m_sock[s] # NoFd /\ m_sock[s] \in Fds
<1>1. \A s \in HalfClosed : s \in Sockets /\ m_sock[s] # NoFd
  BY Kinds DEF HalfClosed, HasFd, Opened
<1> QED BY <1>1 DEF TypeOK

(* Opening keeps the descriptors apart, also for a number that was just    *)
(* closed: nothing of the earlier owner is left at it.                     *)
LEMMA OpenKeeps ==
    ASSUME TypeOK, FdInv, NEW s \in Sockets, NEW f \in Fds, NEW timeout \in BOOLEAN,
           OpensAt(s, f, timeout),
           s \in Clients => timeout,
           s \notin HalfClosed', HalfClosed' \subseteq HalfClosed, HalfClosed \ {s} \subseteq HalfClosed',
           \A c \in Clients \ {s} : fpc'[c] = "run" => fpc[c] = "run",
           forced' = forced
    PROVE  FdCore'
<1> USE DEF FdInv, FdCore
<1>1. /\ \A x \in Sockets : m_sock'[x] = IF x = s THEN f ELSE m_sock[x]
      /\ \A g \in Fds : m_datas'[g] = IF g = f THEN [of |-> s, user |-> FALSE, recvTimeout |-> timeout]
                                      ELSE m_datas[g]
      /\ \A g \in Fds : kernel'[g] = IF g = f THEN [of |-> s, nonblock |-> TRUE] ELSE kernel[g]
  BY DEF OpensAt, TypeOK
<1>2. \A x \in Sockets : m_sock[x] # f /\ (m_sock[x] # NoFd => m_sock[x] \in Fds)
  BY FdsDistinct DEF OpensAt
<1>5. OwnDescriptor'
  BY <1>1, <1>2 DEF OwnDescriptor
<1>6. CtxOf'
  BY <1>1, FdsAssumption DEF CtxOf
<1>7. DeletedCtx'
  <2>1. ASSUME NEW x \in HalfClosed' PROVE m_datas'[m_sock'[x]] = NoCtx
    <3>1. x # s /\ x \in HalfClosed
      BY <2>1
    <3>2. x \in Sockets /\ m_sock[x] \in Fds /\ m_sock[x] # f
      BY <3>1, <1>2, HalfClosedFds
    <3>3. m_sock'[x] = m_sock[x]
      BY <3>1, <3>2, <1>1
    <3> QED BY <3>1, <3>2, <3>3, <1>1 DEF DeletedCtx
  <2> QED BY <2>1 DEF DeletedCtx
<1>8. CtxIsOwn'
  <2>1. \A g \in Fds : m_datas'[g] # NoCtx => m_datas'[g].of = kernel'[g].of
    BY <1>1 DEF CtxIsOwn
  <2>2. ASSUME NEW x \in Sockets, m_sock'[x] # NoFd, x \notin HalfClosed'
        PROVE m_datas'[m_sock'[x]].of = x
    <3>1. CASE x = s
      BY <3>1, <1>1
    <3>2. CASE x # s
      <4>1. m_sock'[x] = m_sock[x] /\ m_sock[x] \in Fds /\ m_sock[x] # f
        BY <2>2, <3>2, <1>1, <1>2
      <4>2. x \notin HalfClosed
        BY <2>2, <3>2
      <4>3. m_datas[m_sock[x]].of = x
        BY <4>1, <4>2, FdsDistinct DEF CtxIsOwn
      <4> QED BY <4>1, <4>3, <1>1
    <3> QED BY <3>1, <3>2
  <2>3. ASSUME NEW c \in Clients, fpc'[c] = "run" PROVE m_datas'[m_sock'[c]].recvTimeout
    <3>1. c \in Sockets /\ c \in Fibers
      BY Kinds
    <3>2. CASE c = s
      BY <3>1, <3>2, <1>1
    <3>3. CASE c # s
      <4>1. fpc[c] = "run"
        BY <2>3, <3>1, <3>3
      <4>2. m_sock'[c] = m_sock[c] /\ m_sock[c] \in Fds /\ m_sock[c] # f
        BY <3>1, <3>3, <4>1, <1>1, <1>2 DEF HasFd, Opened
      <4> QED BY <4>1, <4>2, <1>1 DEF CtxIsOwn
    <3> QED BY <3>2, <3>3
  <2> QED BY <2>1, <2>2, <2>3 DEF CtxIsOwn
<1>9. NeverBlocks'
  <2>1. ASSUME NEW x \in Sockets, m_sock'[x] # NoFd, x \notin forced PROVE kernel'[m_sock'[x]].nonblock
    <3>1. CASE x = s
      BY <3>1, <1>1
    <3>2. CASE x # s
      BY <2>1, <3>2, <1>1, <1>2 DEF NeverBlocks
    <3> QED BY <3>1, <3>2
  <2> QED BY <2>1 DEF NeverBlocks
<1> QED BY <1>5, <1>6, <1>7, <1>8, <1>9

(* bind() that fails closes the listening sockets, and no descriptor of    *)
(* anybody else.                                                           *)
LEMMA CloseListenersKeeps ==
    ASSUME TypeOK, FdInv, CloseSockets(m_socks), HalfClosed' = HalfClosed, HalfClosed \cap m_socks = {},
           fpc' = fpc, forced' = forced
    PROVE  FdCore'
<1> USE DEF FdInv, FdCore
<1> DEFINE fs == {m_sock[s] : s \in m_socks} \ {NoFd}
<1>0. m_socks \subseteq Listeners
  BY DEF TypeOK
<1>1. /\ \A x \in Sockets : m_sock'[x] = IF x \in m_socks THEN NoFd ELSE m_sock[x]
      /\ \A g \in Fds : m_datas'[g] = IF g \in fs THEN NoCtx ELSE m_datas[g]
      /\ \A g \in Fds : kernel'[g] = IF g \in fs THEN Free ELSE kernel[g]
  BY DEF CloseSockets
<1>2. \A x \in Sockets : x \notin m_socks /\ m_sock[x] # NoFd => m_sock[x] \in Fds \ fs
  BY <1>0, Kinds, FdsDistinct
<1>3. \A x \in Fibers : x \notin m_socks /\ x \in Sockets
  BY <1>0, Kinds
<1> HIDE DEF fs
<1>5. OwnDescriptor'
  BY <1>1, <1>2 DEF OwnDescriptor
<1>6. CtxOf'
  BY <1>1 DEF CtxOf
<1>7. DeletedCtx'
  <2>1. ASSUME NEW x \in HalfClosed PROVE m_datas'[m_sock'[x]] = NoCtx
    <3>1. x \in Sockets /\ x \notin m_socks /\ m_sock[x] # NoFd
      BY <2>1, HalfClosedFds
    <3>2. m_sock[x] \in Fds \ fs /\ m_sock'[x] = m_sock[x]
      BY <3>1, <1>1, <1>2
    <3> QED BY <2>1, <3>2, <1>1 DEF DeletedCtx
  <2> QED BY <2>1 DEF DeletedCtx
<1>8. CtxIsOwn'
  <2>1. \A g \in Fds : m_datas'[g] # NoCtx => m_datas'[g].of = kernel'[g].of
    BY <1>1 DEF CtxIsOwn
  <2>2. ASSUME NEW x \in Sockets, m_sock'[x] # NoFd, x \notin HalfClosed
        PROVE m_datas'[m_sock'[x]].of = x
    <3>1. m_sock'[x] = m_sock[x] /\ m_sock[x] \in Fds \ fs
      BY <2>2, <1>1, <1>2
    <3>2. m_datas[m_sock[x]].of = x
      BY <2>2, <3>1, FdsDistinct DEF CtxIsOwn
    <3> QED BY <3>1, <3>2, <1>1
  <2>3. ASSUME NEW c \in Clients, fpc[c] = "run" PROVE m_datas'[m_sock'[c]].recvTimeout
    <3>1. m_sock[c] \in Fds \ fs /\ m_sock'[c] = m_sock[c]
      BY <2>3, <1>1, <1>2, <1>3, Kinds DEF HasFd, Opened
    <3> QED BY <2>3, <3>1, <1>1 DEF CtxIsOwn
  <2> QED BY <2>1, <2>2, <2>3 DEF CtxIsOwn
<1>9. NeverBlocks'
  BY <1>1, <1>2 DEF NeverBlocks
<1> QED BY <1>5, <1>6, <1>7, <1>8, <1>9

(* close(), first part: cancelALL and FdManager::del. *)
LEMMA DeleteKeeps ==
    ASSUME TypeOK, FdInv, NEW s \in Sockets, m_sock[s] # NoFd, CloseDelete(s),
           HalfClosed' = HalfClosed \cup {s}, forced' = forced,
           \A c \in Clients : fpc'[c] = "run" => fpc[c] = "run" /\ c # s
    PROVE  FdCore'
<1> USE DEF FdInv, FdCore
<1>0. m_sock[s] \in Fds
  BY FdsDistinct
<1>1. /\ UNCHANGED <<m_sock, kernel>>
      /\ \A g \in Fds : m_datas'[g] = IF g = m_sock[s] THEN NoCtx ELSE m_datas[g]
  BY <1>0 DEF CloseDelete, del, TypeOK
<1>2. \A x \in Sockets \ {s} : m_sock[x] # m_sock[s] /\ (m_sock[x] # NoFd => m_sock[x] \in Fds)
  BY <1>0, FdsDistinct
<1>4. OwnDescriptor' /\ CtxOf' /\ NeverBlocks'
  BY <1>1 DEF OwnDescriptor, CtxOf, NeverBlocks
<1>5. DeletedCtx'
  <2>1. ASSUME NEW x \in HalfClosed \cup {s} PROVE m_datas'[m_sock[x]] = NoCtx
    <3>1. CASE x = s
      BY <3>1, <1>0, <1>1
    <3>2. CASE x # s
      <4>1. m_sock[x] \in Fds /\ m_datas[m_sock[x]] = NoCtx
        BY <2>1, <3>2, HalfClosedFds DEF DeletedCtx
      <4> QED BY <4>1, <1>1
    <3> QED BY <3>1, <3>2
  <2> QED BY <2>1, <1>1 DEF DeletedCtx
<1>6. CtxIsOwn'
  <2>1. \A g \in Fds : m_datas'[g] # NoCtx => m_datas'[g].of = kernel'[g].of
    BY <1>1 DEF CtxIsOwn
  <2>2. ASSUME NEW x \in Sockets, m_sock[x] # NoFd, x \notin HalfClosed \cup {s}
        PROVE m_datas'[m_sock[x]].of = x
    <3>1. x # s /\ m_sock[x] \in Fds /\ m_sock[x] # m_sock[s] /\ x \notin HalfClosed
      BY <2>2, <1>2
    <3>2. m_datas[m_sock[x]].of = x
      BY <2>2, <3>1 DEF CtxIsOwn
    <3> QED BY <3>1, <3>2, <1>1
  <2>3. ASSUME NEW c \in Clients, fpc'[c] = "run" PROVE m_datas'[m_sock[c]].recvTimeout
    <3>1. c # s /\ fpc[c] = "run" /\ m_sock[c] \in Fds /\ m_sock[c] # m_sock[s]
      BY <2>3, <1>2, Kinds DEF HasFd, Opened
    <3> QED BY <3>1, <1>1 DEF CtxIsOwn
  <2> QED BY <2>1, <2>2, <2>3, <1>1 DEF CtxIsOwn
<1> QED BY <1>4, <1>5, <1>6

(* close(), second part: the system call, after which the number is free   *)
(* and the Socket has none.                                                *)
LEMMA EndKeeps ==
    ASSUME TypeOK, FdInv, NEW s \in HalfClosed, CloseEnd(s),
           HalfClosed' = HalfClosed \ {s}, forced \ {s} \subseteq forced',
           \A c \in Clients : fpc'[c] = "run" => fpc[c] = "run" /\ c # s
    PROVE  FdCore'
<1> USE DEF FdInv, FdCore
<1>0. s \in Sockets /\ m_sock[s] \in Fds /\ m_sock[s] # NoFd
  BY HalfClosedFds
<1>1. /\ UNCHANGED m_datas
      /\ \A x \in Sockets : m_sock'[x] = IF x = s THEN NoFd ELSE m_sock[x]
      /\ \A g \in Fds : kernel'[g] = IF g = m_sock[s] THEN Free ELSE kernel[g]
  BY <1>0 DEF CloseEnd, TypeOK
<1>2. \A x \in Sockets \ {s} : m_sock[x] # m_sock[s] /\ (m_sock[x] # NoFd => m_sock[x] \in Fds)
  BY <1>0, FdsDistinct
<1>4. OwnDescriptor'
  BY <1>1, <1>2 DEF OwnDescriptor
<1>5. m_datas[m_sock[s]] = NoCtx
  BY <1>0 DEF DeletedCtx
<1>6. CtxOf'
  BY <1>1, <1>5 DEF CtxOf
<1>7. DeletedCtx'
  BY <1>1, HalfClosedFds DEF DeletedCtx
<1>8. CtxIsOwn'
  <2>1. \A g \in Fds : m_datas'[g] # NoCtx => m_datas'[g].of = kernel'[g].of
    BY <1>1, <1>5 DEF CtxIsOwn
  <2>2. ASSUME NEW x \in Sockets, m_sock'[x] # NoFd, x \notin HalfClosed \ {s}
        PROVE m_datas'[m_sock'[x]].of = x
    <3>1. x # s /\ m_sock'[x] = m_sock[x] /\ x \notin HalfClosed
      BY <2>2, <1>1
    <3> QED BY <2>2, <3>1, <1>1 DEF CtxIsOwn
  <2>3. ASSUME NEW c \in Clients, fpc'[c] = "run" PROVE m_datas'[m_sock'[c]].recvTimeout
    <3>1. c # s /\ fpc[c] = "run" /\ m_sock'[c] = m_sock[c]
      BY <2>3, <1>1, Kinds
    <3> QED BY <3>1, <1>1 DEF CtxIsOwn
  <2> QED BY <2>1, <2>2, <2>3 DEF CtxIsOwn
<1>9. NeverBlocks'
  BY <1>1, <1>2 DEF NeverBlocks
<1> QED BY <1>4, <1>6, <1>7, <1>8, <1>9

(* A second close of the same Socket finds no descriptor. *)
LEMMA CloseAgainKeeps ==
    ASSUME TypeOK, HasFd, NEW s \in Fibers, CloseAgain(s)
    PROVE  UNCHANGED vars
<1>0. s \in Sockets /\ m_sock[s] = NoFd
  BY Kinds DEF CloseAgain, HasFd, Opened
<1>1. \A f : f \notin {m_sock[x] : x \in {s}} \ {NoFd}
  BY <1>0
<1>2. m_sock' = m_sock
  BY <1>0 DEF CloseAgain, CloseSockets, TypeOK
<1>3. m_datas' = m_datas
  BY <1>1 DEF CloseAgain, CloseSockets, TypeOK
<1>4. kernel' = kernel
  BY <1>1 DEF CloseAgain, CloseSockets, TypeOK
<1> QED BY <1>2, <1>3, <1>4 DEF CloseAgain, vars, fdVars

(* fcntl and ioctl of a Socket's owner: fcntl keeps the descriptor         *)
(* non-blocking whatever it is asked for, and ioctl that does not is       *)
(* remembered.                                                             *)
LEMMA SetFlagsKeeps ==
    ASSUME TypeOK, FdInv, NEW c \in Fibers, SetFlags(c)
    PROVE  FdInv'
<1> USE DEF FdInv, FdCore
<1>a. UNCHANGED <<m_sock, fpc, spc, sone, running, HalfClosed>>
  BY DEF SetFlags, fcntl, ioctl, workerVars, HalfClosed
<1>0. c \in Sockets /\ fpc[c] = "run" /\ m_sock[c] \in Fds /\ m_datas[m_sock[c]].of = c
  <2>1. c \in Sockets /\ fpc[c] = "run"
    BY Kinds DEF SetFlags
  <2>2. m_sock[c] \in Fds /\ m_sock[c] # NoFd /\ c \notin HalfClosed
    BY <2>1, FdsDistinct, Kinds DEF HasFd, Opened, HalfClosed
  <2> QED BY <2>1, <2>2 DEF CtxIsOwn
<1>1. PICK b \in BOOLEAN :
        \/ fcntl(m_sock[c], b) /\ forced' = forced \ {c}
        \/ ioctl(m_sock[c], b) /\ forced' = IF b THEN forced \ {c} ELSE forced \cup {c}
  BY DEF SetFlags
<1>2. PICK k \in BOOLEAN :
        /\ m_datas' = [m_datas EXCEPT ![m_sock[c]].user = b]
        /\ kernel' = [kernel EXCEPT ![m_sock[c]].nonblock = k]
        /\ forced \ {c} \subseteq forced' /\ (k \/ c \in forced')
  BY <1>1 DEF fcntl, ioctl
<1>4. \A g \in Fds :
        /\ m_datas'[g].of = m_datas[g].of
        /\ m_datas'[g].recvTimeout = m_datas[g].recvTimeout
        /\ g # m_sock[c] => m_datas'[g] = m_datas[g]
        /\ kernel'[g].of = kernel[g].of
        /\ kernel'[g].nonblock = IF g = m_sock[c] THEN k ELSE kernel[g].nonblock
  BY <1>0, <1>2 DEF TypeOK
<1>5. m_datas[m_sock[c]] # NoCtx /\ m_datas[m_sock[c]].of # Nobody
  BY <1>0, Kinds DEF NoCtx
<1>6. HasFd' /\ OwnDescriptor'
  BY <1>a, <1>4, FdsDistinct DEF HasFd, OwnDescriptor
<1>7. CtxOf'
  BY <1>4, <1>5 DEF CtxOf
<1>8. DeletedCtx'
  <2>1. ASSUME NEW x \in HalfClosed PROVE m_datas'[m_sock[x]] = NoCtx
    <3>1. m_sock[x] \in Fds /\ m_datas[m_sock[x]] = NoCtx
      BY <2>1, HalfClosedFds DEF DeletedCtx
    <3>2. m_sock[x] # m_sock[c]
      BY <3>1, <1>5
    <3> QED BY <3>1, <3>2, <1>4
  <2> QED BY <2>1, <1>a DEF DeletedCtx
<1>9. CtxIsOwn'
  <2>1. \A g \in Fds : m_datas'[g] # NoCtx => m_datas'[g].of = kernel'[g].of
    BY <1>7 DEF CtxOf
  <2>2. ASSUME NEW x \in Sockets, m_sock[x] # NoFd, x \notin HalfClosed
        PROVE m_datas'[m_sock[x]].of = x
    BY <2>2, <1>4, FdsDistinct DEF CtxIsOwn
  <2>3. ASSUME NEW d \in Clients, fpc[d] = "run" PROVE m_datas'[m_sock[d]].recvTimeout
    <3>1. m_sock[d] \in Fds
      BY <2>3, Kinds, FdsDistinct DEF HasFd, Opened
    <3> QED BY <2>3, <3>1, <1>4 DEF CtxIsOwn
  <2> QED BY <2>1, <2>2, <2>3, <1>a DEF CtxIsOwn
<1>10. NeverBlocks'
  <2>1. ASSUME NEW x \in Sockets, m_sock[x] # NoFd, x \notin forced' PROVE kernel'[m_sock[x]].nonblock
    <3>1. m_sock[x] \in Fds /\ (x # c => m_sock[x] # m_sock[c])
      BY <2>1, <1>0, FdsDistinct
    <3>2. CASE x = c
      BY <2>1, <3>1, <3>2, <1>2, <1>4
    <3>3. CASE x # c
      BY <2>1, <3>1, <3>3, <1>2, <1>4 DEF NeverBlocks
    <3> QED BY <3>2, <3>3
  <2> QED BY <2>1, <1>a DEF NeverBlocks
<1> QED BY <1>6, <1>7, <1>8, <1>9, <1>10

----------------------------------------------------------------------------
(* The steps by what they leave alone *)

(* Steps of the accept worker and of the application that give and take no *)
(* descriptor.                                                             *)
WorkerStep ==
    \/ Start \/ Stop \/ Take \/ StopClears
    \/ \E l \in Listeners : \/ AcceptLoop(l) \/ AcceptAgain(l) \/ AcceptWaits(l) \/ AcceptFails(l)
                           \/ AcceptorWakes(l) \/ LateWakes(l) \/ StopCancels(l)

(* Steps within connect_with_timeout. *)
DialerStep ==
    \/ \E d \in Dialers : \/ DialWaits(d) \/ DialUnwatched(d) \/ DialerWakes(d) \/ TimerMarks(d)
                         \/ DialReturns(d) \/ Established(d)
    \/ \E f \in Fds : TimerCancels(f)

(* The other steps open or close a descriptor or change its mode. *)
LEMMA StepCases ==
    ASSUME TypeOK, HasFd, [Next]_vars
    PROVE  \/ UNCHANGED vars \/ WorkerStep \/ DialerStep
           \/ (\E l \in Listeners : BindOne(l) \/ AcceptTakes(l))
           \/ BindFails \/ StopDeletes \/ StopShuts
           \/ (\E s \in Fibers : CloseBegin(s) \/ CloseLast(s) \/ SetFlags(s))
           \/ (\E d \in Dialers : Dial(d))
<1>1. \A s \in Fibers : CloseAgain(s) => UNCHANGED vars
  BY CloseAgainKeeps
<1> QED BY <1>1 DEF Next, Acceptor, StopTask, Handler, Dialing, WorkerStep, DialerStep

(* Waking acceptors takes no connecting fiber out of the IOManager. *)
LEMMA WakeFrame ==
    ASSUME TypeOK, NEW f, NEW S, S \subseteq Listeners, WakeAcceptors(f, S)
    PROVE  /\ \A g \in Fds : /\ waiting'[g] \subseteq waiting[g]
                            /\ waiting[g] \cap Dialers \subseteq waiting'[g]
           /\ waiting' \in [Fds -> SUBSET (Listeners \cup Dialers)]
           /\ UNCHANGED <<running, afd, stale>> /\ late' \subseteq late
<1>1. S \cap Dialers = {}
  BY Kinds
<1> QED BY <1>1 DEF WakeAcceptors, TypeOK

(* cancelALL wakes acceptors. *)
LEMMA CancelFrame ==
    ASSUME TypeOK, NEW f, cancelALL(f)
    PROVE  \E S \in SUBSET Listeners : WakeAcceptors(f, S)
BY DEF cancelALL

(* The worker leaves fibers, their calls and descriptors alone, and the    *)
(* callback of stop() keeps its thread until it ends.                      *)
LEMMA WorkerFrame ==
    ASSUME TypeOK, WorkerStep
    PROVE  /\ UNCHANGED <<fdVars, fpc, forced, dialVars, backlog>>
           /\ HasFd => HasFd'
           /\ HalfClosed' = HalfClosed
           /\ \A f \in Fds : waiting'[f] \cap Dialers \subseteq waiting[f]
<1>0. \A l \in Listeners : l # CloseAll
  BY SocketsAssumption
<1>1. CASE Start \/ Stop \/ Take \/ StopClears
  <2>1. UNCHANGED <<fdVars, spc, sone, fpc, forced, dialVars, backlog, waiting>>
    BY <1>1 DEF Start, Stop, Take, StopClears
  <2>2. spc # "next" => running \subseteq running'
    BY <1>1 DEF Start, Stop, Take, StopClears
  <2> QED BY <2>1, <2>2 DEF HasFd, HalfClosed, fdVars
<1>2. ASSUME NEW l \in Listeners, AcceptLoop(l) \/ AcceptAgain(l) \/ AcceptWaits(l) \/ AcceptFails(l)
      PROVE /\ UNCHANGED <<fdVars, spc, sone, fpc, forced, dialVars, backlog>>
            /\ running \ {l} \subseteq running'
            /\ \A f \in Fds : waiting'[f] \subseteq waiting[f] \cup {l}
  <2>1. CASE AcceptLoop(l)
    BY <2>1 DEF AcceptLoop
  <2>2. CASE AcceptAgain(l) \/ AcceptFails(l)
    BY <2>2 DEF AcceptAgain, AcceptFails
  <2>3. CASE AcceptWaits(l)
    BY <2>3 DEF AcceptWaits, TypeOK
  <2> QED BY <1>2, <2>1, <2>2, <2>3
<1>3. ASSUME NEW l \in Listeners, AcceptorWakes(l) \/ LateWakes(l)
      PROVE /\ UNCHANGED <<fdVars, spc, sone, fpc, forced, dialVars, backlog, running>>
            /\ \A f \in Fds : waiting'[f] \subseteq waiting[f]
  <2>1. WakeAcceptors(afd[l], {l}) /\ UNCHANGED <<fdVars, spc, sone, fpc, forced, dialVars, backlog>>
    BY <1>3 DEF AcceptorWakes, LateWakes
  <2> QED BY <2>1, WakeFrame
<1>4. ASSUME NEW l \in Listeners, StopCancels(l)
      PROVE /\ UNCHANGED <<fdVars, fpc, forced, dialVars, backlog, running>>
            /\ spc = "next" /\ spc' = "cancelled" /\ sone' = l /\ m_sock[l] # NoFd /\ CloseAll \in running
            /\ \A f \in Fds : waiting'[f] \subseteq waiting[f]
  <2>1. PICK S \in SUBSET Listeners : WakeAcceptors(m_sock[l], S)
    BY <1>4, CancelFrame DEF StopCancels
  <2>2. UNCHANGED running /\ \A f \in Fds : waiting'[f] \subseteq waiting[f]
    BY <2>1, WakeFrame
  <2> QED BY <1>4, <2>2 DEF StopCancels
<1>5. ASSUME NEW l \in Listeners, AcceptLoop(l) \/ AcceptAgain(l) \/ AcceptWaits(l) \/ AcceptFails(l)
                                    \/ AcceptorWakes(l) \/ LateWakes(l)
      PROVE /\ UNCHANGED <<fdVars, fpc, forced, dialVars, backlog>>
            /\ HasFd => HasFd'
            /\ HalfClosed' = HalfClosed
            /\ \A f \in Fds : waiting'[f] \cap Dialers \subseteq waiting[f]
  <2>1. /\ UNCHANGED <<fdVars, spc, sone, fpc, forced, dialVars, backlog>>
        /\ running \ {l} \subseteq running'
        /\ \A f \in Fds : waiting'[f] \subseteq waiting[f] \cup {l}
    BY <1>2, <1>3, <1>5
  <2>2. l \notin Dialers /\ l # CloseAll
    BY <1>0, Kinds
  <2>3. \A f \in Fds : waiting'[f] \cap Dialers \subseteq waiting[f]
    BY <2>1, <2>2
  <2>4. CloseAll \in running => CloseAll \in running'
    BY <2>1, <2>2
  <2> QED BY <2>1, <2>3, <2>4 DEF HasFd, HalfClosed, fdVars
<1>6. ASSUME NEW l \in Listeners, StopCancels(l)
      PROVE /\ UNCHANGED <<fdVars, fpc, forced, dialVars, backlog>>
            /\ HasFd => HasFd'
            /\ HalfClosed' = HalfClosed
            /\ \A f \in Fds : waiting'[f] \cap Dialers \subseteq waiting[f]
  BY <1>4, <1>6 DEF HasFd, HalfClosed, fdVars
<1> QED BY <1>1, <1>5, <1>6 DEF WorkerStep

(* A connecting fiber changes only itself, within an open descriptor. *)
LEMMA DialerFrame ==
    ASSUME TypeOK, DialerWaits, DialerStep
    PROVE  /\ UNCHANGED <<fdVars, serverVars, queue, running, spc, sone, apc, afd, stale, late, forced>>
           /\ \A x \in Fibers : \/ fpc'[x] = fpc[x]
                               \/ /\ x \in Dialers /\ fpc[x] \in Opened \ {"deleted"}
                                  /\ fpc'[x] \in Opened \ {"deleted"}
<1> USE DEF Opened
<1>1. ASSUME NEW d \in Dialers, DialWaits(d) \/ DialerWakes(d)
      PROVE /\ UNCHANGED <<fdVars, serverVars, queue, running, spc, sone, apc, afd, stale, late, forced>>
            /\ fpc[d] \in {"armed", "wait"} /\ \E p \in {"wait", "woken"} : fpc' = [fpc EXCEPT ![d] = p]
  BY <1>1 DEF DialWaits, DialerWakes, Wake
<1>2. ASSUME NEW d \in Dialers, DialUnwatched(d) \/ DialReturns(d)
      PROVE /\ UNCHANGED <<fdVars, serverVars, queue, running, spc, sone, apc, afd, stale, late, forced>>
            /\ fpc[d] \in {"armed", "woken"} /\ \E p \in {"run", "failed"} : fpc' = [fpc EXCEPT ![d] = p]
  BY <1>2 DEF DialUnwatched, DialReturns, workerVars
<1>3. ASSUME NEW d \in Dialers, TimerMarks(d) \/ Established(d)
      PROVE UNCHANGED <<fdVars, serverVars, queue, running, spc, sone, apc, afd, stale, late, forced, fpc>>
  BY <1>3 DEF TimerMarks, Established, workerVars
<1>4. ASSUME NEW f \in Fds, TimerCancels(f)
      PROVE /\ UNCHANGED <<fdVars, serverVars, queue, running, spc, sone, apc, afd, stale, late, forced>>
            /\ fpc' = fpc \/ \E d \in Dialers : fpc[d] = "wait" /\ fpc' = [fpc EXCEPT ![d] = "woken"]
  BY <1>4 DEF TimerCancels, Wake, DialerWaits
<1>5. ASSUME NEW d \in Dialers, NEW p \in Opened \ {"deleted"}, fpc[d] \in Opened \ {"deleted"},
             fpc' = [fpc EXCEPT ![d] = p], NEW x \in Fibers
      PROVE \/ fpc'[x] = fpc[x]
            \/ /\ x \in Dialers /\ fpc[x] \in Opened \ {"deleted"}
               /\ fpc'[x] \in Opened \ {"deleted"}
  BY <1>5 DEF TypeOK
<1> QED BY <1>1, <1>2, <1>3, <1>4, <1>5 DEF DialerStep

----------------------------------------------------------------------------
(* Every step of the server, the handlers and the connecting fibers keeps  *)
(* descriptors, FdCtx objects and owners together.                         *)
LEMMA FdStep ==
    ASSUME TypeOK, FdInv, DialerWaits, [Next]_vars
    PROVE  FdInv'
<1>1. ASSUME UNCHANGED <<fdVars, forced, HalfClosed>>,
             \A c \in Clients : fpc'[c] = "run" => fpc[c] = "run"
      PROVE FdCore'
  <2> USE DEF FdInv, FdCore
  <2>1. OwnDescriptor' /\ CtxOf' /\ NeverBlocks' /\ DeletedCtx'
    BY <1>1 DEF OwnDescriptor, CtxOf, NeverBlocks, DeletedCtx, fdVars
  <2>2. CtxIsOwn'
    BY <1>1 DEF CtxIsOwn, fdVars
  <2> QED BY <2>1, <2>2
<1>2. CASE UNCHANGED vars
  <2>1. UNCHANGED <<fdVars, forced, HalfClosed, fpc, spc, sone, running>>
    BY <1>2 DEF vars, workerVars, HalfClosed
  <2> QED BY <1>1, <2>1 DEF FdInv, HasFd, fdVars
<1>3. CASE WorkerStep
  BY <1>1, <1>3, WorkerFrame DEF FdInv
<1>4. CASE DialerStep
  <2>1. /\ UNCHANGED <<fdVars, running, spc, sone, forced>>
        /\ \A x \in Fibers : \/ fpc'[x] = fpc[x]
                            \/ /\ x \in Dialers /\ fpc[x] \in Opened \ {"deleted"}
                               /\ fpc'[x] \in Opened \ {"deleted"}
    BY <1>4, DialerFrame
  <2>2. HasFd'
    BY <2>1 DEF FdInv, HasFd, fdVars
  <2>3. HalfClosed' = HalfClosed
    BY <2>1 DEF HalfClosed
  <2>4. \A c \in Clients : fpc'[c] = "run" => fpc[c] = "run"
    BY <2>1, Kinds
  <2> QED BY <1>1, <2>1, <2>2, <2>3, <2>4 DEF FdInv
<1>5. ASSUME NEW l \in Listeners, BindOne(l) PROVE FdInv'
  <2>1. PICK f \in Fds : OpensAt(l, f, FALSE)
    BY <1>5, OpenAt, Kinds DEF BindOne, FdInv, FdCore
  <2>2. UNCHANGED <<fpc, forced, spc, sone, running>> /\ l \notin Fibers /\ l \notin Clients /\ l \in Sockets
    BY <1>5, Kinds DEF BindOne, workerVars
  <2>3. spc = "next"
    BY <1>5 DEF BindOne, Settled, FdInv, HasFd
  <2>4. HalfClosed' = HalfClosed /\ l \notin HalfClosed
    BY <2>2, <2>3 DEF HalfClosed
  <2>5. HasFd'
    <3>1. \A x \in Fibers : m_sock'[x] = m_sock[x]
      BY <2>1, <2>2, Kinds DEF OpensAt, TypeOK
    <3> QED BY <2>2, <2>3, <3>1 DEF FdInv, HasFd
  <2> QED BY <2>1, <2>2, <2>4, <2>5, OpenKeeps DEF FdInv
<1>6. CASE BindFails
  <2>1. UNCHANGED <<fpc, forced, spc, sone, running>> /\ spc = "next" /\ CloseSockets(m_socks)
    BY <1>6 DEF BindFails, Settled, FdInv, HasFd, workerVars
  <2>2. HalfClosed' = HalfClosed /\ HalfClosed \cap m_socks = {}
    BY <2>1, Kinds DEF HalfClosed, TypeOK
  <2>3. HasFd'
    <3>1. \A x \in Fibers : m_sock'[x] = m_sock[x]
      BY <2>1, Kinds DEF CloseSockets, TypeOK
    <3> QED BY <2>1, <3>1 DEF FdInv, HasFd
  <2> QED BY <2>1, <2>2, <2>3, CloseListenersKeeps DEF FdInv
(* A fiber s gets its number, while the callback of stop() is where it was. *)
<1>7. ASSUME NEW s \in Fibers, NEW f \in Fds, NEW b \in BOOLEAN, OpensAt(s, f, b), s \in Clients => b,
             NEW p \in Opened \ {"deleted"}, fpc' = [fpc EXCEPT ![s] = p], fpc[s] = "none",
             UNCHANGED <<forced, spc, sone, running>>
      PROVE FdInv'
  <2>1. s \in Sockets /\ s \notin Listeners /\ f # NoFd
    BY Kinds, FdsDistinct DEF FdInv, FdCore
  <2>2. \A x \in Fibers : fpc'[x] = IF x = s THEN p ELSE fpc[x]
    BY <1>7 DEF TypeOK
  <2>3. HalfClosed' = HalfClosed /\ s \notin HalfClosed
    BY <1>7, <2>1, <2>2 DEF HalfClosed
  <2>4. \A x \in Sockets : m_sock'[x] = IF x = s THEN f ELSE m_sock[x]
    BY <1>7, <2>1 DEF OpensAt, TypeOK
  <2>5. HasFd'
    BY <1>7, <2>1, <2>2, <2>4, Kinds DEF FdInv, HasFd
  <2>6. \A c \in Clients \ {s} : fpc'[c] = "run" => fpc[c] = "run"
    BY <2>2, Kinds
  <2> QED BY <1>7, <2>1, <2>3, <2>5, <2>6, OpenKeeps DEF FdInv
<1>8. ASSUME NEW l \in Listeners, AcceptTakes(l) PROVE FdInv'
  <2>1. PICK c \in Clients : fpc[c] = "none" /\ OpenAccepted(c) /\ fpc' = [fpc EXCEPT ![c] = "run"]
    BY <1>8 DEF AcceptTakes
  <2>2. c \in Sockets /\ c \in Fibers
    BY Kinds
  <2>3. PICK f \in Fds : OpensAt(c, f, TRUE)
    BY <2>1, <2>2, OpenAt DEF FdInv, FdCore
  <2>4. UNCHANGED <<forced, spc, sone, running>>
    BY <1>8 DEF AcceptTakes
  <2>5. "run" \in Opened \ {"deleted"}
    BY DEF Opened
  <2> QED BY <1>7, <2>1, <2>2, <2>3, <2>4, <2>5
<1>9. ASSUME NEW d \in Dialers, Dial(d) PROVE FdInv'
  <2>1. d \in Sockets /\ d \in Fibers /\ d \notin Clients
    BY Kinds
  <2>2. PICK f \in Fds : OpensAt(d, f, FALSE)
    BY <1>9, <2>1, OpenAt DEF FdInv, FdCore, Dial
  <2>3. PICK p \in Opened \ {"deleted"} : fpc' = [fpc EXCEPT ![d] = p]
    BY <1>9 DEF Dial, Opened
  <2>4. UNCHANGED <<forced, spc, sone, running>> /\ fpc[d] = "none"
    BY <1>9 DEF Dial, workerVars
  <2> QED BY <1>7, <2>1, <2>2, <2>3, <2>4
<1>10. CASE StopDeletes
  <2>1. sone \in Listeners /\ sone \in Sockets /\ m_sock[sone] # NoFd /\ CloseAll \in running
    BY <1>10, Kinds DEF StopDeletes, FdInv, HasFd
  <2>2. PICK S \in SUBSET Listeners : WakeAcceptors(m_sock[sone], S)
    BY <1>10, CancelFrame DEF StopDeletes
  <2>3. UNCHANGED <<sone, fpc, forced, running>> /\ spc' = "deleted" /\ CloseDelete(sone) /\ spc # "deleted"
    BY <1>10, <2>2, WakeFrame DEF StopDeletes
  <2>4. HalfClosed' = HalfClosed \cup {sone}
    BY <2>1, <2>3 DEF HalfClosed
  <2>5. \A c \in Clients : fpc'[c] = "run" => fpc[c] = "run" /\ c # sone
    BY <2>1, <2>3, Kinds
  <2>6. HasFd'
    BY <2>1, <2>3 DEF CloseDelete, FdInv, HasFd
  <2> QED BY <2>1, <2>3, <2>4, <2>5, <2>6, DeleteKeeps DEF FdInv
<1>11. CASE StopShuts
  <2>1. sone \in Listeners /\ sone \in Sockets /\ sone \in HalfClosed /\ Nobody \notin Listeners
    BY <1>11, Kinds DEF StopShuts, FdInv, HasFd, HalfClosed
  <2>2. UNCHANGED <<fpc, forced, running>> /\ spc' = "next" /\ sone' = Nobody /\ CloseEnd(sone)
    BY <1>11 DEF StopShuts
  <2>3. HalfClosed' = HalfClosed \ {sone}
    BY <2>1, <2>2, Kinds DEF HalfClosed
  <2>4. \A c \in Clients : fpc'[c] = "run" => fpc[c] = "run" /\ c # sone
    BY <2>1, <2>2, Kinds
  <2>5. HasFd'
    <3>1. \A x \in Fibers : m_sock'[x] = m_sock[x]
      BY <2>1, <2>2, Kinds DEF CloseEnd, TypeOK
    <3> QED BY <2>2, <3>1 DEF FdInv, HasFd
  <2> QED BY <2>1, <2>2, <2>3, <2>4, <2>5, EndKeeps DEF FdInv
<1>12. ASSUME NEW s \in Fibers, CloseBegin(s) PROVE FdInv'
  <2>1. s \in Sockets /\ s \notin Listeners /\ m_sock[s] # NoFd /\ fpc[s] # "deleted"
    BY <1>12, Kinds DEF CloseBegin, FdInv, HasFd, Opened
  <2>2. UNCHANGED running
    BY <1>12, WakeFrame, CancelFrame DEF CloseBegin
  <2>3. /\ UNCHANGED <<sone, spc, forced>> /\ CloseDelete(s)
        /\ \A x \in Fibers : fpc'[x] = IF x = s THEN "deleted" ELSE fpc[x]
    BY <1>12 DEF CloseBegin, TypeOK
  <2>4. HalfClosed' = HalfClosed \cup {s}
    BY <2>1, <2>3 DEF HalfClosed
  <2>5. \A c \in Clients : fpc'[c] = "run" => fpc[c] = "run" /\ c # s
    BY <2>3, Kinds
  <2>6. HasFd'
    BY <2>1, <2>2, <2>3 DEF CloseDelete, FdInv, HasFd, Opened
  <2> QED BY <2>1, <2>3, <2>4, <2>5, <2>6, DeleteKeeps DEF FdInv
<1>13. ASSUME NEW s \in Fibers, CloseLast(s) PROVE FdInv'
  <2>1. s \in Sockets /\ s \notin Listeners /\ s \in HalfClosed
    BY <1>13, Kinds DEF CloseLast, HalfClosed
  <2>2. /\ UNCHANGED <<sone, spc, running>> /\ CloseEnd(s) /\ forced' = forced \ {s}
        /\ \A x \in Fibers : fpc'[x] = IF x = s THEN "none" ELSE fpc[x]
    BY <1>13 DEF CloseLast, TypeOK
  <2>3. HalfClosed' = HalfClosed \ {s}
    BY <2>1, <2>2 DEF HalfClosed
  <2>4. \A c \in Clients : fpc'[c] = "run" => fpc[c] = "run" /\ c # s
    BY <2>2, Kinds
  <2>5. HasFd'
    <3>1. \A x \in Sockets : m_sock'[x] = IF x = s THEN NoFd ELSE m_sock[x]
      BY <2>1, <2>2 DEF CloseEnd, TypeOK
    <3> QED BY <2>1, <2>2, <3>1, Kinds DEF FdInv, HasFd, Opened
  <2> QED BY <2>1, <2>2, <2>3, <2>4, <2>5, EndKeeps DEF FdInv
<1>14. ASSUME NEW s \in Fibers, SetFlags(s) PROVE FdInv'
  BY <1>14, SetFlagsKeeps
<1> QED BY <1>2, <1>3, <1>4, <1>5, <1>6, <1>8, <1>9, <1>10, <1>11, <1>12, <1>13, <1>14, StepCases DEF FdInv

----------------------------------------------------------------------------
(* connect_with_timeout *)

(* Whoever wakes a connecting fiber (its event, its timer, the timer of a  *)
(* call before on the same number), the fiber finds out which it was.      *)
LEMMA DialStep ==
    ASSUME TypeOK, FdInv, DialInv, [Next]_vars
    PROVE  DialInv'
<1> USE DEF DialInv
<1>0. HasFd
  BY DEF FdInv
<1>1. CASE /\ UNCHANGED <<m_sock, fpc, conn, cacelled, timer, disturbed, unwatched>>
           /\ \A f \in Fds : waiting'[f] \cap Dialers \subseteq waiting[f]
  BY <1>1 DEF DialerWaits, TimerSet, WokenInv, ConnectTrue
(* Steps that leave the dialers' calls alone; a Socket gets or loses its   *)
(* descriptor without anybody waiting on it.                               *)
<1>2. ASSUME UNCHANGED <<conn, cacelled, timer, disturbed, unwatched, waiting>>,
             \A d \in Dialers : fpc'[d] = fpc[d] /\ m_sock'[d] = m_sock[d]
      PROVE DialInv'
  BY <1>2 DEF DialerWaits, TimerSet, WokenInv, ConnectTrue
<1>3. ASSUME NEW l \in Listeners, BindOne(l) PROVE DialInv'
  <2>1. \A d \in Dialers : m_sock'[d] = m_sock[d]
    BY <1>3, Kinds DEF BindOne, Open, TypeOK
  <2> QED BY <1>2, <1>3, <2>1 DEF BindOne, dialVars, workerVars
<1>4. CASE BindFails
  <2>1. \A d \in Dialers : m_sock'[d] = m_sock[d]
    BY <1>4, Kinds DEF BindFails, CloseSockets, TypeOK
  <2> QED BY <1>2, <1>4, <2>1 DEF BindFails, dialVars, workerVars
<1>5. ASSUME NEW l \in Listeners, AcceptTakes(l) PROVE DialInv'
  <2>1. \A d \in Dialers : m_sock'[d] = m_sock[d] /\ fpc'[d] = fpc[d]
    BY <1>5, Kinds DEF AcceptTakes, OpenAccepted, TypeOK
  <2> QED BY <1>2, <1>5, <2>1 DEF AcceptTakes, dialVars
<1>6. CASE WorkerStep
  BY <1>1, <1>6, WorkerFrame DEF fdVars, dialVars
<1>7. ASSUME NEW c \in Fibers, SetFlags(c) PROVE DialInv'
  BY <1>2, <1>7 DEF SetFlags, fcntl, ioctl, dialVars, workerVars
<1>8. ASSUME NEW s \in Fibers, CloseBegin(s) PROVE DialInv'
  <2>1. /\ UNCHANGED <<m_sock, conn, cacelled, timer, disturbed, unwatched>>
        /\ \A x \in Fibers : fpc'[x] = IF x = s THEN "deleted" ELSE fpc[x]
        /\ fpc[s] \in {"run", "failed"}
    BY <1>8 DEF CloseBegin, CloseDelete, dialVars, TypeOK
  <2>2. \A f \in Fds : waiting'[f] \subseteq waiting[f]
    <3>1. CASE cancelALL(m_sock[s])
      BY <3>1, WakeFrame, CancelFrame
    <3>2. CASE UNCHANGED waiting
      BY <3>2
    <3> QED BY <1>8, <3>1, <3>2 DEF CloseBegin
  <2> QED BY <2>1, <2>2, Kinds DEF DialerWaits, TimerSet, WokenInv, ConnectTrue
<1>9. ASSUME NEW s \in Fibers, CloseLast(s) PROVE DialInv'
  <2>1. /\ UNCHANGED <<cacelled, timer, waiting>>
        /\ \A x \in Fibers : fpc'[x] = IF x = s THEN "none" ELSE fpc[x]
        /\ fpc[s] = "deleted"
        /\ \A d \in Dialers : conn'[d] = IF d = s THEN "none" ELSE conn[d]
        /\ \A d \in Dialers : m_sock'[d] = IF d = s THEN NoFd ELSE m_sock[d]
        /\ disturbed' = disturbed \ {s} /\ unwatched' = unwatched \ {s}
    BY <1>9, Kinds DEF CloseLast, CloseEnd, TypeOK
  <2>2. DialerWaits' /\ TimerSet'
    BY <2>1, Kinds DEF DialerWaits, TimerSet
  <2>3. WokenInv' /\ ConnectTrue'
    BY <2>1, Kinds DEF WokenInv, ConnectTrue
  <2> QED BY <2>2, <2>3
<1>10. CASE StopDeletes \/ StopShuts
  <2>1. UNCHANGED <<fpc, conn, cacelled, timer, disturbed, unwatched>>
    BY <1>10 DEF StopDeletes, StopShuts, dialVars
  <2>2. sone \in Listeners
    BY <1>0, <1>10 DEF StopDeletes, StopShuts, HasFd
  <2>3. \A d \in Dialers : m_sock'[d] = m_sock[d]
    BY <1>10, <2>2, Kinds DEF StopDeletes, StopShuts, CloseDelete, CloseEnd, TypeOK
  <2>4. \A f \in Fds : waiting'[f] \subseteq waiting[f]
    <3>1. CASE StopDeletes
      BY <3>1, WakeFrame, CancelFrame DEF StopDeletes
    <3>2. CASE StopShuts
      BY <3>2 DEF StopShuts
    <3> QED BY <1>10, <3>1, <3>2
  <2> QED BY <2>1, <2>3, <2>4 DEF DialerWaits, TimerSet, WokenInv, ConnectTrue
<1>11. ASSUME NEW d \in Dialers, Dial(d) PROVE DialInv'
  <2>1. /\ fpc[d] = "none" /\ d \in Fibers
        /\ \A x \in Dialers \ {d} : /\ fpc'[x] = fpc[x] /\ conn'[x] = conn[x] /\ timer'[x] = timer[x]
                                    /\ m_sock'[x] = m_sock[x]
        /\ UNCHANGED <<cacelled, disturbed, unwatched, waiting>>
    BY <1>11, Kinds DEF Dial, Open, TypeOK, workerVars
  <2>2. \/ fpc'[d] = "armed"
        \/ fpc'[d] = "failed" /\ timer'[d] = timer[d]
        \/ fpc'[d] = "run" /\ conn'[d] = "up" /\ timer'[d] = timer[d]
    BY <1>11, <2>1 DEF Dial, TypeOK
  <2>3. ~timer[d] /\ \A f \in Fds : d \notin waiting[f]
    BY <2>1 DEF TimerSet, DialerWaits
  <2>4. DialerWaits' /\ TimerSet'
    BY <2>1, <2>2, <2>3 DEF DialerWaits, TimerSet
  <2>5. WokenInv' /\ ConnectTrue'
    BY <2>1, <2>2 DEF WokenInv, ConnectTrue
  <2> QED BY <2>4, <2>5
<1>12. ASSUME NEW d \in Dialers, DialWaits(d) PROVE DialInv'
  <2>1. /\ UNCHANGED <<m_sock, conn, cacelled, timer, disturbed, unwatched>>
        /\ \A x \in Fibers : fpc'[x] = IF x = d THEN "wait" ELSE fpc[x]
        /\ fpc[d] = "armed"
        /\ \A f \in Fds : waiting'[f] = IF f = m_sock[d] THEN waiting[f] \cup {d} ELSE waiting[f]
    BY <1>12 DEF DialWaits, dialVars, fdVars, TypeOK
  <2>2. \A f \in Fds : d \notin waiting[f]
    BY <2>1 DEF DialerWaits
  <2>3. ASSUME NEW f \in Fds, NEW x \in waiting'[f] \cap Dialers PROVE fpc'[x] = "wait" /\ m_sock'[x] = f
    <3>1. CASE x = d
      BY <2>1, <2>2, <2>3, <3>1, Kinds
    <3>2. CASE x # d
      <4>1. x \in waiting[f] /\ x \in Dialers
        BY <2>1, <2>3, <3>2
      <4>2. fpc[x] = "wait" /\ m_sock[x] = f
        BY <4>1 DEF DialerWaits
      <4> QED BY <2>1, <4>1, <4>2, <3>2, Kinds
    <3> QED BY <3>1, <3>2
  <2>4. DialerWaits'
    BY <2>3 DEF DialerWaits
  <2>5. TimerSet' /\ WokenInv' /\ ConnectTrue'
    BY <2>1, Kinds DEF TimerSet, WokenInv, ConnectTrue
  <2> QED BY <2>4, <2>5
<1>13. ASSUME NEW d \in Dialers, Established(d) PROVE DialInv'
  <2>1. /\ UNCHANGED <<m_sock, fpc, cacelled, timer, disturbed, unwatched, waiting>>
        /\ \A x \in Dialers : conn'[x] = conn[x] \/ (conn[x] = "progress" /\ conn'[x] \in {"up", "refused"})
    BY <1>13 DEF Established, fdVars, workerVars, TypeOK
  <2> QED BY <2>1 DEF DialerWaits, TimerSet, WokenInv, ConnectTrue
(* A wake-up of d, which waits on f. *)
<1>14. ASSUME NEW d \in Dialers, NEW f \in Fds, fpc[d] = "wait", m_sock[d] = f, Wake(f, d),
              UNCHANGED <<m_sock, conn, cacelled, timer, unwatched>>,
              disturbed \subseteq disturbed', disturbed' \subseteq disturbed \cup {d},
              cacelled[d] \/ d \in disturbed' \/ conn[d] \in {"up", "refused"}
       PROVE DialInv'
  <2>1. /\ \A x \in Fibers : fpc'[x] = IF x = d THEN "woken" ELSE fpc[x]
        /\ \A g \in Fds : waiting'[g] = IF g = f THEN waiting[g] \ {d} ELSE waiting[g]
    BY <1>14 DEF Wake, TypeOK
  <2>2. DialerWaits'
    <3>1. ASSUME NEW g \in Fds, NEW x \in waiting'[g] \cap Dialers PROVE fpc'[x] = "wait" /\ m_sock'[x] = g
      <4>1. x \in waiting[g] /\ x \in Dialers /\ (g = f => x # d)
        BY <2>1, <3>1
      <4>2. fpc[x] = "wait" /\ m_sock[x] = g
        BY <4>1 DEF DialerWaits
      <4>3. x # d
        BY <4>1, <4>2, <1>14
      <4> QED BY <2>1, <4>2, <4>3, <1>14, Kinds
    <3> QED BY <3>1 DEF DialerWaits
  <2>3. TimerSet'
    BY <1>14, <2>1, Kinds DEF TimerSet
  <2>4. WokenInv' /\ ConnectTrue'
    BY <1>14, <2>1, Kinds DEF WokenInv, ConnectTrue
  <2> QED BY <2>2, <2>3, <2>4
<1>15. ASSUME NEW d \in Dialers, DialerWakes(d) PROVE DialInv'
  <2>1. m_sock[d] \in Fds
    BY <1>0, <1>15, Kinds, FdsDistinct DEF DialerWakes, HasFd, Opened, FdInv, FdCore
  <2>2. /\ fpc[d] = "wait" /\ conn[d] \in {"up", "refused"} /\ Wake(m_sock[d], d)
        /\ UNCHANGED <<m_sock, conn, cacelled, timer, disturbed, unwatched>>
    BY <1>15 DEF DialerWakes, fdVars, dialVars
  <2> QED BY <1>14, <2>1, <2>2
<1>16. ASSUME NEW d \in Dialers, TimerMarks(d) PROVE DialInv'
  <2>1. /\ UNCHANGED <<m_sock, fpc, conn, disturbed, unwatched, waiting>>
        /\ \A x \in Dialers : cacelled'[x] = IF x = d THEN TRUE ELSE cacelled[x]
        /\ \A x \in Dialers : timer'[x] = IF x = d THEN FALSE ELSE timer[x]
    BY <1>16 DEF TimerMarks, fdVars, workerVars, TypeOK
  <2> QED BY <2>1 DEF DialerWaits, TimerSet, WokenInv, ConnectTrue
<1>17. ASSUME NEW f \in Fds, TimerCancels(f) PROVE DialInv'
  <2>1. UNCHANGED <<m_sock, conn, cacelled, timer, unwatched>>
    BY <1>17 DEF TimerCancels, fdVars
  <2>2. CASE UNCHANGED <<waiting, fpc, disturbed>>
    BY <1>1, <2>1, <2>2
  <2>3. ASSUME NEW d \in waiting[f] \cap Dialers, Wake(f, d),
               disturbed' = IF cacelled[d] THEN disturbed ELSE disturbed \cup {d}
        PROVE DialInv'
    BY <1>14, <2>1, <2>3 DEF DialerWaits
  <2> QED BY <1>17, <2>2, <2>3 DEF TimerCancels
<1>18. ASSUME NEW d \in Dialers, DialReturns(d) PROVE DialInv'
  <2>1. /\ UNCHANGED <<m_sock, conn, disturbed, unwatched, waiting>>
        /\ \A x \in Fibers :
              fpc'[x] = IF x = d THEN (IF cacelled[d] \/ conn[d] = "refused" THEN "failed" ELSE "run")
                        ELSE fpc[x]
        /\ fpc[d] = "woken"
        /\ \A x \in Dialers : cacelled'[x] = IF x = d THEN FALSE ELSE cacelled[x]
        /\ \A x \in Dialers : timer'[x] = IF x = d THEN FALSE ELSE timer[x]
    BY <1>18 DEF DialReturns, fdVars, workerVars, TypeOK
  <2>2. DialerWaits' /\ TimerSet'
    BY <2>1, Kinds DEF DialerWaits, TimerSet
  <2>3. WokenInv' /\ ConnectTrue'
    BY <2>1, Kinds DEF WokenInv, ConnectTrue
  <2> QED BY <2>2, <2>3
(* addEvent fails: SO_ERROR alone decides, and the call is remembered.      *)
<1>19. ASSUME NEW d \in Dialers, DialUnwatched(d) PROVE DialInv'
  <2>1. /\ UNCHANGED <<m_sock, conn, disturbed, waiting>> /\ unwatched' = unwatched \cup {d}
        /\ \A x \in Fibers : x # d => fpc'[x] = fpc[x]
        /\ fpc[d] = "armed" /\ fpc'[d] \in {"run", "failed"}
        /\ \A x \in Dialers : cacelled'[x] = IF x = d THEN FALSE ELSE cacelled[x]
        /\ \A x \in Dialers : timer'[x] = IF x = d THEN FALSE ELSE timer[x]
    BY <1>19, Kinds DEF DialUnwatched, fdVars, workerVars, TypeOK
  <2>2. DialerWaits' /\ TimerSet'
    BY <2>1, Kinds DEF DialerWaits, TimerSet
  <2>3. WokenInv' /\ ConnectTrue'
    BY <2>1, Kinds DEF WokenInv, ConnectTrue
  <2> QED BY <2>2, <2>3
<1>20. CASE UNCHANGED vars
  BY <1>1, <1>20 DEF vars, fdVars, workerVars, dialVars
<1> QED BY <1>0, <1>3, <1>4, <1>5, <1>6, <1>7, <1>8, <1>9, <1>10, <1>11, <1>12, <1>13, <1>15, <1>16,
           <1>17, <1>18, <1>19, <1>20, StepCases DEF DialerStep

----------------------------------------------------------------------------
(* Types *)

(* The parts of TypeOK: descriptors, the application, the accept worker,   *)
(* fibers and connection attempts, events and connections that wait.       *)
FdTypes ==
    /\ m_sock \in [Sockets -> Fds \cup {NoFd}]
    /\ m_datas \in [Fds -> [of : Sockets \cup {Nobody}, user : BOOLEAN, recvTimeout : BOOLEAN]]
    /\ kernel \in [Fds -> [of : Sockets \cup {Nobody}, nonblock : BOOLEAN]]
ServerTypes ==
    /\ pool \in PoolSizes /\ shared \in BOOLEAN
    /\ m_isStop \in BOOLEAN
    /\ m_socks \in SUBSET Listeners
    /\ starts \in Nat
Tasks == Listeners \cup {CloseAll}
AcceptStates == {"none", "loop", "accept", "again", "wait", "ended"}
WorkerTypes ==
    /\ queue \in Seq(Tasks)
    /\ running \in SUBSET Tasks
    /\ spc \in {"next", "cancelled", "deleted"}
    /\ sone \in Listeners \cup {Nobody}
    /\ apc \in [Listeners -> AcceptStates]
    /\ afd \in [Listeners -> Fds \cup {NoFd}]
    /\ stale \in SUBSET Listeners /\ late \in SUBSET Listeners
DialTypes ==
    /\ fpc \in [Fibers -> {"none", "armed", "wait", "woken", "run", "failed", "deleted"}]
    /\ forced \in SUBSET Fibers
    /\ conn \in [Dialers -> {"none", "progress", "up", "refused"}]
    /\ cacelled \in [Dialers -> BOOLEAN]
    /\ timer \in [Dialers -> BOOLEAN]
    /\ cancelling \in SUBSET Fds
    /\ disturbed \in SUBSET Dialers /\ unwatched \in SUBSET Dialers
    /\ dials \in Nat
WaitTypes ==
    /\ waiting \in [Fds -> SUBSET (Listeners \cup Dialers)]
    /\ backlog \in [Fds -> Nat]

(* They are all of it. *)
LEMMA TypeParts == TypeOK <=> FdTypes /\ ServerTypes /\ WorkerTypes /\ DialTypes /\ WaitTypes
<1>1. TypeOK => FdTypes /\ ServerTypes /\ WorkerTypes
  BY DEF TypeOK, FdTypes, ServerTypes, WorkerTypes, Tasks, AcceptStates
<1>2. TypeOK => DialTypes /\ WaitTypes
  BY DEF TypeOK, DialTypes, WaitTypes
<1>3. FdTypes /\ ServerTypes /\ WorkerTypes /\ DialTypes /\ WaitTypes => TypeOK
  BY DEF TypeOK, FdTypes, ServerTypes, WorkerTypes, DialTypes, WaitTypes, Tasks, AcceptStates
<1> QED BY <1>1, <1>2, <1>3

(* Every step keeps the types of what concerns the descriptors. *)
LEMMA FdTypesStep ==
    ASSUME TypeOK, FdInv, DialerWaits, [Next]_vars
    PROVE  FdTypes'
<1>1. CASE UNCHANGED fdVars
  BY <1>1, TypeParts DEF FdTypes, fdVars
<1>2. ASSUME NEW s \in Sockets, Open(s) \/ OpenAccepted(s) PROVE FdTypes'
  <2>1. PICK f \in Fds, b \in BOOLEAN : OpensAt(s, f, b)
    BY <1>2, OpenAt DEF FdInv, FdCore
  <2> QED BY <2>1, TypeParts DEF OpensAt, FdTypes
<1>3. ASSUME NEW S, CloseSockets(S) PROVE FdTypes'
  BY <1>3, TypeParts DEF CloseSockets, FdTypes, NoCtx, Free
<1>4. ASSUME NEW s, CloseDelete(s) \/ CloseEnd(s) PROVE FdTypes'
  <2>1. CASE CloseDelete(s)
    BY <2>1, TypeParts DEF CloseDelete, del, FdTypes, NoCtx
  <2>2. CASE CloseEnd(s)
    BY <2>2, TypeParts DEF CloseEnd, FdTypes, Free
  <2> QED BY <1>4, <2>1, <2>2
<1>5. ASSUME NEW f, NEW b \in BOOLEAN, fcntl(f, b) \/ ioctl(f, b) PROVE FdTypes'
  <2>1. /\ m_datas' = [m_datas EXCEPT ![f].user = b] /\ m_sock' = m_sock
        /\ \E c \in BOOLEAN : kernel' = [kernel EXCEPT ![f].nonblock = c]
    BY <1>5 DEF fcntl, ioctl
  <2>2. m_datas' \in [Fds -> [of : Sockets \cup {Nobody}, user : BOOLEAN, recvTimeout : BOOLEAN]]
    BY <2>1, TypeParts DEF FdTypes
  <2>3. kernel' \in [Fds -> [of : Sockets \cup {Nobody}, nonblock : BOOLEAN]]
    BY <2>1, TypeParts DEF FdTypes
  <2> QED BY <2>1, <2>2, <2>3, TypeParts DEF FdTypes
<1>6. ASSUME NEW l \in Listeners, BindOne(l) \/ AcceptTakes(l) PROVE FdTypes'
  BY <1>2, <1>6, Kinds DEF BindOne, AcceptTakes
<1>7. CASE BindFails
  BY <1>3, <1>7 DEF BindFails
<1>8. CASE StopDeletes \/ StopShuts
  BY <1>4, <1>8 DEF StopDeletes, StopShuts
<1>9. ASSUME NEW s \in Fibers, CloseBegin(s) \/ CloseLast(s) \/ SetFlags(s) PROVE FdTypes'
  BY <1>4, <1>5, <1>9 DEF CloseBegin, CloseLast, SetFlags
<1>10. ASSUME NEW d \in Dialers, Dial(d) PROVE FdTypes'
  BY <1>2, <1>10, Kinds DEF Dial
<1>11. CASE WorkerStep \/ DialerStep \/ UNCHANGED vars
  BY <1>1, <1>11, WorkerFrame, DialerFrame DEF vars
<1> QED BY <1>6, <1>7, <1>8, <1>9, <1>10, <1>11, StepCases DEF FdInv

(* Every step keeps the types of what the application sets. *)
LEMMA ServerTypesStep ==
    ASSUME TypeOK, FdInv, DialerWaits, [Next]_vars
    PROVE  ServerTypes'
<1>0. ServerTypes
  BY TypeParts
<1> USE DEF ServerTypes
<1>1. CASE UNCHANGED serverVars
  BY <1>0, <1>1 DEF serverVars
<1>2. ASSUME NEW l \in Listeners, BindOne(l) PROVE ServerTypes'
  BY <1>0, <1>2 DEF BindOne
<1>3. CASE BindFails \/ StopClears
  BY <1>0, <1>3 DEF BindFails, StopClears
<1>4. CASE Start \/ Stop
  <2>1. m_isStop' \in BOOLEAN
    BY <1>4, Zenon DEF Start, Stop
  <2>2. starts' \in Nat /\ UNCHANGED <<m_socks, pool, shared>>
    BY <1>0, <1>4 DEF Start, Stop
  <2> QED BY <1>0, <2>1, <2>2
<1>5. ASSUME NEW l \in Listeners, \/ AcceptLoop(l) \/ AcceptAgain(l) \/ AcceptWaits(l) \/ AcceptFails(l)
                                  \/ AcceptorWakes(l) \/ LateWakes(l) \/ StopCancels(l) \/ AcceptTakes(l)
      PROVE ServerTypes'
  BY <1>1, <1>5 DEF AcceptLoop, AcceptAgain, AcceptWaits, AcceptFails, AcceptorWakes, LateWakes,
                    StopCancels, AcceptTakes
<1>6. CASE Take \/ StopDeletes \/ StopShuts \/ UNCHANGED vars
  BY <1>1, <1>6 DEF Take, StopDeletes, StopShuts, vars
<1>7. ASSUME NEW s \in Fibers, CloseBegin(s) \/ CloseLast(s) \/ SetFlags(s) PROVE ServerTypes'
  BY <1>1, <1>7 DEF CloseBegin, CloseLast, SetFlags
<1>8. ASSUME NEW d \in Dialers, Dial(d) PROVE ServerTypes'
  BY <1>1, <1>8 DEF Dial
<1>9. CASE DialerStep
  BY <1>1, <1>9, DialerFrame
<1> QED BY <1>2, <1>3, <1>4, <1>5, <1>6, <1>7, <1>8, <1>9, StepCases DEF FdInv, WorkerStep

(* Acceptors that are woken are queued as tasks of the worker. *)
LEMMA WakeTypes ==
    ASSUME TypeOK, NEW f, NEW S, S \subseteq Listeners, WakeAcceptors(f, S)
    PROVE  /\ queue' \in Seq(Tasks) /\ running' \in SUBSET Tasks
           /\ apc' \in [Listeners -> AcceptStates] /\ afd' \in [Listeners -> Fds \cup {NoFd}]
           /\ stale' \in SUBSET Listeners /\ late' \in SUBSET Listeners
<1>0. WorkerTypes
  BY TypeParts
<1>1. SetToSeq(S) \in Seq(Tasks)
  <2>1. IsFiniteSet(S)
    BY FS_Subset, SocketsAssumption
  <2>2. SetToSeq(S) \in Seq(S) /\ S \subseteq Tasks
    BY <2>1, SetToSeqType DEF Tasks
  <2> QED BY <2>2, SeqMonotonic
<1>2. queue' \in Seq(Tasks)
  BY <1>0, <1>1, ConcatProperties DEF WakeAcceptors, WorkerTypes
<1>3. apc' \in [Listeners -> AcceptStates]
  BY <1>0 DEF WakeAcceptors, WorkerTypes, AcceptStates
<1>4. UNCHANGED <<running, afd, stale>> /\ late' \in SUBSET Listeners
  BY <1>0 DEF WakeAcceptors, WorkerTypes
<1> QED BY <1>0, <1>2, <1>3, <1>4 DEF WorkerTypes

(* Every step keeps the types of the accept worker's variables. *)
LEMMA WorkerTypesStep ==
    ASSUME TypeOK, FdInv, DialerWaits, [Next]_vars
    PROVE  WorkerTypes'
<1>0. WorkerTypes /\ FdTypes /\ ServerTypes
  BY TypeParts
<1> USE DEF WorkerTypes
<1>1. CASE UNCHANGED <<queue, running, spc, sone, apc, afd, stale, late>>
  BY <1>0, <1>1
<1>2. CASE Start
  <2>1. SetToSeq(m_socks) \in Seq(Tasks)
    <3>1. IsFiniteSet(m_socks)
      BY <1>0, FS_Subset, SocketsAssumption DEF ServerTypes
    <3>2. SetToSeq(m_socks) \in Seq(m_socks) /\ m_socks \subseteq Tasks
      BY <1>0, <3>1, SetToSeqType DEF Tasks, ServerTypes
    <3> QED BY <3>2, SeqMonotonic
  <2>2. queue' \in Seq(Tasks)
    BY <1>0, <1>2, <2>1, ConcatProperties DEF Start
  <2>3. apc' \in [Listeners -> AcceptStates]
    BY <1>0, <1>2 DEF Start, AcceptStates
  <2> QED BY <1>0, <1>2, <2>2, <2>3 DEF Start
<1>3. CASE Stop
  <2>1. queue' \in Seq(Tasks)
    BY <1>0, <1>3, AppendProperties DEF Stop, Tasks
  <2> QED BY <1>0, <1>3, <2>1 DEF Stop
<1>4. CASE Take
  <2>1. Head(queue) \in Tasks /\ Tail(queue) \in Seq(Tasks)
    BY <1>0, <1>4, HeadTailProperties DEF Take
  <2> QED BY <1>0, <1>4, <2>1 DEF Take
<1>5. CASE StopClears
  BY <1>0, <1>5 DEF StopClears
<1>6. ASSUME NEW l \in Listeners, AcceptLoop(l) PROVE WorkerTypes'
  <2>1. m_sock[l] \in Fds \cup {NoFd}
    BY <1>0, Kinds DEF FdTypes
  <2> QED BY <1>0, <1>6, <2>1 DEF AcceptLoop, AcceptStates
<1>7. ASSUME NEW l \in Listeners, AcceptTakes(l) \/ AcceptFails(l) \/ AcceptAgain(l) PROVE WorkerTypes'
  BY <1>0, <1>7 DEF AcceptTakes, AcceptFails, AcceptAgain, AcceptStates
<1>8. ASSUME NEW l \in Listeners, AcceptWaits(l) PROVE WorkerTypes'
  BY <1>0, <1>8 DEF AcceptWaits, AcceptStates
<1>9. ASSUME NEW l \in Listeners, AcceptorWakes(l) \/ LateWakes(l) PROVE WorkerTypes'
  <2>1. WakeAcceptors(afd[l], {l}) /\ UNCHANGED <<spc, sone>>
    BY <1>9 DEF AcceptorWakes, LateWakes
  <2> QED BY <1>0, <2>1, WakeTypes
<1>10. ASSUME NEW l \in Listeners, StopCancels(l) PROVE WorkerTypes'
  <2>1. PICK S \in SUBSET Listeners : WakeAcceptors(m_sock[l], S)
    BY <1>10, CancelFrame DEF StopCancels
  <2>2. spc' = "cancelled" /\ sone' = l
    BY <1>10 DEF StopCancels
  <2> QED BY <2>1, <2>2, WakeTypes
<1>11. CASE StopDeletes
  <2>1. PICK S \in SUBSET Listeners : WakeAcceptors(m_sock[sone], S)
    BY <1>11, CancelFrame DEF StopDeletes
  <2>2. spc' = "deleted" /\ sone' = sone
    BY <1>11 DEF StopDeletes
  <2> QED BY <1>0, <2>1, <2>2, WakeTypes
<1>12. CASE StopShuts
  BY <1>0, <1>12 DEF StopShuts, Forget
<1>13. ASSUME NEW s \in Fibers, CloseBegin(s) PROVE WorkerTypes'
  <2>1. UNCHANGED <<spc, sone>>
    BY <1>13 DEF CloseBegin
  <2>2. CASE UNCHANGED <<queue, running, apc, afd, stale, late>>
    BY <1>0, <2>1, <2>2
  <2>3. CASE cancelALL(m_sock[s])
    BY <1>0, <2>1, <2>3, CancelFrame, WakeTypes
  <2> QED BY <1>13, <2>2, <2>3 DEF CloseBegin
<1>14. ASSUME NEW s \in Fibers, CloseLast(s) PROVE WorkerTypes'
  BY <1>0, <1>14 DEF CloseLast, Forget
<1>15. ASSUME NEW s \in Fibers, SetFlags(s) PROVE WorkerTypes'
  BY <1>1, <1>15 DEF SetFlags, workerVars
<1>16. ASSUME NEW l \in Listeners, BindOne(l) PROVE WorkerTypes'
  BY <1>1, <1>16 DEF BindOne, workerVars
<1>17. CASE BindFails \/ UNCHANGED vars
  BY <1>1, <1>17 DEF BindFails, workerVars, vars
<1>18. ASSUME NEW d \in Dialers, Dial(d) PROVE WorkerTypes'
  BY <1>1, <1>18 DEF Dial, workerVars
<1>19. CASE DialerStep
  BY <1>1, <1>19, DialerFrame
<1> QED BY <1>2, <1>3, <1>4, <1>5, <1>6, <1>7, <1>8, <1>9, <1>10, <1>11, <1>12, <1>13, <1>14, <1>15,
           <1>16, <1>17, <1>18, <1>19, StepCases DEF FdInv, WorkerStep

(* Every step keeps the types of the fibers and of connection attempts; a  *)
(* timer that is set belongs to a fiber that has a descriptor.             *)
LEMMA DialTypesStep ==
    ASSUME TypeOK, FdInv, DialerWaits, TimerSet, [Next]_vars
    PROVE  DialTypes'
<1>0. DialTypes
  BY TypeParts
<1> USE DEF DialTypes
<1>1. CASE UNCHANGED <<fpc, forced, dialVars>>
  BY <1>0, <1>1 DEF dialVars
<1>2. ASSUME NEW l \in Listeners, AcceptTakes(l) PROVE DialTypes'
  BY <1>0, <1>2, Kinds DEF AcceptTakes, dialVars
<1>3. ASSUME NEW s \in Fibers, CloseBegin(s) PROVE DialTypes'
  BY <1>0, <1>3 DEF CloseBegin, dialVars
<1>4. ASSUME NEW s \in Fibers, CloseLast(s) PROVE DialTypes'
  BY <1>0, <1>4 DEF CloseLast
<1>5. ASSUME NEW d \in Dialers, Dial(d) PROVE DialTypes'
  <2>1. fpc' = [fpc EXCEPT ![d] = "armed"] \/ fpc' = [fpc EXCEPT ![d] = "failed"]
          \/ fpc' = [fpc EXCEPT ![d] = "run"]
    BY <1>5 DEF Dial
  <2>2. conn' = [conn EXCEPT ![d] = "progress"] \/ conn' = conn \/ conn' = [conn EXCEPT ![d] = "up"]
    BY <1>5 DEF Dial
  <2>3. timer' = [timer EXCEPT ![d] = TRUE] \/ timer' = timer
    BY <1>5 DEF Dial
  <2>4. dials' \in Nat
    BY <1>0, <1>5 DEF Dial
  <2>5. UNCHANGED <<forced, cacelled, cancelling, disturbed, unwatched>>
    BY <1>5 DEF Dial
  <2> QED BY <1>0, <2>1, <2>2, <2>3, <2>4, <2>5
<1>6. ASSUME NEW d \in Dialers, DialWaits(d) \/ DialerWakes(d) PROVE DialTypes'
  <2>1. fpc' = [fpc EXCEPT ![d] = "wait"] \/ fpc' = [fpc EXCEPT ![d] = "woken"]
    BY <1>6 DEF DialWaits, DialerWakes, Wake
  <2>2. UNCHANGED <<forced, dialVars>>
    BY <1>6 DEF DialWaits, DialerWakes
  <2> QED BY <1>0, <2>1, <2>2 DEF dialVars
<1>7. ASSUME NEW d \in Dialers, Established(d) PROVE DialTypes'
  <2>1. conn' = [conn EXCEPT ![d] = "up"] \/ conn' = [conn EXCEPT ![d] = "refused"]
    BY <1>7 DEF Established
  <2>2. UNCHANGED <<fpc, forced, cacelled, timer, cancelling, dials, disturbed, unwatched>>
    BY <1>7 DEF Established
  <2> QED BY <1>0, <2>1, <2>2
<1>8. ASSUME NEW d \in Dialers, TimerMarks(d) PROVE DialTypes'
  <2>1. d \in Sockets /\ m_sock[d] # NoFd
    BY <1>8, Kinds DEF TimerMarks, TimerSet, FdInv, HasFd, Opened
  <2>2. m_sock[d] \in Fds
    BY <2>1 DEF TypeOK
  <2>3. cacelled' \in [Dialers -> BOOLEAN] /\ timer' \in [Dialers -> BOOLEAN]
    BY <1>0, <1>8 DEF TimerMarks
  <2>4. cancelling' \in SUBSET Fds /\ UNCHANGED <<fpc, forced, conn, dials, disturbed, unwatched>>
    BY <1>0, <1>8, <2>2 DEF TimerMarks
  <2> QED BY <1>0, <2>3, <2>4
<1>9. ASSUME NEW f \in Fds, TimerCancels(f) PROVE DialTypes'
  <2>1. fpc' = fpc \/ \E d \in Dialers : fpc' = [fpc EXCEPT ![d] = "woken"]
    BY <1>9 DEF TimerCancels, Wake
  <2>2. disturbed' \in SUBSET Dialers
    BY <1>0, <1>9 DEF TimerCancels
  <2>3. cancelling' \in SUBSET Fds /\ UNCHANGED <<forced, conn, cacelled, timer, dials, unwatched>>
    BY <1>0, <1>9 DEF TimerCancels
  <2> QED BY <1>0, <2>1, <2>2, <2>3
<1>10. ASSUME NEW d \in Dialers, DialReturns(d) PROVE DialTypes'
  <2>1. fpc' = [fpc EXCEPT ![d] = "failed"] \/ fpc' = [fpc EXCEPT ![d] = "run"]
    BY <1>10 DEF DialReturns
  <2>2. cacelled' \in [Dialers -> BOOLEAN] /\ timer' \in [Dialers -> BOOLEAN]
    BY <1>0, <1>10 DEF DialReturns
  <2>3. UNCHANGED <<forced, conn, cancelling, dials, disturbed, unwatched>>
    BY <1>10 DEF DialReturns
  <2> QED BY <1>0, <2>1, <2>2, <2>3
<1>11. ASSUME NEW d \in Dialers, DialUnwatched(d) PROVE DialTypes'
  <2>1. fpc' = [fpc EXCEPT ![d] = "failed"] \/ fpc' = [fpc EXCEPT ![d] = "run"]
    BY <1>11 DEF DialUnwatched
  <2>2. cacelled' \in [Dialers -> BOOLEAN] /\ timer' \in [Dialers -> BOOLEAN]
    BY <1>0, <1>11 DEF DialUnwatched
  <2>3. UNCHANGED <<forced, conn, cancelling, dials, disturbed>> /\ unwatched' = unwatched \cup {d}
    BY <1>11 DEF DialUnwatched
  <2> QED BY <1>0, <2>1, <2>2, <2>3
<1>12. ASSUME NEW l \in Listeners, BindOne(l) PROVE DialTypes'
  BY <1>1, <1>12 DEF BindOne
<1>13. CASE BindFails \/ StopDeletes \/ StopShuts \/ UNCHANGED vars
  BY <1>1, <1>13 DEF BindFails, StopDeletes, StopShuts, vars
<1>14. ASSUME NEW s \in Fibers, SetFlags(s) PROVE DialTypes'
  <2>1. forced' \in SUBSET Fibers /\ UNCHANGED <<fpc, dialVars>>
    BY <1>0, <1>14 DEF SetFlags
  <2> QED BY <1>0, <2>1 DEF dialVars
<1>15. CASE WorkerStep
  BY <1>1, <1>15, WorkerFrame
<1> QED BY <1>2, <1>3, <1>4, <1>5, <1>6, <1>7, <1>8, <1>9, <1>10, <1>11, <1>12, <1>13, <1>14, <1>15,
           StepCases DEF FdInv, DialerStep

(* Acceptors and connecting fibers wait; a backlog is taken from only when *)
(* there is something in it.                                               *)
LEMMA WaitTypesStep ==
    ASSUME TypeOK, FdInv, [Next]_vars
    PROVE  WaitTypes'
<1>0. WaitTypes /\ WorkerTypes
  BY TypeParts
<1>1. ASSUME waiting' = waiting \/ \E f : \E x \in Listeners \cup Dialers :
                waiting' = [waiting EXCEPT ![f] = @ \cup {x}] \/ waiting' = [waiting EXCEPT ![f] = @ \ {x}]
      PROVE waiting' \in [Fds -> SUBSET (Listeners \cup Dialers)]
  BY <1>0, <1>1 DEF WaitTypes
<1>2. ASSUME backlog' = backlog \/ \E f \in Fds : backlog' = [backlog EXCEPT ![f] = @ + 1]
      PROVE backlog' \in [Fds -> Nat]
  BY <1>0, <1>2 DEF WaitTypes
<1>3. CASE BindFails
  <2>1. waiting' = waiting /\ backlog' = [f \in Fds |-> IF Listening(f) THEN 0 ELSE backlog[f]]
    BY <1>3 DEF BindFails, workerVars
  <2> QED BY <1>0, <2>1 DEF WaitTypes
<1>4. ASSUME NEW l \in Listeners, AcceptTakes(l) PROVE WaitTypes'
  <2>1. backlog[afd[l]] > 0 /\ backlog' = [backlog EXCEPT ![afd[l]] = @ - 1] /\ waiting' = waiting
    BY <1>4 DEF AcceptTakes
  <2>2. backlog \in [Fds -> Nat]
    BY <1>0 DEF WaitTypes
  <2>3. ASSUME NEW f \in Fds PROVE backlog'[f] \in Nat
    BY <2>1, <2>2
  <2>4. backlog' = [f \in Fds |-> backlog'[f]]
    BY <2>1, <2>2
  <2>5. backlog' \in [Fds -> Nat]
    BY <2>3, <2>4
  <2> QED BY <1>0, <2>1, <2>5 DEF WaitTypes
<1>5. ASSUME NEW s \in Fibers, CloseBegin(s) PROVE WaitTypes'
  <2>1. CASE cancelALL(m_sock[s])
    BY <1>0, <1>5, <2>1, CancelFrame, WakeFrame DEF CloseBegin, WaitTypes
  <2>2. CASE UNCHANGED waiting
    BY <1>0, <1>5, <2>2 DEF CloseBegin, WaitTypes
  <2> QED BY <1>5, <2>1, <2>2 DEF CloseBegin
<1>6. ASSUME NEW l \in Listeners, AcceptWaits(l) PROVE WaitTypes'
  BY <1>1, <1>2, <1>6 DEF AcceptWaits, WaitTypes
<1>7. ASSUME NEW l \in Listeners, AcceptorWakes(l) \/ LateWakes(l) PROVE WaitTypes'
  <2>1. WakeAcceptors(afd[l], {l}) /\ UNCHANGED backlog
    BY <1>7 DEF AcceptorWakes, LateWakes
  <2> QED BY <1>0, <2>1, WakeFrame DEF WaitTypes
<1>8. ASSUME NEW l \in Listeners, StopCancels(l) PROVE WaitTypes'
  BY <1>0, <1>8, CancelFrame, WakeFrame DEF StopCancels, WaitTypes
<1>9. CASE StopDeletes
  BY <1>0, <1>9, CancelFrame, WakeFrame DEF StopDeletes, WaitTypes
<1>10. CASE StopShuts
  BY <1>0, <1>10 DEF StopShuts, WaitTypes
<1>11. ASSUME NEW d \in Dialers, DialWaits(d) \/ DialerWakes(d) PROVE WaitTypes'
  BY <1>1, <1>2, <1>11 DEF DialWaits, DialerWakes, Wake, WaitTypes
<1>12. ASSUME NEW f \in Fds, TimerCancels(f) PROVE WaitTypes'
  BY <1>1, <1>2, <1>12 DEF TimerCancels, Wake, WaitTypes
<1>13. ASSUME NEW d \in Dialers, Dial(d) \/ Established(d) PROVE WaitTypes'
  <2>1. backlog' = backlog \/ \E f \in Fds : backlog' = [backlog EXCEPT ![f] = @ + 1]
    BY <1>13 DEF Dial, Established
  <2>2. waiting' = waiting
    BY <1>13 DEF Dial, Established, workerVars
  <2> QED BY <1>1, <1>2, <2>1, <2>2 DEF WaitTypes
<1>14. CASE UNCHANGED <<waiting, backlog>>
  BY <1>0, <1>14 DEF WaitTypes
<1>15. ASSUME NEW d \in Dialers, TimerMarks(d) \/ DialReturns(d) \/ DialUnwatched(d) PROVE WaitTypes'
  BY <1>14, <1>15 DEF TimerMarks, DialReturns, DialUnwatched, workerVars
<1>16. ASSUME NEW s \in Fibers, CloseLast(s) \/ SetFlags(s) PROVE WaitTypes'
  BY <1>14, <1>16 DEF CloseLast, SetFlags, workerVars
<1>17. ASSUME NEW l \in Listeners, BindOne(l) \/ AcceptLoop(l) \/ AcceptAgain(l) \/ AcceptFails(l)
       PROVE WaitTypes'
  BY <1>14, <1>17 DEF BindOne, AcceptLoop, AcceptAgain, AcceptFails, workerVars
<1>18. CASE Start \/ Stop \/ Take \/ StopClears \/ UNCHANGED vars
  BY <1>14, <1>18 DEF Start, Stop, Take, StopClears, vars, workerVars
<1> QED BY <1>3, <1>4, <1>5, <1>6, <1>7, <1>8, <1>9, <1>10, <1>11, <1>12, <1>13, <1>15, <1>16, <1>17,
           <1>18, StepCases DEF FdInv, WorkerStep, DialerStep

----------------------------------------------------------------------------
(* The theorems *)

(* At first nobody has a descriptor and nobody runs. *)
LEMMA InitInv == Init => IndInv
<1> SUFFICES ASSUME Init PROVE IndInv
  OBVIOUS
<1> USE DEF Init, InitFds
<1>1. FdTypes
  BY DEF FdTypes, NoCtx, Free
<1>2. ServerTypes
  <2>1. m_isStop \in BOOLEAN /\ shared \in BOOLEAN
    BY Zenon
  <2>2. pool \in PoolSizes /\ m_socks \in SUBSET Listeners /\ starts \in Nat
    OBVIOUS
  <2> QED BY <2>1, <2>2 DEF ServerTypes
<1>3. WorkerTypes
  <2>1. queue \in Seq(Tasks)
    BY EmptySeq
  <2>2. apc \in [Listeners -> AcceptStates] /\ afd \in [Listeners -> Fds \cup {NoFd}]
    BY DEF AcceptStates
  <2> QED BY <2>1, <2>2 DEF WorkerTypes
<1>4. DialTypes
  <2>1. cacelled \in [Dialers -> BOOLEAN] /\ timer \in [Dialers -> BOOLEAN]
    OBVIOUS
  <2>2. conn \in [Dialers -> {"none", "progress", "up", "refused"}] /\ dials \in Nat
    OBVIOUS
  <2>3. fpc \in [Fibers -> {"none", "armed", "wait", "woken", "run", "failed", "deleted"}]
    OBVIOUS
  <2> QED BY <2>1, <2>2, <2>3 DEF DialTypes
<1>5. WaitTypes
  BY DEF WaitTypes
<1>6. FdInv
  <2>1. HasFd /\ HalfClosed = {}
    BY Kinds DEF HasFd, Opened, HalfClosed
  <2>2. OwnDescriptor /\ CtxOf /\ DeletedCtx
    BY <2>1, Kinds DEF OwnDescriptor, CtxOf, DeletedCtx
  <2>3. CtxIsOwn
    BY Kinds DEF CtxIsOwn
  <2>4. NeverBlocks
    BY Kinds DEF NeverBlocks
  <2> QED BY <2>1, <2>2, <2>3, <2>4 DEF FdInv, FdCore
<1>7. DialInv
  BY Kinds DEF DialInv, DialerWaits, TimerSet, WokenInv, ConnectTrue
<1> QED BY <1>1, <1>2, <1>3, <1>4, <1>5, <1>6, <1>7, TypeParts DEF IndInv

(* In every reachable state descriptors, FdCtx objects, owners and the     *)
(* calls of connect() are as the inductive invariant says.                 *)
THEOREM Inductive == Spec => []IndInv
<1>1. Init => IndInv
  BY InitInv
<1>2. IndInv /\ [Next]_vars => IndInv'
  <2> SUFFICES ASSUME IndInv, [Next]_vars PROVE IndInv'
    OBVIOUS
  <2>1. TypeOK /\ FdInv /\ DialInv /\ DialerWaits /\ TimerSet
    BY DEF IndInv, DialInv
  <2>2. FdTypes' /\ ServerTypes' /\ WorkerTypes' /\ DialTypes' /\ WaitTypes'
    BY <2>1, FdTypesStep, ServerTypesStep, WorkerTypesStep, DialTypesStep, WaitTypesStep
  <2>3. TypeOK'
    BY <2>2 DEF TypeOK, FdTypes, ServerTypes, WorkerTypes, DialTypes, WaitTypes, Tasks, AcceptStates
  <2>4. FdInv' /\ DialInv'
    BY <2>1, FdStep, DialStep
  <2> QED BY <2>3, <2>4 DEF IndInv
<1> QED BY <1>1, <1>2, PTL DEF Spec

(* Every variable keeps its type; the task queue of the accept worker      *)
(* holds acceptors and closing callbacks only.                             *)
THEOREM TypeCorrect == Spec => []TypeOK
<1>1. IndInv => TypeOK
  BY DEF IndInv
<1> QED BY <1>1, Inductive, PTL

(* However often numbers are reused and Sockets closed, nobody holds the   *)
(* descriptor of another.                                                  *)
THEOREM OwnDescriptorCorrect == Spec => []OwnDescriptor
<1>1. IndInv => OwnDescriptor
  BY DEF IndInv, FdInv, FdCore
<1> QED BY <1>1, Inductive, PTL

(* A descriptor's FdCtx is its present owner's, from open to close().      *)
THEOREM CtxCorrect == Spec => []CtxIsOwn
<1>1. IndInv => CtxIsOwn
  BY DEF IndInv, FdInv, FdCore
<1> QED BY <1>1, Inductive, PTL

(* do_io meets a blocking descriptor only where the owner's last word was  *)
(* ioctl(FIONBIO) with 0: not after any fcntl, not on a reused number, and *)
(* not on a connection that was just accepted.                             *)
THEOREM NeverBlocksCorrect == Spec => []NeverBlocks
<1>1. IndInv => NeverBlocks
  BY DEF IndInv, FdInv, FdCore
<1> QED BY <1>1, Inductive, PTL

(* connect() returns success only for a connection that is up, unless its  *)
(* event was cancelled by the timer of an earlier call on the same number  *)
(* or its addEvent failed.                                                 *)
THEOREM ConnectCorrect == Spec => []ConnectTrue
<1>1. IndInv => ConnectTrue
  BY DEF IndInv, DialInv
<1> QED BY <1>1, Inductive, PTL

----------------------------------------------------------------------------
(* An accept worker of one thread *)

(* No more tasks run than there are threads, and an acceptor between       *)
(* EAGAIN and addEvent has one of them.                                    *)
Threads ==
    /\ IsFiniteSet(running) /\ Cardinality(running) <= pool
    /\ \A l \in Listeners : apc[l] = "again" => l \in running

(* An acceptor is registered where its call of accept was made. *)
AcceptorWaits == \A f \in Fds : \A l \in waiting[f] \cap Listeners : apc[l] = "wait" /\ afd[l] = f

(* A number that an acceptor uses is never another listening socket's:     *)
(* bind waits until all acceptors have ended.                              *)
InAccept == {"accept", "again", "wait"}
AcceptFd ==
    \A l \in Listeners : apc[l] \in InAccept =>
        afd[l] \in Fds /\ (Listening(afd[l]) => kernel[afd[l]].of = l /\ m_sock[l] = afd[l])

(* The callback of stop() cannot run between EAGAIN and addEvent. *)
OneThread == pool = 1 =>
    /\ \A l \in Listeners : apc[l] = "again" => Listening(afd[l])
    /\ late = {}

ThreadInv == Threads /\ AcceptorWaits /\ AcceptFd /\ OneThread

(* A step that leaves the worker's tasks and the listening sockets alone   *)
(* keeps it.                                                               *)
LEMMA ThreadsAlone ==
    ASSUME TypeOK, ThreadInv, UNCHANGED <<pool, running, apc, afd, late>>,
           \A l \in Listeners : m_sock'[l] = m_sock[l],
           \A f \in Fds : /\ Listening(f) => kernel'[f].of = kernel[f].of
                          /\ Listening(f)' => kernel'[f].of = kernel[f].of
                          /\ waiting'[f] \cap Listeners \subseteq waiting[f]
    PROVE  ThreadInv'
<1> USE DEF ThreadInv
<1>1. Threads'
  BY DEF Threads
<1>2. AcceptorWaits'
  BY DEF AcceptorWaits
<1>3. AcceptFd'
  BY DEF AcceptFd, Listening
<1>4. OneThread'
  BY DEF OneThread, AcceptFd, InAccept, Listening
<1> QED BY <1>1, <1>2, <1>3, <1>4

(* Waking acceptors where they wait keeps it. *)
LEMMA ThreadsWake ==
    ASSUME TypeOK, ThreadInv, NEW f \in Fds, NEW S, S \subseteq waiting[f] \cap Listeners,
           WakeAcceptors(f, S), UNCHANGED <<pool, m_sock, kernel>>
    PROVE  ThreadInv'
<1> USE DEF ThreadInv
<1>0. /\ UNCHANGED <<running, afd>> /\ late' \subseteq late
      /\ \A g \in Fds : waiting'[g] = IF g = f THEN waiting[g] \ S ELSE waiting[g]
      /\ \A l \in Listeners : apc'[l] = IF l \in S THEN "accept" ELSE apc[l]
  BY DEF WakeAcceptors, TypeOK
<1>1. Threads'
  BY <1>0 DEF Threads
<1>2. AcceptorWaits'
  <2>1. ASSUME NEW g \in Fds, NEW l \in waiting'[g] \cap Listeners PROVE apc'[l] = "wait" /\ afd'[l] = g
    <3>1. l \in waiting[g] /\ (g = f => l \notin S)
      BY <1>0, <2>1
    <3>2. apc[l] = "wait" /\ afd[l] = g
      BY <3>1 DEF AcceptorWaits
    <3>3. l \in S => afd[l] = f
      BY DEF AcceptorWaits
    <3> QED BY <1>0, <3>1, <3>2, <3>3
  <2> QED BY <2>1 DEF AcceptorWaits
<1>3. AcceptFd'
  BY <1>0 DEF AcceptFd, AcceptorWaits, InAccept, Listening
<1>4. OneThread'
  BY <1>0 DEF OneThread, Listening
<1> QED BY <1>1, <1>2, <1>3, <1>4

(* cancelALL keeps it. *)
LEMMA ThreadsCancel ==
    ASSUME TypeOK, ThreadInv, NEW f \in Fds, cancelALL(f), UNCHANGED <<pool, m_sock, kernel>>
    PROVE  ThreadInv'
<1>1. PICK S : S \subseteq waiting[f] \cap Listeners /\ WakeAcceptors(f, S)
  BY DEF cancelALL
<1> QED BY <1>1, ThreadsWake

(* Of a pool of one thread, one task runs: an acceptor between EAGAIN and  *)
(* addEvent is alone, and its listening socket is not being closed.        *)
LEMMA Alone ==
    ASSUME TypeOK, FdInv, Threads, pool = 1, NEW l \in Listeners, apc[l] = "again"
    PROVE  CloseAll \notin running /\ l \notin HalfClosed
<1>1. l \in running /\ l # CloseAll
  BY SocketsAssumption DEF Threads
<1>2. ASSUME CloseAll \in running PROVE FALSE
  <2>1. {l, CloseAll} \subseteq running
    BY <1>1, <1>2
  <2>2. Cardinality({l, CloseAll}) = 2
    <3>1. IsFiniteSet({l}) /\ Cardinality({l}) = 1
      BY FS_Singleton
    <3>2. CloseAll \notin {l}
      BY <1>1
    <3>3. Cardinality({l} \cup {CloseAll}) = Cardinality({l}) + 1
      BY <3>1, <3>2, FS_AddElement
    <3>4. {l} \cup {CloseAll} = {l, CloseAll}
      OBVIOUS
    <3> QED BY <3>1, <3>3, <3>4
  <2>3. IsFiniteSet(running) /\ Cardinality(running) <= 1
    BY DEF Threads
  <2>4. Cardinality({l, CloseAll}) <= Cardinality(running)
    BY <2>1, <2>3, FS_Subset
  <2> QED BY <2>2, <2>3, <2>4, FS_CardinalityType
<1>3. l \notin HalfClosed
  BY <1>2, Kinds DEF HalfClosed, FdInv, HasFd
<1> QED BY <1>2, <1>3

(* The steps of an acceptor. *)
LEMMA AcceptorThreads ==
    ASSUME TypeOK, FdInv, ThreadInv, NEW l \in Listeners,
           AcceptLoop(l) \/ AcceptTakes(l) \/ AcceptAgain(l) \/ AcceptWaits(l) \/ AcceptFails(l)
    PROVE  ThreadInv'
<1> USE DEF ThreadInv
<1>0. /\ \A x \in Listeners : m_sock'[x] = m_sock[x]
      /\ \A f \in Fds : /\ Listening(f) => kernel'[f].of = kernel[f].of
                        /\ Listening(f)' => kernel'[f].of = kernel[f].of
      /\ pool' = pool
  <2>1. CASE AcceptLoop(l) \/ AcceptAgain(l) \/ AcceptWaits(l) \/ AcceptFails(l)
    BY <2>1 DEF AcceptLoop, AcceptAgain, AcceptWaits, AcceptFails, fdVars, serverVars, Listening
  <2>2. CASE AcceptTakes(l)
    <3>1. PICK c \in Clients : OpenAccepted(c)
      BY <2>2 DEF AcceptTakes
    <3>2. c \in Sockets /\ c \notin Listeners
      BY Kinds
    <3>3. PICK f \in Fds : OpensAt(c, f, TRUE)
      BY <3>1, <3>2, OpenAt DEF FdInv, FdCore
    <3> QED BY <2>2, <3>2, <3>3, Kinds DEF AcceptTakes, OpensAt, Listening, Free, serverVars, TypeOK
  <2> QED BY <2>1, <2>2
<1>1. \A x \in Listeners : x # l => apc'[x] = apc[x] /\ afd'[x] = afd[x]
  BY DEF AcceptLoop, AcceptTakes, AcceptAgain, AcceptWaits, AcceptFails, TypeOK
<1>2. running' = running \/ (running' = running \ {l} /\ apc'[l] # "again")
  BY DEF AcceptLoop, AcceptTakes, AcceptAgain, AcceptWaits, AcceptFails, TypeOK
<1>3. l \in running /\ apc[l] \in {"loop", "accept", "again"}
  BY DEF AcceptLoop, AcceptTakes, AcceptAgain, AcceptWaits, AcceptFails
<1>4. Threads'
  <2>1. IsFiniteSet(running') /\ Cardinality(running') <= Cardinality(running)
    BY <1>2, FS_Subset, FS_CardinalityType DEF Threads
  <2>2. Cardinality(running') <= pool'
    <3>1. Cardinality(running) \in Nat /\ Cardinality(running') \in Nat /\ pool \in Nat
      BY <2>1, FS_CardinalityType, PoolAssumption DEF Threads, TypeOK
    <3> QED BY <1>0, <2>1, <3>1 DEF Threads
  <2>3. \A x \in Listeners : apc'[x] = "again" => x \in running'
    BY <1>1, <1>2, <1>3 DEF Threads
  <2> QED BY <2>1, <2>2, <2>3 DEF Threads
<1>5. AcceptorWaits'
  <2>1. CASE AcceptWaits(l)
    BY <1>1, <2>1 DEF AcceptWaits, AcceptorWaits, TypeOK
  <2>2. CASE waiting' = waiting
    <3>1. \A f \in Fds : l \notin waiting[f]
      BY <1>3 DEF AcceptorWaits
    <3> QED BY <1>1, <2>2, <3>1 DEF AcceptorWaits
  <2> QED BY <2>1, <2>2 DEF AcceptLoop, AcceptTakes, AcceptAgain, AcceptFails
<1>6. AcceptFd'
  <2>1. \/ apc'[l] \notin InAccept
        \/ afd'[l] = afd[l] /\ apc[l] \in InAccept
        \/ afd'[l] = m_sock[l] /\ m_sock[l] # NoFd
    BY DEF AcceptLoop, AcceptTakes, AcceptAgain, AcceptWaits, AcceptFails, TypeOK, InAccept
  <2>2. m_sock[l] # NoFd => m_sock[l] \in Fds /\ kernel[m_sock[l]].of = l
    BY Kinds, FdsDistinct DEF FdInv, FdCore, OwnDescriptor
  <2>3. apc'[l] \in InAccept => afd'[l] \in Fds /\ (Listening(afd'[l]) => kernel[afd'[l]].of = l /\ m_sock[l] = afd'[l])
    BY <2>1, <2>2 DEF AcceptFd
  <2> QED BY <1>0, <1>1, <2>3 DEF AcceptFd, Listening
<1>7. OneThread'
  <2> SUFFICES ASSUME pool = 1 PROVE late' = {} /\ \A x \in Listeners : apc'[x] = "again" => Listening(afd[x])' /\ afd'[x] = afd[x]
    BY <1>0 DEF OneThread, Listening
  <2>1. ASSUME AcceptWaits(l) PROVE m_datas[afd[l]].of = l
    <3>1. apc[l] = "again"
      BY <2>1 DEF AcceptWaits
    <3>2. m_sock[l] = afd[l] /\ m_sock[l] \in Fds /\ l \notin HalfClosed
      BY <3>1, Alone DEF OneThread, AcceptFd, InAccept
    <3> QED BY <3>2, Kinds, FdsDistinct DEF FdInv, FdCore, CtxIsOwn
  <2>2. late' = {}
    BY <2>1 DEF OneThread, AcceptLoop, AcceptTakes, AcceptAgain, AcceptWaits, AcceptFails
  <2>3. ASSUME NEW x \in Listeners, apc'[x] = "again"
        PROVE afd'[x] = afd[x] /\ afd[x] \in Fds /\ Listening(afd[x])
    <3>1. CASE x # l
      BY <1>1, <2>3, <3>1 DEF OneThread, AcceptFd, InAccept
    <3>2. CASE x = l
      <4>1. AcceptAgain(l)
        BY <2>3, <3>2 DEF AcceptLoop, AcceptTakes, AcceptWaits, AcceptFails, TypeOK
      <4> QED BY <3>2, <4>1 DEF AcceptAgain, AcceptFd, InAccept
    <3> QED BY <3>1, <3>2
  <2> QED BY <1>0, <2>2, <2>3 DEF Listening
<1> QED BY <1>4, <1>5, <1>6, <1>7

(* The steps of the application and of the callback of stop(). *)
LEMMA ServerThreads ==
    ASSUME TypeOK, FdInv, ThreadInv,
           \/ BindFails \/ Start \/ Stop \/ Take \/ StopDeletes \/ StopShuts \/ StopClears
           \/ \E l \in Listeners : BindOne(l) \/ StopCancels(l)
    PROVE  ThreadInv'
<1> USE DEF ThreadInv
<1>0. pool \in Nat /\ IsFiniteSet(running) /\ Cardinality(running) \in Nat
  BY PoolAssumption, FS_CardinalityType DEF TypeOK, Threads
<1>1. CASE BindFails \/ \E l \in Listeners : BindOne(l)
  <2>1. /\ UNCHANGED <<pool, running, apc, afd, late, waiting>>
        /\ \A l \in Listeners : apc[l] \notin InAccept
    BY <1>1 DEF BindFails, BindOne, Settled, InAccept, workerVars
  <2> QED BY <2>1 DEF Threads, AcceptorWaits, AcceptFd, OneThread, InAccept
<1>2. CASE Start
  <2>1. /\ UNCHANGED <<pool, running, afd, late, waiting, m_sock, kernel>>
        /\ \A l \in Listeners : apc[l] \notin InAccept /\ apc'[l] \notin InAccept
    BY <1>2 DEF Start, Settled, InAccept, fdVars
  <2>2. \A f \in Fds : waiting[f] \cap Listeners = {}
    BY <2>1 DEF AcceptorWaits, InAccept
  <2> QED BY <2>1, <2>2 DEF Threads, AcceptorWaits, AcceptFd, OneThread, InAccept
<1>3. CASE Stop
  BY <1>3, ThreadsAlone DEF Stop, fdVars, Listening
<1>4. CASE Take \/ StopClears
  <2>1. UNCHANGED <<pool, apc, afd, late, waiting, m_sock, kernel>>
    BY <1>4 DEF Take, StopClears, fdVars, serverVars
  <2>2. Threads'
    <3>1. CASE Take
      <4>1. IsFiniteSet(running') /\ Cardinality(running') <= Cardinality(running) + 1
        <5>1. running' = running \cup {Head(queue)}
          BY <3>1 DEF Take
        <5>2. /\ IsFiniteSet(running \cup {Head(queue)})
              /\ \/ Cardinality(running \cup {Head(queue)}) = Cardinality(running)
                 \/ Cardinality(running \cup {Head(queue)}) = Cardinality(running) + 1
          BY <1>0, FS_AddElement
        <5> QED BY <1>0, <5>1, <5>2
      <4>2. Cardinality(running) < pool /\ running \subseteq running'
        BY <3>1 DEF Take, IdleThread
      <4>3. Cardinality(running') \in Nat
        BY <4>1, FS_CardinalityType
      <4> QED BY <1>0, <2>1, <4>1, <4>2, <4>3 DEF Threads
    <3>2. CASE StopClears
      <4>1. running' = running \ {CloseAll} /\ running' \subseteq running
        BY <3>2 DEF StopClears
      <4>2. IsFiniteSet(running') /\ Cardinality(running') <= Cardinality(running)
        BY <1>0, <4>1, FS_Subset
      <4>3. Cardinality(running') \in Nat
        BY <4>2, FS_CardinalityType
      <4>4. \A l \in Listeners : l # CloseAll
        BY SocketsAssumption
      <4> QED BY <1>0, <2>1, <4>1, <4>2, <4>3, <4>4 DEF Threads
    <3> QED BY <1>4, <3>1, <3>2
  <2>3. AcceptorWaits' /\ AcceptFd' /\ OneThread'
    BY <2>1 DEF AcceptorWaits, AcceptFd, OneThread, Listening
  <2> QED BY <2>2, <2>3
<1>5. ASSUME NEW l \in Listeners, StopCancels(l) PROVE ThreadInv'
  <2>1. m_sock[l] \in Fds
    BY <1>5, Kinds, FdsDistinct DEF StopCancels, FdInv, FdCore
  <2> QED BY <1>5, <2>1, ThreadsCancel DEF StopCancels, fdVars, serverVars
<1>6. CASE StopDeletes
  <2>1. m_sock[sone] \in Fds
    BY <1>6, Kinds, FdsDistinct DEF StopDeletes, FdInv, FdCore, HasFd
  <2> QED BY <1>6, <2>1, ThreadsCancel DEF StopDeletes, CloseDelete, serverVars
<1>7. CASE StopShuts
  <2>1. /\ UNCHANGED <<pool, running, apc, afd, late, waiting>>
        /\ CloseAll \in running /\ CloseEnd(sone) /\ spc = "deleted"
    BY <1>7 DEF StopShuts, serverVars
  <2>2. /\ \A f \in Fds : kernel'[f] = IF f = m_sock[sone] THEN Free ELSE kernel[f]
        /\ \A l \in Listeners : m_sock'[l] = IF l = sone THEN NoFd ELSE m_sock[l]
    BY <2>1, Kinds DEF CloseEnd, TypeOK
  <2>3. Threads' /\ AcceptorWaits'
    BY <2>1 DEF Threads, AcceptorWaits
  <2>4. AcceptFd'
    <3>1. ASSUME NEW l \in Listeners, apc[l] \in InAccept, kernel'[afd[l]].of \in Listeners
          PROVE kernel'[afd[l]].of = l /\ m_sock'[l] = afd[l]
      <4>1. afd[l] \in Fds /\ afd[l] # m_sock[sone]
        BY <2>2, <3>1, Kinds DEF AcceptFd, Free
      <4>2. kernel[afd[l]].of = l /\ m_sock[l] = afd[l]
        BY <2>2, <3>1, <4>1 DEF AcceptFd, Listening
      <4> QED BY <2>2, <4>1, <4>2
    <3> QED BY <2>1, <3>1 DEF AcceptFd, Listening
  <2>5. OneThread'
    <3>1. pool = 1 => \A l \in Listeners : apc[l] # "again"
      BY <2>1, Alone
    <3> QED BY <2>1, <3>1 DEF OneThread
  <2> QED BY <2>3, <2>4, <2>5
<1> QED BY <1>1, <1>2, <1>3, <1>4, <1>5, <1>6, <1>7

(* Every step keeps it. *)
LEMMA ThreadStep ==
    ASSUME IndInv, ThreadInv, [Next]_vars
    PROVE  ThreadInv'
<1>0. TypeOK /\ FdInv /\ HasFd /\ DialerWaits
  BY DEF IndInv, FdInv, DialInv
<1>1. CASE UNCHANGED vars
  BY <1>0, <1>1, ThreadsAlone DEF vars, fdVars, serverVars, workerVars, Listening
<1>2. CASE DialerStep
  <2>1. UNCHANGED <<fdVars, serverVars, running, apc, afd, late>>
    BY <1>0, <1>2, DialerFrame
  <2>2. \A f \in Fds : waiting'[f] \cap Listeners \subseteq waiting[f]
    <3>1. ASSUME NEW f, NEW x \in Dialers,
                 waiting' = [waiting EXCEPT ![f] = @ \cup {x}] \/ waiting' = [waiting EXCEPT ![f] = @ \ {x}]
          PROVE <2>2!:
      <4>1. x \notin Listeners /\ waiting \in [Fds -> SUBSET (Listeners \cup Dialers)]
        BY <1>0, Kinds DEF TypeOK
      <4> QED BY <3>1, <4>1
    <3>2. ASSUME NEW d \in Dialers, DialWaits(d) \/ DialerWakes(d) PROVE <2>2!:
      BY <3>1, <3>2 DEF DialWaits, DialerWakes, Wake
    <3>4. ASSUME NEW f \in Fds, TimerCancels(f) PROVE <2>2!:
      <4>1. waiting' = waiting \/ \E d \in Dialers : waiting' = [waiting EXCEPT ![f] = @ \ {d}]
        BY <3>4 DEF TimerCancels, Wake
      <4> QED BY <3>1, <4>1
    <3>3. ASSUME NEW d \in Dialers, DialUnwatched(d) \/ TimerMarks(d) \/ DialReturns(d) \/ Established(d)
          PROVE <2>2!:
      BY <3>3 DEF DialUnwatched, TimerMarks, DialReturns, Established, workerVars
    <3> QED BY <1>2, <3>2, <3>3, <3>4 DEF DialerStep
  <2> QED BY <1>0, <2>1, <2>2, ThreadsAlone DEF fdVars, serverVars, Listening
<1>3. ASSUME NEW s \in Fibers, CloseBegin(s) PROVE ThreadInv'
  <2>0. m_sock[s] \in Fds /\ UNCHANGED <<pool, m_sock, kernel>>
    BY <1>0, <1>3, Kinds, FdsDistinct DEF CloseBegin, CloseDelete, serverVars, HasFd, FdInv, FdCore, Opened
  <2>1. CASE cancelALL(m_sock[s])
    BY <1>0, <2>0, <2>1, ThreadsCancel
  <2>2. CASE UNCHANGED <<running, apc, afd, waiting, late>>
    BY <1>0, <2>0, <2>2, ThreadsAlone DEF Listening
  <2> QED BY <1>3, <2>1, <2>2 DEF CloseBegin
<1>4. ASSUME NEW s \in Fibers, CloseLast(s) PROVE ThreadInv'
  <2>0. s \in Sockets /\ s \notin Listeners /\ m_sock[s] \in Fds /\ m_sock[s] # NoFd
    BY <1>0, <1>4, Kinds, FdsDistinct DEF CloseLast, HasFd, FdInv, FdCore, Opened
  <2>1. kernel[m_sock[s]].of = s
    BY <1>0, <2>0 DEF FdInv, FdCore, OwnDescriptor
  <2>2. /\ \A f \in Fds : kernel'[f] = IF f = m_sock[s] THEN Free ELSE kernel[f]
        /\ \A l \in Listeners : m_sock'[l] = m_sock[l]
    BY <1>0, <1>4, <2>0, Kinds DEF CloseLast, CloseEnd, TypeOK
  <2>3. UNCHANGED <<pool, running, apc, afd, late, waiting>>
    BY <1>4 DEF CloseLast, serverVars
  <2>4. \A f \in Fds : /\ Listening(f) => kernel'[f].of = kernel[f].of
                       /\ Listening(f)' => kernel'[f].of = kernel[f].of
    BY <2>0, <2>1, <2>2, Kinds DEF Listening, Free
  <2> QED BY <1>0, <2>2, <2>3, <2>4, ThreadsAlone
<1>5. ASSUME NEW s \in Fibers, SetFlags(s) PROVE ThreadInv'
  <2>1. UNCHANGED <<pool, running, apc, afd, late, waiting, m_sock>>
    BY <1>5 DEF SetFlags, fcntl, ioctl, serverVars, workerVars
  <2>2. \E b \in BOOLEAN : kernel' = [kernel EXCEPT ![m_sock[s]].nonblock = b]
    BY <1>5 DEF SetFlags, fcntl, ioctl
  <2>3. \A f \in Fds : kernel'[f].of = kernel[f].of
    BY <1>0, <2>2 DEF TypeOK
  <2> QED BY <1>0, <2>1, <2>3, ThreadsAlone
<1>6. ASSUME NEW d \in Dialers, Dial(d) PROVE ThreadInv'
  <2>0. d \in Sockets /\ d \notin Listeners /\ Open(d)
    BY <1>6, Kinds DEF Dial
  <2>1. PICK f \in Fds : OpensAt(d, f, FALSE)
    BY <1>0, <2>0, OpenAt DEF FdInv, FdCore
  <2>2. UNCHANGED <<pool, running, apc, afd, late, waiting>>
    BY <1>6 DEF Dial, serverVars, workerVars
  <2>3. /\ \A l \in Listeners : m_sock'[l] = m_sock[l]
        /\ \A g \in Fds : /\ Listening(g) => kernel'[g].of = kernel[g].of
                          /\ Listening(g)' => kernel'[g].of = kernel[g].of
    BY <1>0, <2>0, <2>1, Kinds DEF OpensAt, Listening, Free, TypeOK
  <2> QED BY <1>0, <2>2, <2>3, ThreadsAlone
<1>7. ASSUME NEW l \in Listeners, AcceptorWakes(l) \/ LateWakes(l) PROVE ThreadInv'
  <2>1. /\ apc[l] = "wait" /\ l \in waiting[afd[l]] /\ WakeAcceptors(afd[l], {l})
        /\ UNCHANGED <<pool, m_sock, kernel>>
    BY <1>7 DEF AcceptorWakes, LateWakes, fdVars, serverVars
  <2>2. afd[l] \in Fds
    BY <2>1 DEF ThreadInv, AcceptFd, InAccept
  <2>3. {l} \subseteq waiting[afd[l]] \cap Listeners
    BY <2>1
  <2> QED BY <1>0, <2>1, <2>2, <2>3, ThreadsWake
<1> QED BY <1>0, <1>1, <1>2, <1>3, <1>4, <1>5, <1>6, <1>7, StepCases, AcceptorThreads, ServerThreads
        DEF WorkerStep

(* With one thread the callback of stop() never runs between an acceptor's *)
(* EAGAIN and its addEvent: nobody is registered on a number whose FdCtx   *)
(* close() has deleted, so the exception of StopEndsAccept is left only to *)
(* pools of two threads and more.                                          *)
THEOREM SingleThread == Spec => [](pool = 1 => late = {})
<1>1. Init => ThreadInv
  <2> SUFFICES ASSUME Init PROVE ThreadInv
    OBVIOUS
  <2>1. IsFiniteSet(running) /\ Cardinality(running) = 0 /\ pool \in Nat
    BY FS_EmptySet, PoolAssumption DEF Init
  <2>2. \A l \in Listeners : apc[l] = "none"
    BY DEF Init
  <2> QED BY <2>1, <2>2 DEF Init, ThreadInv, Threads, AcceptorWaits, AcceptFd, OneThread, InAccept
<1>2. IndInv /\ ThreadInv /\ [Next]_vars => ThreadInv'
  BY ThreadStep
<1>3. ThreadInv => (pool = 1 => late = {})
  BY DEF ThreadInv, OneThread
<1> QED BY <1>1, <1>2, <1>3, Inductive, PTL DEF Spec
=============================================================================
