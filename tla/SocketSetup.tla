----------------------------- MODULE SocketSetup -----------------------------
(***************************************************************************)
(* How a bus gets its descriptor: setupServer and connectToServer of        *)
(* SocketBus in C++ (src/src/SocketBus.cpp), connect_to_server in Python    *)
(* (src/duino_bus/socket_bus.py), and open of LinuxSerialBus                *)
(* (src/src/LinuxSerialBus.cpp).                                            *)
(*                                                                         *)
(* One action is one system call, each of which may fail. Between them      *)
(* another thread of the process opens and closes descriptors of its own,   *)
(* and the kernel hands out the lowest free number, as POSIX has it.        *)
(***************************************************************************)
EXTENDS Naturals, FiniteSets, FiniteSetsExt

CONSTANTS
  MaxFd,        \* bound: descriptors of the process
  MaxAddr,      \* bound: addresses getaddrinfo returns
  MaxCalls      \* bound: calls of setupServer, connectToServer, connect_to_server, open

ASSUME SocketBoundsAssumption == {MaxFd, MaxAddr, MaxCalls} \subseteq Nat \ {0}

VARIABLES
  bus,          \* this bus: SocketBus in C++ ("cpp") or Python ("py"), or LinuxSerialBus
  fds,          \* what each descriptor of the process is
  others,       \* the descriptors the other thread has opened and not closed
  lists,        \* address lists allocated and not freed
  m_socket,     \* its socket, or m_serial; 0 for INVALID_SOCKET, -1 and a closed one
  call,         \* the call in progress: its next step, sockets and address
  rc,           \* what the latest call returned
  calls,        \* calls so far, for the bound
  before,       \* history: the bus's descriptors and lists when the call began
  ended,        \* history: which call returned last, and at which step
  connected,    \* history: a call has returned NONE since the bus was made or closed, or
                \* since the latest call of open
  stray         \* history: the bus has closed a descriptor of the other thread

vars == <<bus, fds, others, lists, m_socket, call, rc, calls, before, ended,
          connected, stray>>

Fd == 1..MaxFd

Idle == [op |-> "none", at |-> "idle", skt |-> 0, client |-> 0, i |-> 0, n |-> 0]

Free == {fd \in Fd : fds[fd] = "free"}

\* The descriptors that belong to the bus, whether or not it remembers them.
Owned == {fd \in Fd : fds[fd] \notin {"free", "other"}}

\* A SocketBus of Python starts with a socket that is not connected.
Init ==
  /\ bus \in {"cpp", "py", "serial"}
  /\ fds = [fd \in Fd |-> IF bus = "py" /\ fd = 1 THEN "raw" ELSE "free"]
  /\ others = {}
  /\ lists = 0
  /\ m_socket = IF bus = "py" THEN 1 ELSE 0
  /\ call = Idle
  /\ rc = "NONE"
  /\ calls = 0
  /\ before = [fds |-> {}, lists |-> 0]
  /\ ended = <<"none", "idle">>
  /\ connected = FALSE
  /\ stray = FALSE

close(fd) ==
  /\ fds' = IF fd = 0 THEN fds ELSE [fds EXCEPT ![fd] = "free"]
  /\ stray' = (stray \/ (fd # 0 /\ fds[fd] = "other"))

Become(fd, kind) ==
  /\ fds' = [fds EXCEPT ![fd] = kind]
  /\ UNCHANGED stray

At(step) == call.at = step

Goto(step) == call' = [call EXCEPT !.at = step]

Return(code) ==
  /\ call' = Idle
  /\ rc' = code
  /\ ended' = <<call.op, call.at>>

\* Faulty NextAddress: continue does not move on.
NextAddressSame(skt) == call' = [call EXCEPT !.at = "socket", !.skt = skt]

\* continue: the next address, if there is one.
NextAddress(skt) ==
  call' = [call EXCEPT !.at = IF call.i < call.n THEN "socket" ELSE "none",
                       !.i = @ + 1,
                       !.skt = skt]

\* Faulty Fail: the socket is not closed.
FailKeeping(skt) ==
  /\ UNCHANGED <<fds, stray>>
  /\ Return("OS")

\* An error after which the socket at hand is closed.
Fail(skt) ==
  /\ close(skt)
  /\ Return("OS")

unreturned == <<rc, ended>>
outside == <<bus, others, calls, before>>
-----------------------------------------------------------------------------
Begin ==
  /\ calls < MaxCalls
  /\ calls' = calls + 1
  /\ before' = [fds |-> Owned, lists |-> lists]

\* A call begins: getaddrinfo.
Resolve ==
  /\ At("idle")
  /\ bus # "serial"
  /\ Begin
  /\ \/ /\ rc' = (IF bus = "py" THEN "RAISED" ELSE "OS")
        /\ ended' = <<"none", "resolve">>
        /\ UNCHANGED <<call, lists>>
     \/ /\ \E op \in (IF bus = "py" THEN {"connect"} ELSE {"server", "connect"}) :
             \E n \in 1..MaxAddr :
               call' = [op |-> op, at |-> "socket", skt |-> 0, client |-> 0, i |-> 1, n |-> n]
        /\ lists' = IF bus = "py" THEN lists ELSE lists + 1
        /\ UNCHANGED unreturned
  /\ UNCHANGED <<bus, fds, others, m_socket, connected, stray>>

\* socket: for want of one, C++ tries the next address, and Python raises.
Socket ==
  /\ At("socket")
  /\ \/ /\ Free # {}
        /\ Become(Min(Free), "raw")
        /\ call' = [call EXCEPT !.at = IF call.op = "server" THEN "setsockopt" ELSE "connect",
                                !.skt = Min(Free)]
        /\ UNCHANGED unreturned
     \/ /\ bus = "cpp"
        /\ NextAddress(0)
        /\ UNCHANGED <<fds, stray, unreturned>>
     \/ /\ bus = "py"
        /\ Return("RAISED")
        /\ UNCHANGED <<fds, stray>>
  /\ UNCHANGED <<outside, lists, m_socket, connected>>

\* Every address has failed: the socket of the last one is closed once more.
NoneLeft ==
  /\ At("none")
  /\ Return("OS")
  /\ IF bus = "cpp"
     THEN close(call.skt) /\ lists' = lists - 1
     ELSE UNCHANGED <<fds, stray, lists>>
  /\ UNCHANGED <<outside, m_socket, connected>>
-----------------------------------------------------------------------------
(***************************************************************************)
(* setupServer.                                                            *)
(***************************************************************************)
Setsockopt ==
  /\ At("setsockopt")
  /\ \/ /\ Goto("bind")
        /\ UNCHANGED <<fds, stray, unreturned>>
     \/ Fail(call.skt)
  /\ UNCHANGED <<outside, lists, m_socket, connected>>

\* bind; on success freeaddrinfo as well.
Bind ==
  /\ At("bind")
  /\ \/ /\ Goto("listen")
        /\ lists' = lists - 1
        /\ UNCHANGED <<fds, stray>>
     \/ /\ close(call.skt)
        /\ NextAddress(call.skt)
        /\ UNCHANGED lists
  /\ UNCHANGED <<outside, unreturned, m_socket, connected>>

Listen ==
  /\ At("listen")
  /\ \/ /\ Become(call.skt, "listening")
        /\ Goto("accept")
        /\ UNCHANGED unreturned
     \/ Fail(call.skt)
  /\ UNCHANGED <<outside, lists, m_socket, connected>>

\* accept waits for a client, as long as it takes.
Accept ==
  /\ At("accept")
  /\ \/ /\ Free # {}
        /\ Become(Min(Free), "blocking")
        /\ call' = [call EXCEPT !.at = "nonblock", !.client = Min(Free)]
        /\ UNCHANGED unreturned
     \/ Fail(call.skt)
  /\ UNCHANGED <<outside, lists, m_socket, connected>>

\* Faulty Accepted: the two sockets are swapped when one is closed.
AcceptedSwapped(client, skt) == [fds EXCEPT ![client] = "free"]

\* The accepted socket is made non-blocking and the listening one closed.
Accepted(client, skt) == [fds EXCEPT ![client] = "nonblocking", ![skt] = "free"]

\* makeSocketNonBlocking, and on success the listening socket is closed. On
\* failure neither socket is.
NonblockServer ==
  /\ At("nonblock") /\ call.op = "server"
  /\ \/ /\ fds' = Accepted(call.client, call.skt)
        /\ m_socket' = call.client
        /\ connected' = TRUE
        /\ Return("NONE")
     \/ /\ Return("OS")
        /\ UNCHANGED <<fds, m_socket, connected>>
  /\ UNCHANGED <<outside, lists, stray>>
-----------------------------------------------------------------------------
(***************************************************************************)
(* connectToServer and connect_to_server.                                  *)
(***************************************************************************)

\* connect. Python tries the next address only if this one timed out; a refusal
\* raises, and the socket goes with the frame that held it.
Connect ==
  /\ At("connect")
  /\ \/ /\ Become(call.skt, "blocking")
        /\ Goto("nonblock")
        /\ UNCHANGED unreturned
     \/ /\ close(call.skt)
        /\ NextAddress(call.skt)
        /\ UNCHANGED unreturned
     \/ /\ bus = "py"
        /\ close(call.skt)
        /\ Return("RAISED")
  /\ UNCHANGED <<outside, lists, m_socket, connected>>

makeSocketNonBlocking(skt) == Become(skt, "nonblocking")

\* In C++ the previous socket, if any, is overwritten.
NonblockClient ==
  /\ At("nonblock") /\ call.op = "connect" /\ bus = "cpp"
  /\ \/ /\ makeSocketNonBlocking(call.skt)
        /\ m_socket' = call.skt
        /\ connected' = TRUE
        /\ lists' = lists - 1
        /\ Return("NONE")
     \/ /\ Fail(call.skt)
        /\ UNCHANGED <<m_socket, connected, lists>>
  /\ UNCHANGED outside

\* In Python the previous socket is closed when its last reference goes.
make_socket_non_blocking ==
  /\ At("nonblock") /\ bus = "py"
  /\ fds' = [fd \in Fd |-> IF fd = call.skt THEN "nonblocking"
                           ELSE IF fd = m_socket THEN "free"
                           ELSE fds[fd]]
  /\ m_socket' = call.skt
  /\ connected' = TRUE
  /\ Return("NONE")
  /\ UNCHANGED <<outside, lists, stray>>
-----------------------------------------------------------------------------
(***************************************************************************)
(* LinuxSerialBus::open.                                                   *)
(***************************************************************************)

\* ::open. What m_serial was before is overwritten, whether or not this fails.
OpenSerial ==
  /\ At("idle")
  /\ bus = "serial"
  /\ Begin
  /\ connected' = FALSE
  /\ \/ /\ Free # {}
        /\ m_socket' = Min(Free)
        /\ Become(Min(Free), "port")
        /\ call' = [Idle EXCEPT !.op = "open", !.at = "tcgetattr"]
        /\ UNCHANGED unreturned
     \/ /\ m_socket' = 0
        /\ rc' = "OS" /\ ended' = <<"open", "open">>
        /\ UNCHANGED <<fds, stray, call>>
  /\ UNCHANGED <<bus, others, lists>>

\* An error of these two leaves the port open, in m_serial, and as it was found.
Tcgetattr ==
  /\ At("tcgetattr")
  /\ \/ Goto("tcsetattr") /\ UNCHANGED unreturned
     \/ Return("OS")
  /\ UNCHANGED <<outside, fds, stray, lists, m_socket, connected>>

Tcsetattr ==
  /\ At("tcsetattr")
  /\ \/ /\ Become(m_socket, "configured")
        /\ connected' = TRUE
        /\ Return("NONE")
     \/ /\ Return("OS")
        /\ UNCHANGED <<fds, stray, connected>>
  /\ UNCHANGED <<outside, lists, m_socket>>
-----------------------------------------------------------------------------
\* Faulty forget: the number stays behind.
forgetNot(skt) == skt

forget(skt) == 0

\* The destructors (and a new bus), or Python's close.
Destroy ==
  /\ At("idle")
  /\ close(m_socket)
  /\ m_socket' = forget(m_socket)
  /\ connected' = FALSE
  /\ UNCHANGED <<outside, unreturned, lists, call>>

OtherOpen ==
  /\ Free # {}
  /\ Become(Min(Free), "other")
  /\ others' = others \cup {Min(Free)}
  /\ UNCHANGED <<bus, lists, m_socket, call, unreturned, calls, before, connected>>

\* It closes what it has opened, which may have been closed before.
OtherClose ==
  /\ \E fd \in others : Become(fd, "free") /\ others' = others \ {fd}
  /\ UNCHANGED <<bus, lists, m_socket, call, unreturned, calls, before, connected>>

Step ==
  \/ Socket \/ NoneLeft
  \/ Setsockopt \/ Bind \/ Listen \/ NonblockServer
  \/ Connect \/ NonblockClient \/ make_socket_non_blocking
  \/ Tcgetattr \/ Tcsetattr

Next == Resolve \/ OpenSerial \/ Step \/ Accept \/ Destroy \/ OtherOpen \/ OtherClose

Spec == Init /\ [][Next]_vars

\* Every system call returns, but for accept, which waits for a client.
FairSpec == Spec /\ WF_vars(Step)
-----------------------------------------------------------------------------
\* Once a call has returned NONE the bus has a socket that is connected and does
\* not block, or a port that is set up, whatever later calls fail at and whatever
\* other threads open and close: unless the bus has itself taken a descriptor from
\* them. (open is different from the others: what it fails at costs the bus its port.)
SocketUsable ==
  connected /\ ~stray => m_socket # 0 /\ fds[m_socket] \in {"nonblocking", "configured"}

\* A bus closes a descriptor that is not its own only by closing the last
\* address's socket a second time, which the C++ code does when all have failed.
\* (Once that has happened, nothing is certain any more.)
StrayOnlyIfNoneLeft == [][stray' /\ ~stray => bus = "cpp" /\ At("none")]_vars

\* The ways to fail at which setupServer and connectToServer keep something: the
\* sockets, when the accepted one cannot be made non-blocking, and the address list.
\* A LinuxSerialBus keeps the port it has opened, set up or not.
KeepsSockets == rc # "NONE" /\ ended = <<"server", "nonblock">>
KeepsList == rc # "NONE" /\ ended \in {<<"server", "setsockopt">>, <<"connect", "nonblock">>}

\* A call that fails returns what it took, wherever it fails but at the places
\* above; one that succeeds keeps nothing but its socket, its listening socket and
\* those of other addresses included. In Python not even the last connection's
\* socket is left.
Released ==
  At("idle") =>
    /\ \/ Owned \subseteq before.fds \cup (IF rc = "NONE" \/ bus = "serial" THEN {m_socket} ELSE {})
       \/ KeepsSockets
    /\ bus = "py" => Owned \subseteq {m_socket}
    /\ lists = before.lists \/ KeepsList

\* A bound of the system calls that a call may still make: what is left for the address it
\* is at, and six for it and for each address after it.
Left(c) ==
  IF c.at = "idle" THEN 0
  ELSE 6 * (c.n + 1 - c.i)
       + [socket |-> 6, setsockopt |-> 5, bind |-> 4, listen |-> 3, accept |-> 2, nonblock |-> 1,
          connect |-> 2, none |-> 1, tcgetattr |-> 2, tcsetattr |-> 1][c.at]

\* No system call leads back to one that was made for the same address, and none to an address
\* that was tried: whatever fails and whatever other threads do, a call comes nearer to its
\* end, and there is an end to that.
CallAdvances == [][~At("idle") /\ call' # call => Left(call') \in 0..(Left(call) - 1)]_vars

\* A call ends, or waits for a client.
CallEnds == ~At("idle") ~> (At("idle") \/ At("accept"))
=============================================================================
