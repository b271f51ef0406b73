-------------------------- MODULE SocketSetupProofs --------------------------
(***************************************************************************)
(* What SocketSetup keeps, for every number of descriptors, addresses and   *)
(* calls, and whatever other threads of the process open and close.         *)
(***************************************************************************)
EXTENDS SocketSetup, WellFoundedInduction, TLAPS

\* What a descriptor of the bus may be.
Mine == {"raw", "listening", "blocking", "nonblocking", "port", "configured"}

CallValue ==
  [op     : {"none", "server", "connect", "open"},
   at     : {"idle", "socket", "none", "setsockopt", "bind", "listen", "accept", "nonblock",
             "connect", "tcgetattr", "tcsetattr"},
   skt    : 0..MaxFd,
   client : 0..MaxFd,
   i      : Nat,
   n      : Nat]

Types ==
  /\ bus \in {"cpp", "py", "serial"}
  /\ fds \in [Fd -> Mine \cup {"free", "other"}]
  /\ others \subseteq Fd
  /\ m_socket \in 0..MaxFd
  /\ call \in CallValue

\* Which call is at which step.
Steps ==
  /\ At("idle") => call = Idle
  /\ call.at \in {"socket", "none", "nonblock"} => call.op \in {"server", "connect"}
  /\ call.at \in {"setsockopt", "bind", "listen", "accept"} => call.op = "server"
  /\ At("connect") => call.op = "connect"
  /\ call.at \in {"tcgetattr", "tcsetattr"} => call.op = "open" /\ bus = "serial"
  /\ call.op = "server" => bus = "cpp"
  /\ call.op = "connect" => bus \in {"cpp", "py"}

TypeInv == Types /\ Steps

\* An address list is allocated until bind or makeSocketNonBlocking has succeeded, and longer
\* if a call fails without freeing it.
Listed ==
  /\ bus = "cpp"
  /\ \/ call.at \in {"socket", "none", "setsockopt", "bind", "connect"}
     \/ At("nonblock") /\ call.op = "connect"

Lists ==
  /\ lists \in Nat /\ before.lists \in Nat
  /\ Listed => lists = before.lists + 1
  /\ ~Listed => lists = before.lists \/ (At("idle") /\ KeepsList)

\* A descriptor of the call in progress, which is not yet the bus's.
Holds(fd, kinds) == fd # 0 /\ fd # m_socket /\ fds[fd] \in kinds

\* What the descriptors at hand are, as long as the bus has closed none of another thread.
Kept ==
  /\ m_socket # 0 => fds[m_socket] \in Mine
  /\ \A fd \in others : fds[fd] = "other"
  /\ connected => m_socket # 0 /\ fds[m_socket] \in {"nonblocking", "configured"}
  /\ call.at \in {"setsockopt", "bind", "listen", "connect"} => Holds(call.skt, {"raw"})
  /\ At("accept") => Holds(call.skt, {"listening"})
  /\ At("nonblock") /\ call.op = "server" =>
       Holds(call.skt, {"listening"}) /\ Holds(call.client, {"blocking"})
  /\ At("nonblock") /\ call.op = "connect" => Holds(call.skt, {"blocking"})
  /\ call.at \in {"tcgetattr", "tcsetattr"} => m_socket # 0 /\ fds[m_socket] = "port"
  /\ At("none") /\ call.skt # 0 => fds[call.skt] \in {"free", "other"}

Descriptors == ~stray => Kept

\* The descriptors a call has taken so far.
New == CASE call.at \in {"idle", "socket", "none"} -> {}
         [] call.at \in {"tcgetattr", "tcsetattr"} -> {m_socket}
         [] At("nonblock") /\ call.op = "server" -> {call.skt, call.client}
         [] OTHER -> {call.skt}

\* Every descriptor of the bus is an old one or one of these.
Accounted ==
  /\ ~At("idle") => Owned \subseteq before.fds \cup New
  /\ bus = "py" => Owned \subseteq {m_socket} \cup New
  /\ At("idle") =>
       \/ Owned \subseteq before.fds \cup (IF rc = "NONE" \/ bus = "serial" THEN {m_socket} ELSE {})
       \/ KeepsSockets
-----------------------------------------------------------------------------
(***************************************************************************)
(* The types, and the steps of a call.                                     *)
(***************************************************************************)

\* The lowest of some numbers is one of them.
LEMMA Least ==
  ASSUME NEW S, S \subseteq Nat, S # {}
  PROVE  Min(S) \in S
<1>1. PICK x \in S : \A y \in S : ~(<<y, x>> \in OpToRel(<, Nat))
  BY NatLessThanWellFounded, WFMin
<1>2. ASSUME NEW y \in S PROVE x <= y
  <2>1. <<y, x>> \in Nat \X Nat /\ <<y, x>>[1] = y /\ <<y, x>>[2] = x
    OBVIOUS
  <2>2. ~(y < x)
    BY <1>1, <2>1 DEF OpToRel
  <2>3. QED
    BY <2>2
<1>3. QED
  BY <1>2 DEF Min

\* The kernel hands out a free descriptor.
LEMMA LowestFree == Free # {} => Min(Free) \in Fd /\ fds[Min(Free)] = "free"
<1>1. Free \subseteq Nat
  BY DEF Free, Fd
<1>2. Free # {} => Min(Free) \in Free
  BY <1>1, Least
<1>3. QED
  BY <1>2 DEF Free

\* Descriptors are numbered from 1.
LEMMA MaxFdFact == MaxFd \in Nat /\ Fd = 1..MaxFd
BY SocketBoundsAssumption DEF Fd

\* Steps that change no more than the table of descriptors.
LEMMA TableType ==
  ASSUME Types
  PROVE  /\ \A fd \in Fd, kind \in Mine \cup {"free", "other"} :
              [fds EXCEPT ![fd] = kind] \in [Fd -> Mine \cup {"free", "other"}]
         /\ \A fd : close(fd) => fds' \in [Fd -> Mine \cup {"free", "other"}]
BY DEF Types, close

\* What becomes of the call.
LEMMA CallType ==
  ASSUME Types
  PROVE  /\ Idle \in CallValue
         /\ \A step \in {"idle", "socket", "none", "setsockopt", "bind", "listen", "accept", "nonblock",
                         "connect", "tcgetattr", "tcsetattr"} :
              /\ [call EXCEPT !.at = step] \in CallValue
              /\ \A skt \in 0..MaxFd : [call EXCEPT !.at = step, !.skt = skt] \in CallValue
              /\ \A client \in 0..MaxFd : [call EXCEPT !.at = step, !.client = client] \in CallValue
         /\ \A skt \in 0..MaxFd :
              NextAddress(skt) =>
                /\ call' \in CallValue
                /\ call'.at \in {"socket", "none"} /\ call'.op = call.op /\ call'.skt = skt
<1>1. call \in CallValue
  BY DEF Types
<1>2. Idle \in CallValue
  BY MaxFdFact DEF Idle, CallValue
<1>3. ASSUME NEW step \in {"idle", "socket", "none", "setsockopt", "bind", "listen", "accept",
                           "nonblock", "connect", "tcgetattr", "tcsetattr"}
      PROVE  /\ [call EXCEPT !.at = step] \in CallValue
             /\ \A skt \in 0..MaxFd : [call EXCEPT !.at = step, !.skt = skt] \in CallValue
             /\ \A client \in 0..MaxFd : [call EXCEPT !.at = step, !.client = client] \in CallValue
  BY <1>1 DEF CallValue
<1>4. ASSUME NEW skt \in 0..MaxFd, NextAddress(skt)
      PROVE  /\ call' \in CallValue
             /\ call'.at \in {"socket", "none"} /\ call'.op = call.op /\ call'.skt = skt
  <2> DEFINE step == IF call.i < call.n THEN "socket" ELSE "none"
  <2>1. call' = [call EXCEPT !.at = step, !.i = call.i + 1, !.skt = skt]
    BY <1>4 DEF NextAddress
  <2>2. step \in {"socket", "none"} /\ call.i + 1 \in Nat
    BY <1>1 DEF CallValue
  <2> HIDE DEF step
  <2>3. QED
    BY <1>1, <2>1, <2>2 DEF CallValue
<1>5. QED
  BY <1>2, <1>3, <1>4

\* The bus does not change, nor what its call is, but when one begins and ends.
LEMMA TypeCall ==
  ASSUME TypeInv, Next
  PROVE  bus' = bus /\ call' \in CallValue /\ Steps'
<1> USE DEF outside
<1>1. bus' = bus
  BY DEF Next, Step, Resolve, OpenSerial, Accept, Destroy, OtherOpen, OtherClose, Socket, NoneLeft,
    Setsockopt, Bind, Listen, NonblockServer, Connect, NonblockClient, make_socket_non_blocking,
    Tcgetattr, Tcsetattr
<1> SUFFICES call' \in CallValue /\ Steps'
  BY <1>1
<1>2. call \in CallValue /\ Types
  BY DEF TypeInv, Types
<1>3. Idle \in CallValue /\ Idle.at = "idle" /\ Idle.op = "none"
  BY <1>2, CallType DEF Idle
<1>4. call' = call => Steps'
  BY <1>1 DEF TypeInv, Steps, At
<1>5. call' = Idle => call' \in CallValue /\ Steps'
  BY <1>3 DEF Steps, At
<1>6. ASSUME NEW skt \in 0..MaxFd, NextAddress(skt), call.op \in {"server", "connect"}
      PROVE  call' \in CallValue /\ Steps'
  <2>1. /\ call' \in CallValue
        /\ call'.at \in {"socket", "none"} /\ call'.op = call.op
    BY <1>2, <1>6, CallType
  <2>2. QED
    BY <1>1, <1>6, <2>1 DEF TypeInv, Steps, At
<1>7. CASE Resolve
  <2>1. CASE call' = call
    BY <1>2, <1>4, <2>1
  <2>2. CASE call' # call
    <3>1. PICK op \in (IF bus = "py" THEN {"connect"} ELSE {"server", "connect"}), m \in 1..MaxAddr :
            call' = [op |-> op, at |-> "socket", skt |-> 0, client |-> 0, i |-> 1, n |-> m]
      BY <1>7, <2>2 DEF Resolve
    <3>2. m \in Nat /\ 0 \in 0..MaxFd /\ op \in {"server", "connect"} /\ (op = "server" => bus # "py")
      BY MaxFdFact, SocketBoundsAssumption
    <3>3. call' \in CallValue
      BY <3>1, <3>2 DEF CallValue
    <3>4. bus # "serial" /\ bus \in {"cpp", "py", "serial"}
      BY <1>2, <1>7 DEF Resolve, Types
    <3>5. QED
      BY <1>1, <3>1, <3>2, <3>3, <3>4 DEF Steps, At
  <2>3. QED
    BY <2>1, <2>2
<1>8. CASE OpenSerial
  <2>1. CASE call' = call
    BY <1>2, <1>4, <2>1
  <2>2. CASE call' # call
    <3>1. call' = [Idle EXCEPT !.op = "open", !.at = "tcgetattr"] /\ bus = "serial"
      BY <1>8, <2>2 DEF OpenSerial
    <3>2. call' \in CallValue /\ call'.op = "open" /\ call'.at = "tcgetattr"
      BY <1>3, <3>1 DEF CallValue
    <3>3. QED
      BY <1>1, <3>1, <3>2 DEF Steps, At
  <2>3. QED
    BY <2>1, <2>2
<1>9. CASE Socket
  <2>1. call.op \in {"server", "connect"} /\ 0 \in 0..MaxFd
    BY <1>9, MaxFdFact DEF Socket, At, TypeInv, Steps
  <2>2. CASE NextAddress(0) \/ call' = Idle
    BY <1>5, <1>6, <2>1, <2>2
  <2>3. CASE Free # {} /\ call' = [call EXCEPT !.at = IF call.op = "server" THEN "setsockopt" ELSE "connect",
                                   !.skt = Min(Free)]
    <3>1. Min(Free) \in 0..MaxFd
      BY <2>3, LowestFree, MaxFdFact
    <3>2. call' \in CallValue /\ call'.op = call.op
          /\ call'.at = IF call.op = "server" THEN "setsockopt" ELSE "connect"
      BY <1>2, <2>3, <3>1 DEF CallValue
    <3>3. QED
      BY <1>1, <2>1, <3>2 DEF TypeInv, Steps, At
  <2>4. QED
    BY <1>9, <2>2, <2>3 DEF Socket, Return
<1>10. CASE Setsockopt \/ Bind \/ Listen
  <2>1. call.op = "server" /\ call.skt \in 0..MaxFd
    BY <1>2, <1>10 DEF Setsockopt, Bind, Listen, At, TypeInv, Steps, CallValue
  <2>2. CASE NextAddress(call.skt) \/ call' = Idle
    BY <1>5, <1>6, <2>1, <2>2
  <2>3. CASE \E step \in {"bind", "listen", "accept"} : Goto(step)
    <3>1. PICK step \in {"bind", "listen", "accept"} : call' = [call EXCEPT !.at = step]
      BY <2>3 DEF Goto
    <3>2. call' \in CallValue /\ call'.op = call.op /\ call'.at = step
      BY <1>2, <3>1 DEF CallValue
    <3>3. QED
      BY <1>1, <2>1, <3>2 DEF TypeInv, Steps, At
  <2>4. QED
    BY <1>10, <2>2, <2>3 DEF Setsockopt, Bind, Listen, Fail, Return
<1>11. CASE Accept
  <2>1. call.op = "server"
    BY <1>11 DEF Accept, At, TypeInv, Steps
  <2>2. CASE call' = Idle
    BY <1>5, <2>2
  <2>3. CASE Free # {} /\ call' = [call EXCEPT !.at = "nonblock", !.client = Min(Free)]
    <3>1. Min(Free) \in 0..MaxFd
      BY <2>3, LowestFree, MaxFdFact
    <3>2. call' \in CallValue /\ call'.op = call.op /\ call'.at = "nonblock"
      BY <1>2, <2>3, <3>1 DEF CallValue
    <3>3. QED
      BY <1>1, <2>1, <3>2 DEF TypeInv, Steps, At
  <2>4. QED
    BY <1>11, <2>2, <2>3 DEF Accept, Fail, Return
<1>12. CASE Connect
  <2>1. call.op = "connect" /\ call.skt \in 0..MaxFd
    BY <1>2, <1>12 DEF Connect, At, TypeInv, Steps, CallValue
  <2>2. CASE NextAddress(call.skt) \/ call' = Idle
    BY <1>5, <1>6, <2>1, <2>2
  <2>3. CASE Goto("nonblock")
    <3>1. call' \in CallValue /\ call'.op = call.op /\ call'.at = "nonblock"
      BY <1>2, <2>3 DEF CallValue, Goto
    <3>2. QED
      BY <1>1, <2>1, <3>1 DEF TypeInv, Steps, At
  <2>4. QED
    BY <1>12, <2>2, <2>3 DEF Connect, Return
<1>13. CASE Tcgetattr \/ Tcsetattr
  <2>1. call.op = "open" /\ bus = "serial"
    BY <1>13 DEF Tcgetattr, Tcsetattr, At, TypeInv, Steps
  <2>2. CASE call' = Idle
    BY <1>5, <2>2
  <2>3. CASE Goto("tcsetattr")
    <3>1. call' \in CallValue /\ call'.op = call.op /\ call'.at = "tcsetattr"
      BY <1>2, <2>3 DEF CallValue, Goto
    <3>2. QED
      BY <1>1, <2>1, <3>1 DEF TypeInv, Steps, At
  <2>4. QED
    BY <1>13, <2>2, <2>3 DEF Tcgetattr, Tcsetattr, Return
<1>14. CASE NoneLeft \/ NonblockServer \/ NonblockClient \/ make_socket_non_blocking
  <2>1. call' = Idle
    BY <1>14 DEF NoneLeft, NonblockServer, NonblockClient, make_socket_non_blocking, Fail, Return
  <2>2. QED
    BY <1>5, <2>1
<1>15. CASE Destroy \/ OtherOpen \/ OtherClose
  <2>1. call' = call
    BY <1>15 DEF Destroy, OtherOpen, OtherClose
  <2>2. QED
    BY <1>2, <1>4, <2>1
<1>16. QED
  BY <1>1, <1>7, <1>8, <1>9, <1>10, <1>11, <1>12, <1>13, <1>14, <1>15 DEF Next, Step

\* The inductive step: the call, the table and the bus.
LEMMA TypeStep == TypeInv /\ [Next]_vars => TypeInv'
<1> USE DEF outside
<1> SUFFICES ASSUME TypeInv, [Next]_vars PROVE TypeInv'
  OBVIOUS
<1>1. CASE UNCHANGED vars
  BY <1>1 DEF vars, TypeInv, Types, Steps, At
<1>2. CASE Next
  <2>1. bus' = bus /\ call' \in CallValue /\ Steps'
    BY <1>2, TypeCall
  <2>2. Types
    BY DEF TypeInv
  <2>3. fds' \in [Fd -> Mine \cup {"free", "other"}]
    <3>1. fds' = fds \/ (\E fd : close(fd)) \/ (\E fd \in Fd, kind \in Mine \cup {"other"} : Become(fd, kind))
            => fds' \in [Fd -> Mine \cup {"free", "other"}]
      BY <2>2, TableType DEF Types, Become
    <3>2. CASE Resolve \/ Tcgetattr
      BY <1>2, <3>1, <3>2 DEF Resolve, Tcgetattr
    <3>3. CASE OpenSerial \/ Socket \/ OtherOpen
      BY <3>1, <3>3, LowestFree DEF OpenSerial, Socket, OtherOpen, Mine
    <3>4. CASE Setsockopt \/ Bind \/ NoneLeft \/ Destroy
      BY <3>1, <3>4 DEF Setsockopt, Bind, NoneLeft, Destroy, Fail
    <3>5. CASE Listen \/ Accept \/ Connect \/ NonblockClient \/ Tcsetattr
      <4>1. \A fd, kind : Become(fd, kind) => fds' = [fds EXCEPT ![fd] = kind]
        BY DEF Become
      <4>2. \A fd : close(fd) => fds' \in [Fd -> Mine \cup {"free", "other"}]
        BY <2>2, TableType
      <4>3. \A fd, kind \in Mine : [fds EXCEPT ![fd] = kind] \in [Fd -> Mine \cup {"free", "other"}]
        BY <2>2 DEF Types
      <4>4. (\E fd : close(fd)) \/ (\E fd : \E kind \in Mine : Become(fd, kind)) \/ fds' = fds
        BY <3>5 DEF Listen, Accept, Connect, NonblockClient, makeSocketNonBlocking, Tcsetattr, Fail, Mine
      <4>5. QED
        BY <2>2, <4>1, <4>2, <4>3, <4>4 DEF Types
    <3>6. CASE NonblockServer
      BY <2>2, <3>6 DEF NonblockServer, Accepted, Types, Mine
    <3>7. CASE make_socket_non_blocking
      BY <2>2, <3>7 DEF make_socket_non_blocking, Types, Mine
    <3>8. CASE OtherClose
      BY <2>2, <3>8 DEF OtherClose, Become, Types
    <3>9. QED
      BY <1>2, <3>2, <3>3, <3>4, <3>5, <3>6, <3>7, <3>8 DEF Next, Step
  <2>4. others' \subseteq Fd
    <3>1. CASE OtherOpen
      BY <2>2, <3>1, LowestFree DEF OtherOpen, Types
    <3>2. CASE OtherClose
      BY <2>2, <3>2 DEF OtherClose, Types
    <3>3. CASE ~OtherOpen /\ ~OtherClose
      <4>1. others' = others
        BY <1>2, <3>3 DEF Next, Step, Resolve, OpenSerial, Accept, Destroy, Socket, NoneLeft,
          Setsockopt, Bind, Listen, NonblockServer, Connect, NonblockClient, make_socket_non_blocking,
          Tcgetattr, Tcsetattr
      <4>2. QED
        BY <2>2, <4>1 DEF Types
    <3>4. QED
      BY <3>1, <3>2, <3>3
  <2>5. m_socket' \in 0..MaxFd
    <3>1. m_socket' \in {m_socket, call.client, call.skt, 0} \/ (Free # {} /\ m_socket' = Min(Free))
      BY <1>2 DEF Next, Step, Resolve, OpenSerial, Accept, Destroy, Socket, NoneLeft,
        Setsockopt, Bind, Listen, NonblockServer, Connect, NonblockClient, make_socket_non_blocking,
        Tcgetattr, Tcsetattr, OtherOpen, OtherClose, forget
    <3>2. call.client \in 0..MaxFd /\ call.skt \in 0..MaxFd /\ m_socket \in 0..MaxFd /\ 0 \in 0..MaxFd
      BY <2>2, MaxFdFact DEF Types, CallValue
    <3>3. QED
      BY <3>1, <3>2, LowestFree, MaxFdFact
  <2>6. QED
    BY <2>1, <2>2, <2>3, <2>4, <2>5 DEF TypeInv, Types
<1>3. QED
  BY <1>1, <1>2

\* Types, and which call is at which step.
LEMMA TypeInvariant == Spec => []TypeInv
<1>1. Init => TypeInv
  <2> SUFFICES ASSUME Init PROVE TypeInv
    OBVIOUS
  <2>1. call \in CallValue /\ m_socket \in 0..MaxFd
    <3>1. 0 \in 0..MaxFd /\ 1 \in 0..MaxFd
      BY SocketBoundsAssumption
    <3>2. QED
      BY <3>1 DEF Init, Idle, CallValue
  <2>2. Steps
    BY DEF Init, Steps, Idle, At
  <2>3. QED
    BY <2>1, <2>2 DEF Init, TypeInv, Types, Mine
<1>2. QED
  BY <1>1, TypeStep, PTL DEF Spec
-----------------------------------------------------------------------------
(***************************************************************************)
(* The address lists.                                                      *)
(***************************************************************************)
\* After an address that failed comes the next one, or the end.
LEMMA NextAddressAt ==
  ASSUME Types
  PROVE  \A skt \in {0, call.skt} :
           NextAddress(skt) => call'.at \in {"socket", "none"} /\ call'.op = call.op /\ call'.skt = skt
<1>1. {0, call.skt} \subseteq 0..MaxFd
  BY MaxFdFact DEF Types, CallValue
<1>2. QED
  BY <1>1, CallType

\* getaddrinfo allocates, and the places Listed names free.
LEMMA ListsStep ==
  ASSUME TypeInv, Lists, [Next]_vars
  PROVE  Lists'
<1>15. \A skt \in {0, call.skt} : NextAddress(skt) => call'.at \in {"socket", "none"}
  BY NextAddressAt DEF TypeInv
<1> USE DEF outside, At
<1>1. CASE UNCHANGED vars
  BY <1>1 DEF vars, Lists, Listed, KeepsList
<1>2. ASSUME Next PROVE bus' = bus /\ bus \in {"cpp", "py", "serial"} /\ call \in CallValue
  BY <1>2, TypeCall DEF TypeInv, Types
<1>3. CASE Resolve
  <2>1. before'.lists = lists /\ At("idle") /\ bus # "serial" /\ lists \in Nat
    BY <1>3 DEF Resolve, Begin, Lists
  <2>2. CASE UNCHANGED <<call, lists>>
    BY <2>1, <2>2 DEF Lists, Listed
  <2>3. CASE lists' = IF bus = "py" THEN lists ELSE lists + 1
    <3>1. CASE call'.at = "socket"
      BY <1>2, <1>3, <2>1, <2>3, <3>1 DEF Lists, Listed, Next
    <3>2. CASE call'.at # "socket"
      BY <1>3, <2>1, <2>2, <3>2 DEF Resolve
    <3>3. QED
      BY <3>1, <3>2
  <2>4. QED
    BY <1>3, <2>2, <2>3 DEF Resolve
<1>4. CASE OpenSerial
  <2>1. before'.lists = lists /\ At("idle") /\ bus = "serial" /\ lists \in Nat /\ lists' = lists /\ bus' = bus
    BY <1>4 DEF OpenSerial, Begin, Lists
  <2>2. QED
    BY <2>1 DEF Lists, Listed
<1>5. CASE Socket
  <2>1. call.op \in {"server", "connect"} /\ call.at = "socket"
    BY <1>5 DEF Socket, TypeInv, Steps
  <2>2. /\ lists' = lists /\ before' = before /\ bus' = bus
        /\ lists \in Nat /\ before.lists \in Nat
        /\ (bus = "cpp" => lists = before.lists + 1) /\ (bus # "cpp" => lists = before.lists)
    BY <1>5, <2>1 DEF Socket, Lists, Listed
  <2>3. \/ call'.at \in {"socket", "none", "setsockopt", "connect"}
        \/ bus = "py"
    <3>1. CASE NextAddress(0)
      BY <1>15, <3>1
    <3>2. CASE call' = [call EXCEPT !.at = IF call.op = "server" THEN "setsockopt" ELSE "connect",
                                    !.skt = Min(Free)]
      BY <1>2, <1>5, <3>2 DEF TypeInv, Types, CallValue
    <3>3. QED
      BY <1>5, <3>1, <3>2 DEF Socket
  <2>4. QED
    BY <2>2, <2>3 DEF Lists, Listed
<1>6. CASE NoneLeft
  BY <1>6 DEF NoneLeft, Lists, Listed, Return, Idle
<1>7. CASE Setsockopt
  BY <1>7 DEF Setsockopt, Lists, Listed, Fail, Return, Idle, Goto, TypeInv, Types, Steps, CallValue, KeepsList
<1>8. CASE Bind
  <2>1. call.op = "server" /\ bus = "cpp" /\ call.at = "bind" /\ call \in CallValue
    BY <1>8 DEF Bind, TypeInv, Types, Steps
  <2>2. /\ before' = before /\ bus' = bus /\ lists \in Nat /\ before.lists \in Nat
        /\ lists = before.lists + 1
    BY <1>8, <2>1 DEF Bind, Lists, Listed
  <2>3. CASE Goto("listen") /\ lists' = lists - 1
    <3>1. call'.at = "listen"
      BY <2>1, <2>3 DEF Goto, CallValue
    <3>2. QED
      BY <2>2, <2>3, <3>1 DEF Lists, Listed
  <2>4. CASE NextAddress(call.skt) /\ lists' = lists
    <3>1. call'.at \in {"socket", "none"}
      BY <1>15, <2>4
    <3>2. QED
      BY <2>1, <2>2, <2>4, <3>1 DEF Lists, Listed
  <2>5. QED
    BY <1>8, <2>3, <2>4 DEF Bind
<1>9. CASE Listen \/ Accept
  <2>1. /\ call.op = "server" /\ call.at \in {"listen", "accept"} /\ call \in CallValue
        /\ before' = before /\ bus' = bus /\ lists' = lists
    BY <1>9 DEF Listen, Accept, TypeInv, Types, Steps
  <2>2. lists = before.lists /\ lists \in Nat
    BY <2>1 DEF Lists, Listed
  <2>3. call'.at \in {"accept", "idle"} \/ (call'.at = "nonblock" /\ call'.op = "server")
    <3>1. CASE call' = Idle
      BY <3>1 DEF Idle
    <3>2. CASE Goto("accept") \/ call' = [call EXCEPT !.at = "nonblock", !.client = Min(Free)]
      BY <2>1, <3>2 DEF Goto, CallValue
    <3>3. QED
      BY <1>9, <3>1, <3>2 DEF Listen, Accept, Fail, Return
  <2>4. QED
    BY <2>1, <2>2, <2>3 DEF Lists, Listed
<1>10. CASE NonblockServer
  <2>1. /\ call.op = "server" /\ call.at = "nonblock" /\ call'.at = "idle"
        /\ before' = before /\ bus' = bus /\ lists' = lists
    BY <1>10 DEF NonblockServer, Return, Idle
  <2>2. QED
    BY <2>1 DEF Lists, Listed
<1>11. CASE Connect
  <2>1. /\ call.op = "connect" /\ call.at = "connect" /\ call \in CallValue
        /\ before' = before /\ bus' = bus /\ lists' = lists
    BY <1>11 DEF Connect, TypeInv, Types, Steps
  <2>2. /\ lists \in Nat /\ before.lists \in Nat
        /\ (bus = "cpp" => lists = before.lists + 1) /\ (bus # "cpp" => lists = before.lists)
    BY <2>1 DEF Lists, Listed
  <2>3. \/ call'.at \in {"socket", "none"}
        \/ call'.at = "nonblock" /\ call'.op = "connect"
        \/ bus = "py"
    <3>1. NextAddress(call.skt) => call'.at \in {"socket", "none"}
      BY <1>15
    <3>2. QED
      BY <1>11, <2>1, <3>1 DEF Connect, Goto, CallValue
  <2>4. QED
    BY <2>1, <2>2, <2>3 DEF Lists, Listed
<1>12. CASE NonblockClient
  <2>1. /\ call.op = "connect" /\ call.at = "nonblock" /\ bus = "cpp"
        /\ call'.at = "idle" /\ before' = before /\ bus' = bus
        /\ \/ lists' = lists - 1
           \/ lists' = lists /\ rc' = "OS" /\ ended' = <<"connect", "nonblock">>
    BY <1>12 DEF NonblockClient, Fail, Return, Idle
  <2>2. lists = before.lists + 1 /\ lists \in Nat /\ before.lists \in Nat
    BY <2>1 DEF Lists, Listed
  <2>3. QED
    BY <2>1, <2>2 DEF Lists, Listed, KeepsList
<1>13. CASE make_socket_non_blocking \/ Tcgetattr \/ Tcsetattr
  <2>1. bus # "cpp" /\ call.at # "idle" /\ before' = before /\ bus' = bus /\ lists' = lists
    BY <1>13 DEF make_socket_non_blocking, Tcgetattr, Tcsetattr, TypeInv, Steps
  <2>2. QED
    BY <2>1 DEF Lists, Listed
<1>14. CASE Destroy \/ OtherOpen \/ OtherClose
  BY <1>14 DEF Destroy, OtherOpen, OtherClose, Lists, Listed, KeepsList, unreturned
<1>16. QED
  BY <1>1, <1>3, <1>4, <1>5, <1>6, <1>7, <1>8, <1>9, <1>10, <1>11, <1>12, <1>13, <1>14 DEF Next, Step
\* Every address list is freed, or kept at one of the places KeepsList names.
LEMMA ListsInvariant == Spec => []Lists
<1>1. Init => Lists
  BY DEF Init, Lists, Listed, Idle, At
<1>2. QED
  BY <1>1, TypeInvariant, ListsStep, PTL DEF Spec
-----------------------------------------------------------------------------
(***************************************************************************)
(* The descriptors at hand.                                                *)
(***************************************************************************)

\* What close and the other system calls do to the table.
LEMMA CloseFacts ==
  ASSUME Types, NEW skt \in 0..MaxFd, close(skt)
  PROVE  \A fd \in Fd : fds'[fd] = IF fd = skt THEN "free" ELSE fds[fd]
<1>1. fds \in [Fd -> Mine \cup {"free", "other"}] /\ ~(0 \in Fd)
  BY MaxFdFact DEF Types
<1>2. QED
  BY <1>1 DEF close

\* Any other system call gives one descriptor a kind.
LEMMA BecomeFacts ==
  ASSUME Types, NEW skt \in Fd, NEW kind, Become(skt, kind)
  PROVE  \A fd \in Fd : fds'[fd] = IF fd = skt THEN kind ELSE fds[fd]
BY DEF Types, Become

\* What a call remembers from one step to the next.
LEMMA GotoFacts ==
  ASSUME Types, NEW step, Goto(step)
  PROVE  call'.at = step /\ call'.op = call.op /\ call'.skt = call.skt /\ call'.client = call.client
BY DEF Types, CallValue, Goto

\* Where descriptors are numbered from 1, the bus, the call and the other threads name some.
LEMMA Numbers ==
  ASSUME Types
  PROVE  /\ {m_socket, call.skt, call.client} \subseteq 0..MaxFd
         /\ \A fd \in 0..MaxFd : fd # 0 <=> fd \in Fd
         /\ others \subseteq Fd /\ ~(0 \in Fd)
BY MaxFdFact DEF Types, CallValue

\* Steps of setupServer.
LEMMA KeptServer ==
  ASSUME TypeInv, Kept, ~stray', Setsockopt \/ Bind \/ Listen \/ Accept \/ NonblockServer
  PROVE  Kept'
<1>1. Types /\ call.op = "server" /\ bus = "cpp"
  BY DEF TypeInv, Steps, At, Setsockopt, Bind, Listen, Accept, NonblockServer
<1>2. /\ {m_socket, call.skt, call.client} \subseteq 0..MaxFd
      /\ \A fd \in 0..MaxFd : fd # 0 <=> fd \in Fd
      /\ others \subseteq Fd /\ ~(0 \in Fd)
  BY <1>1, Numbers
<1>3. ASSUME close(call.skt), call.skt # 0 PROVE fds[call.skt] # "other"
  BY <1>3 DEF close
<1>4. close(call.skt) => \A fd \in Fd : fds'[fd] = IF fd = call.skt THEN "free" ELSE fds[fd]
  BY <1>1, <1>2, CloseFacts
<1>5. call' = Idle => call'.at = "idle"
  BY DEF Idle
<1>6. others' = others /\ (~NonblockServer => m_socket' = m_socket)
  BY DEF outside, Setsockopt, Bind, Listen, Accept, NonblockServer
<1>7. ~NonblockServer => (connected' => connected)
  BY DEF Setsockopt, Bind, Listen, Accept
<1>8. CASE Setsockopt
  <2>1. CASE Fail(call.skt)
    <3>1. call'.at = "idle"
      BY <1>5, <2>1 DEF Fail, Return
    <3>2. QED
      BY <1>1, <1>2, <1>4, <1>6, <1>7, <1>8, <2>1, <3>1 DEF Kept, Holds, At, Fail, Setsockopt
  <2>2. CASE Goto("bind") /\ fds' = fds
    BY <1>1, <1>6, <1>7, <1>8, <2>2, GotoFacts DEF Kept, Holds, At, Setsockopt
  <2>3. QED
    BY <1>8, <2>1, <2>2 DEF Setsockopt
<1>9. CASE Bind
  <2>1. CASE Goto("listen") /\ fds' = fds
    BY <1>1, <1>6, <1>7, <1>9, <2>1, GotoFacts DEF Kept, Holds, At, Bind
  <2>2. CASE close(call.skt) /\ NextAddress(call.skt)
    <3>1. call'.at \in {"socket", "none"} /\ call'.skt = call.skt
      BY <1>1, <2>2, NextAddressAt
    <3>2. QED
      BY <1>1, <1>2, <1>4, <1>6, <1>7, <1>9, <2>2, <3>1 DEF Kept, Holds, At, Bind
  <2>3. QED
    BY <1>9, <2>1, <2>2 DEF Bind
<1>10. CASE Listen
  <2>1. CASE Fail(call.skt)
    <3>1. call'.at = "idle"
      BY <1>5, <2>1 DEF Fail, Return
    <3>2. QED
      BY <1>1, <1>2, <1>4, <1>6, <1>7, <1>10, <2>1, <3>1 DEF Kept, Holds, At, Fail, Listen
  <2>2. CASE Become(call.skt, "listening") /\ Goto("accept")
    <3>1. call.skt \in Fd
      BY <1>2, <1>10 DEF Kept, Holds, Listen, At
    <3>2. \A fd \in Fd : fds'[fd] = IF fd = call.skt THEN "listening" ELSE fds[fd]
      BY <1>1, <2>2, <3>1, BecomeFacts
    <3>3. call'.at = "accept" /\ call'.skt = call.skt
      BY <1>1, <2>2, GotoFacts
    <3>4. QED
      BY <1>1, <1>2, <1>6, <1>7, <1>10, <3>1, <3>2, <3>3 DEF Kept, Holds, At, Listen
  <2>3. QED
    BY <1>10, <2>1, <2>2 DEF Listen
<1>11. CASE Accept
  <2>1. CASE Fail(call.skt)
    <3>1. call'.at = "idle"
      BY <1>5, <2>1 DEF Fail, Return
    <3>2. QED
      BY <1>1, <1>2, <1>4, <1>6, <1>7, <1>11, <2>1, <3>1 DEF Kept, Holds, At, Fail, Accept
  <2>2. CASE /\ Free # {}
             /\ Become(Min(Free), "blocking")
             /\ call' = [call EXCEPT !.at = "nonblock", !.client = Min(Free)]
    <3>1. PICK fd \in Fd : fd = Min(Free) /\ fds[fd] = "free"
      BY <2>2, LowestFree
    <3>2. \A d \in Fd : fds'[d] = IF d = fd THEN "blocking" ELSE fds[d]
      BY <1>1, <2>2, <3>1, BecomeFacts
    <3>3. call'.at = "nonblock" /\ call'.skt = call.skt /\ call'.client = fd /\ call'.op = "server"
      BY <1>1, <2>2, <3>1 DEF Types, CallValue
    <3>4. QED
      BY <1>1, <1>2, <1>6, <1>7, <1>11, <3>1, <3>2, <3>3 DEF Kept, Holds, At, Accept, Mine
  <2>3. QED
    BY <1>11, <2>1, <2>2 DEF Accept
<1>12. CASE NonblockServer
  <2>1. call'.at = "idle"
    BY <1>5, <1>12 DEF NonblockServer, Return
  <2>2. CASE fds' = fds /\ m_socket' = m_socket /\ connected' = connected
    BY <1>1, <1>2, <1>6, <2>1, <2>2 DEF Kept, Holds, At
  <2>3. CASE fds' = Accepted(call.client, call.skt) /\ m_socket' = call.client
    <3>1. /\ call.skt \in Fd /\ fds[call.skt] = "listening"
          /\ call.client \in Fd /\ fds[call.client] = "blocking"
      BY <1>2, <1>12 DEF Kept, Holds, NonblockServer, At
    <3>2. \A fd \in Fd : fds'[fd] = IF fd = call.skt THEN "free"
                                    ELSE IF fd = call.client THEN "nonblocking" ELSE fds[fd]
      BY <1>1, <2>3, <3>1 DEF Accepted, Types
    <3>3. QED
      BY <1>1, <1>2, <1>6, <2>1, <2>3, <3>1, <3>2 DEF Kept, Holds, At, Mine
  <2>4. QED
    BY <1>12, <2>2, <2>3 DEF NonblockServer
<1>13. QED
  BY <1>8, <1>9, <1>10, <1>11, <1>12

\* Steps of connectToServer and connect_to_server.
LEMMA KeptClient ==
  ASSUME TypeInv, Kept, ~stray', Connect \/ NonblockClient \/ make_socket_non_blocking
  PROVE  Kept'
<1>1. Types /\ call.op = "connect"
  BY DEF TypeInv, Types, Steps, At, Connect, NonblockClient, make_socket_non_blocking
<1>2. /\ {m_socket, call.skt, call.client} \subseteq 0..MaxFd
      /\ \A fd \in 0..MaxFd : fd # 0 <=> fd \in Fd
      /\ others \subseteq Fd /\ ~(0 \in Fd)
  BY <1>1, Numbers
<1>3. /\ call.skt \in Fd /\ call.skt # m_socket /\ call.at \in {"connect", "nonblock"}
      /\ fds[call.skt] \in {"raw", "blocking"}
  BY <1>1, <1>2 DEF Kept, Holds, At, Connect, NonblockClient, make_socket_non_blocking, TypeInv, Steps
<1>4. close(call.skt) => \A fd \in Fd : fds'[fd] = IF fd = call.skt THEN "free" ELSE fds[fd]
  BY <1>1, <1>2, CloseFacts
<1>5. ASSUME NEW kind, Become(call.skt, kind)
      PROVE  \A fd \in Fd : fds'[fd] = IF fd = call.skt THEN kind ELSE fds[fd]
  BY <1>1, <1>3, <1>5, BecomeFacts
<1>6. call' = Idle => call'.at = "idle"
  BY DEF Idle
<1>7. others' = others
  BY DEF outside, Connect, NonblockClient, make_socket_non_blocking
<1>8. CASE Connect
  <2>1. m_socket' = m_socket /\ (connected' => connected)
    BY <1>8 DEF Connect
  <2>2. CASE Become(call.skt, "blocking") /\ Goto("nonblock")
    <3>1. call'.at = "nonblock" /\ call'.skt = call.skt /\ call'.op = "connect"
      BY <1>1, <2>2, GotoFacts
    <3>2. QED
      BY <1>1, <1>2, <1>3, <1>5, <1>7, <2>1, <2>2, <3>1 DEF Kept, Holds, At
  <2>3. CASE close(call.skt) /\ call'.at \in {"idle", "socket", "none"} /\ call'.skt \in {0, call.skt}
    BY <1>1, <1>2, <1>3, <1>4, <1>7, <2>1, <2>3 DEF Kept, Holds, At
  <2>4. CASE close(call.skt) /\ NextAddress(call.skt)
    BY <1>1, <2>3, <2>4, NextAddressAt
  <2>5. CASE close(call.skt) /\ Return("RAISED")
    BY <2>3, <2>5 DEF Return, Idle
  <2>6. QED
    BY <1>8, <2>2, <2>4, <2>5 DEF Connect
<1>9. CASE NonblockClient
  <2>1. call'.at = "idle"
    BY <1>6, <1>9 DEF NonblockClient, Fail, Return
  <2>2. CASE makeSocketNonBlocking(call.skt) /\ m_socket' = call.skt
    <3>1. \A fd \in Fd : fds'[fd] = IF fd = call.skt THEN "nonblocking" ELSE fds[fd]
      BY <1>5, <2>2 DEF makeSocketNonBlocking
    <3>2. QED
      BY <1>1, <1>2, <1>3, <1>7, <2>1, <2>2, <3>1 DEF Kept, Holds, At, Mine
  <2>3. CASE close(call.skt) /\ m_socket' = m_socket /\ connected' = connected
    BY <1>1, <1>2, <1>3, <1>4, <1>7, <2>1, <2>3 DEF Kept, Holds, At
  <2>4. QED
    BY <1>9, <2>2, <2>3 DEF NonblockClient, Fail
<1>10. CASE make_socket_non_blocking
  <2>1. call'.at = "idle" /\ m_socket' = call.skt
    BY <1>6, <1>10 DEF make_socket_non_blocking, Return
  <2>2. \A fd \in Fd : fds'[fd] = IF fd = call.skt THEN "nonblocking"
                                  ELSE IF fd = m_socket THEN "free" ELSE fds[fd]
    BY <1>10 DEF make_socket_non_blocking
  <2>3. QED
    BY <1>1, <1>2, <1>3, <1>7, <2>1, <2>2 DEF Kept, Holds, At, Mine
<1>11. QED
  BY <1>8, <1>9, <1>10

\* Steps of open.
LEMMA KeptPort ==
  ASSUME TypeInv, Kept, ~stray', OpenSerial \/ Tcgetattr \/ Tcsetattr
  PROVE  Kept'
<1>1. Types /\ others' = others
  BY DEF TypeInv, OpenSerial, Tcgetattr, Tcsetattr, outside
<1>2. /\ {m_socket, call.skt, call.client} \subseteq 0..MaxFd
      /\ \A fd \in 0..MaxFd : fd # 0 <=> fd \in Fd
      /\ others \subseteq Fd /\ ~(0 \in Fd)
  BY <1>1, Numbers
<1>3. call' = Idle => call'.at = "idle"
  BY DEF Idle
<1>4. CASE OpenSerial
  <2>1. CASE m_socket' = 0 /\ fds' = fds /\ call' = call
    <3>1. ~connected'
      BY <1>4 DEF OpenSerial
    <3>2. call'.at = "idle"
      BY <1>4, <2>1 DEF OpenSerial, At
    <3>3. QED
      BY <1>1, <1>2, <2>1, <3>1, <3>2 DEF Kept, Holds, At
  <2>2. CASE /\ Free # {} /\ m_socket' = Min(Free) /\ Become(Min(Free), "port")
             /\ call' = [Idle EXCEPT !.op = "open", !.at = "tcgetattr"]
    <3>1. PICK fd \in Fd : fd = Min(Free) /\ fds[fd] = "free"
      BY <2>2, LowestFree
    <3>2. \A d \in Fd : fds'[d] = IF d = fd THEN "port" ELSE fds[d]
      BY <1>1, <2>2, <3>1, BecomeFacts
    <3>3. call'.at = "tcgetattr" /\ m_socket' = fd
      BY <2>2, <3>1 DEF Idle
    <3>4. ~connected'
      BY <1>4 DEF OpenSerial
    <3>5. QED
      BY <1>1, <1>2, <3>1, <3>2, <3>3, <3>4 DEF Kept, Holds, At, Mine
  <2>3. QED
    BY <1>4, <2>1, <2>2 DEF OpenSerial
<1>5. CASE Tcgetattr
  <2>1. fds' = fds /\ m_socket' = m_socket /\ (connected' => connected) /\ call.at = "tcgetattr"
    BY <1>5 DEF Tcgetattr, At
  <2>2. call'.at \in {"idle", "tcsetattr"}
    BY <1>1, <1>3, <1>5, GotoFacts DEF Tcgetattr, Return
  <2>3. QED
    BY <1>1, <1>2, <2>1, <2>2 DEF Kept, Holds, At
<1>6. CASE Tcsetattr
  <2>1. call'.at = "idle" /\ m_socket' = m_socket
    BY <1>3, <1>6 DEF Tcsetattr, Return
  <2>2. m_socket \in Fd /\ fds[m_socket] = "port"
    BY <1>2, <1>6 DEF Tcsetattr, At, Kept
  <2>3. CASE Become(m_socket, "configured")
    <3>1. \A fd \in Fd : fds'[fd] = IF fd = m_socket THEN "configured" ELSE fds[fd]
      BY <1>1, <2>2, <2>3, BecomeFacts
    <3>2. QED
      BY <1>1, <1>2, <2>1, <2>2, <3>1 DEF Kept, Holds, At, Mine
  <2>4. CASE fds' = fds /\ connected' = connected
    BY <1>1, <1>2, <2>1, <2>4 DEF Kept, Holds, At
  <2>5. QED
    BY <1>6, <2>3, <2>4 DEF Tcsetattr
<1>7. QED
  BY <1>4, <1>5, <1>6

\* The steps that both directions share, and those between calls.
LEMMA KeptElse ==
  ASSUME TypeInv, Kept, ~stray',
         Resolve \/ Socket \/ NoneLeft \/ Destroy \/ OtherOpen \/ OtherClose
  PROVE  Kept'
<1>1. Types
  BY DEF TypeInv
<1>2. /\ {m_socket, call.skt, call.client} \subseteq 0..MaxFd
      /\ \A fd \in 0..MaxFd : fd # 0 <=> fd \in Fd
      /\ others \subseteq Fd /\ ~(0 \in Fd)
  BY <1>1, Numbers
<1>3. call' = Idle => call'.at = "idle"
  BY DEF Idle
<1>4. ~Destroy => (connected' => connected)
  BY DEF Resolve, Socket, NoneLeft, OtherOpen, OtherClose
<1>5. CASE Resolve
  <2>1. fds' = fds /\ m_socket' = m_socket /\ others' = others /\ call.at = "idle"
    BY <1>5 DEF Resolve, At
  <2>2. call'.at \in {"idle", "socket"}
    BY <1>5, <2>1 DEF Resolve
  <2>3. connected' => connected
    BY <1>5 DEF Resolve
  <2>4. QED
    BY <1>1, <1>2, <2>1, <2>2, <2>3 DEF Kept, Holds, At
<1>6. CASE Socket
  <2>1. m_socket' = m_socket /\ others' = others /\ call.at = "socket"
    BY <1>6 DEF Socket, outside, At
  <2>2. connected' => connected
    BY <1>6 DEF Socket
  <2>3. CASE fds' = fds /\ call'.at \in {"socket", "none", "idle"} /\ call'.skt = 0
    BY <1>1, <1>2, <2>1, <2>2, <2>3 DEF Kept, Holds, At
  <2>4. CASE NextAddress(0) /\ fds' = fds
    BY <1>1, <2>3, <2>4, NextAddressAt
  <2>5. CASE call' = Idle /\ fds' = fds
    BY <2>3, <2>5 DEF Idle
  <2>6. CASE /\ Free # {} /\ Become(Min(Free), "raw")
             /\ call' = [call EXCEPT !.at = IF call.op = "server" THEN "setsockopt" ELSE "connect",
                                     !.skt = Min(Free)]
    <3>1. PICK fd \in Fd : fd = Min(Free) /\ fds[fd] = "free"
      BY <2>6, LowestFree
    <3>2. \A d \in Fd : fds'[d] = IF d = fd THEN "raw" ELSE fds[d]
      BY <1>1, <2>6, <3>1, BecomeFacts
    <3>3. call'.at \in {"setsockopt", "connect"} /\ call'.skt = fd
      BY <1>1, <2>6, <3>1 DEF Types, CallValue
    <3>4. QED
      BY <1>1, <1>2, <2>1, <2>2, <3>1, <3>2, <3>3 DEF Kept, Holds, At, Mine
  <2>7. QED
    BY <1>6, <2>4, <2>5, <2>6 DEF Socket, Return
<1>7. CASE NoneLeft
  <2>1. m_socket' = m_socket /\ others' = others /\ call.at = "none" /\ call'.at = "idle"
    BY <1>3, <1>7 DEF NoneLeft, outside, At, Return
  <2>2. connected' => connected
    BY <1>7 DEF NoneLeft
  <2>3. \A fd \in Fd : fds'[fd] = fds[fd]
    <3>1. CASE close(call.skt)
      <4>1. call.skt # 0 => fds[call.skt] = "free"
        <5>1. call.skt # 0 => fds[call.skt] # "other"
          BY <3>1 DEF close
        <5>2. QED
          BY <2>1, <5>1 DEF Kept, At
      <4>2. \A fd \in Fd : fds'[fd] = IF fd = call.skt THEN "free" ELSE fds[fd]
        BY <1>1, <1>2, <3>1, CloseFacts
      <4>3. QED
        BY <1>2, <4>1, <4>2
    <3>2. QED
      BY <1>7, <3>1 DEF NoneLeft
  <2>4. QED
    BY <1>1, <1>2, <2>1, <2>2, <2>3 DEF Kept, Holds, At
<1>8. CASE Destroy
  <2>1. m_socket' = 0 /\ others' = others /\ call.at = "idle" /\ call'.at = "idle"
    BY <1>8 DEF Destroy, outside, At, forget
  <2>2. ~connected'
    BY <1>8 DEF Destroy
  <2>3. \A fd \in Fd : fds'[fd] = IF fd = m_socket THEN "free" ELSE fds[fd]
    BY <1>1, <1>2, <1>8, CloseFacts DEF Destroy
  <2>4. QED
    BY <1>1, <1>2, <2>1, <2>2, <2>3 DEF Kept, Holds, At, Mine
<1>9. CASE OtherOpen
  <2>1. PICK fd \in Fd : fd = Min(Free) /\ fds[fd] = "free"
    BY <1>9, LowestFree DEF OtherOpen
  <2>2. \A d \in Fd : fds'[d] = IF d = fd THEN "other" ELSE fds[d]
    BY <1>1, <1>9, <2>1, BecomeFacts DEF OtherOpen
  <2>3. m_socket' = m_socket /\ call' = call /\ others' = others \cup {fd}
    BY <1>9, <2>1 DEF OtherOpen
  <2>4. connected' => connected
    BY <1>9 DEF OtherOpen
  <2>5. QED
    BY <1>1, <1>2, <2>1, <2>2, <2>3, <2>4 DEF Kept, Holds, At, Mine
<1>10. CASE OtherClose
  <2>1. PICK fd \in others : Become(fd, "free") /\ others' = others \ {fd}
    BY <1>10 DEF OtherClose
  <2>2. \A d \in Fd : fds'[d] = IF d = fd THEN "free" ELSE fds[d]
    BY <1>1, <1>2, <2>1, BecomeFacts
  <2>3. m_socket' = m_socket /\ call' = call
    BY <1>10 DEF OtherClose
  <2>4. connected' => connected
    BY <1>10 DEF OtherClose
  <2>5. fds[fd] = "other" /\ fd \in Fd
    BY <1>2, <2>1 DEF Kept
  <2>6. QED
    BY <1>1, <1>2, <2>1, <2>2, <2>3, <2>4, <2>5 DEF Kept, Holds, At, Mine
<1>11. QED
  BY <1>5, <1>6, <1>7, <1>8, <1>9, <1>10

\* The bus closes a descriptor of another thread only at the end of a list of addresses.
LEMMA StrayStep ==
  ASSUME TypeInv, Kept, ~stray, Next, stray'
  PROVE  bus = "cpp" /\ At("none")
<1>1. /\ {m_socket, call.skt, call.client} \subseteq 0..MaxFd
      /\ \A fd \in 0..MaxFd : fd # 0 <=> fd \in Fd
  BY Numbers DEF TypeInv
<1>2. PICK skt \in {m_socket, call.skt} :
        /\ close(skt)
        /\ \/ NoneLeft /\ bus = "cpp"
           \/ Destroy /\ skt = m_socket
           \/ (Setsockopt \/ Bind \/ Listen \/ Accept \/ Connect \/ NonblockClient) /\ skt = call.skt
  BY DEF Next, Step, Resolve, OpenSerial, Accept, Destroy, OtherOpen, OtherClose, Socket, NoneLeft,
    Setsockopt, Bind, Listen, NonblockServer, Connect, NonblockClient, make_socket_non_blocking,
    Tcgetattr, Tcsetattr, Fail, Become, makeSocketNonBlocking
<1>3. skt # 0 /\ fds[skt] = "other"
  BY <1>2 DEF close
<1>4. fds[m_socket] = "other" => m_socket = 0
  BY <1>1 DEF Kept, Mine
<1>5. CASE NoneLeft /\ bus = "cpp"
  BY <1>5 DEF NoneLeft
<1>6. CASE Destroy /\ skt = m_socket
  BY <1>3, <1>4, <1>6
<1>7. CASE (Setsockopt \/ Bind \/ Listen \/ Accept \/ Connect \/ NonblockClient) /\ skt = call.skt
  <2>1. fds[call.skt] \in {"raw", "listening", "blocking"}
    BY <1>7 DEF Setsockopt, Bind, Listen, Accept, Connect, NonblockClient, Kept, Holds, At
  <2>2. QED
    BY <1>3, <1>7, <2>1
<1>8. QED
  BY <1>2, <1>5, <1>6, <1>7

\* What the bus has done to others stays done.
LEMMA StrayStays ==
  ASSUME Next, stray
  PROVE  stray'
BY DEF Next, Step, Resolve, OpenSerial, Accept, Destroy, OtherOpen, OtherClose, Socket, NoneLeft,
  Setsockopt, Bind, Listen, NonblockServer, Connect, NonblockClient, make_socket_non_blocking,
  Tcgetattr, Tcsetattr, Fail, Become, makeSocketNonBlocking, close

\* The inductive step: a bus that has not strayed keeps what it has at hand.
LEMMA DescriptorsStep ==
  ASSUME TypeInv, Descriptors, [Next]_vars
  PROVE  Descriptors'
<1>1. CASE UNCHANGED vars
  BY <1>1 DEF vars, Descriptors, Kept, Holds, At
<1>2. CASE Next
  <2>1. SUFFICES ASSUME ~stray' PROVE Kept'
    BY DEF Descriptors
  <2>2. Kept
    BY <1>2, <2>1, StrayStays DEF Descriptors
  <2>3. QED
    BY <1>2, <2>1, <2>2, KeptServer, KeptClient, KeptPort, KeptElse DEF Next, Step
<1>3. QED
  BY <1>1, <1>2

\* As long as the bus has not strayed, the descriptors at hand are what they should be.
LEMMA DescriptorsInvariant == Spec => []Descriptors
<1>1. Init => Descriptors
  <2> SUFFICES ASSUME Init PROVE Kept
    BY DEF Descriptors
  <2>1. 1 \in Fd /\ others = {} /\ call.at = "idle" /\ ~connected
    BY MaxFdFact, SocketBoundsAssumption DEF Init, Idle
  <2>2. m_socket # 0 => m_socket = 1 /\ fds[1] = "raw"
    BY <2>1 DEF Init
  <2>3. QED
    BY <2>1, <2>2 DEF Kept, At, Mine
<1>2. QED
  BY <1>1, TypeInvariant, DescriptorsStep, PTL DEF Spec

\* SocketUsable: what a call that returned NONE has given the bus stays as it was, whatever later
\* calls fail at and other threads do.
THEOREM Usable == Spec => []SocketUsable
<1>1. Descriptors => SocketUsable
  BY DEF Descriptors, Kept, SocketUsable
<1>2. QED
  BY <1>1, DescriptorsInvariant, PTL

\* StrayOnlyIfNoneLeft: the second close of the last address's socket is the only place where the
\* bus can take a descriptor from another thread.
THEOREM StrayAtTheEnd == Spec => StrayOnlyIfNoneLeft
<1>1. TypeInv /\ Descriptors /\ [Next]_vars => [stray' /\ ~stray => bus = "cpp" /\ At("none")]_vars
  BY StrayStep DEF Descriptors
<1>2. QED
  BY <1>1, TypeInvariant, DescriptorsInvariant, PTL DEF Spec, StrayOnlyIfNoneLeft
-----------------------------------------------------------------------------
(***************************************************************************)
(* What a call has taken, and what it leaves.                              *)
(***************************************************************************)

\* close takes a descriptor from the bus, and socket, accept and open give it one.
LEMMA OwnedFacts ==
  ASSUME Types
  PROVE  /\ fds' = fds => Owned' = Owned
         /\ \A fd \in 0..MaxFd : close(fd) => Owned' \subseteq Owned \ {fd}
         /\ \A fd \in Fd : \A kind : Become(fd, kind) => Owned' \subseteq Owned \cup {fd}
         /\ \A fd \in Fd, kind \in {"free", "other"} : Become(fd, kind) => Owned' \subseteq Owned
<1>1. fds' = fds => Owned' = Owned
  BY DEF Owned
<1>2. ASSUME NEW fd \in 0..MaxFd, close(fd) PROVE Owned' \subseteq Owned \ {fd}
  <2>1. \A d \in Fd : fds'[d] = IF d = fd THEN "free" ELSE fds[d]
    BY <1>2, CloseFacts
  <2>2. QED
    BY <2>1 DEF Owned
<1>3. ASSUME NEW fd \in Fd, NEW kind, Become(fd, kind)
      PROVE  /\ Owned' \subseteq Owned \cup {fd}
             /\ kind \in {"free", "other"} => Owned' \subseteq Owned
  <2>1. \A d \in Fd : fds'[d] = IF d = fd THEN kind ELSE fds[d]
    BY <1>3, BecomeFacts
  <2>2. QED
    BY <2>1 DEF Owned
<1>4. QED
  BY <1>1, <1>2, <1>3

\* What a call has taken, at each of its steps.
LEMMA NewFacts ==
  /\ call.at \in {"idle", "socket", "none"} => New = {}
  /\ call.at \in {"tcgetattr", "tcsetattr"} => New = {m_socket}
  /\ At("nonblock") /\ call.op = "server" => New = {call.skt, call.client}
  /\ call.at \in {"setsockopt", "bind", "listen", "accept", "connect"} => New = {call.skt}
  /\ At("nonblock") /\ call.op # "server" => New = {call.skt}
BY DEF New, At

\* The same after the step.
LEMMA NewFactsAfter ==
  /\ call'.at \in {"idle", "socket", "none"} => New' = {}
  /\ call'.at \in {"tcgetattr", "tcsetattr"} => New' = {m_socket'}
  /\ call'.at = "nonblock" /\ call'.op = "server" => New' = {call'.skt, call'.client}
  /\ call'.at \in {"setsockopt", "bind", "listen", "accept", "connect"} => New' = {call'.skt}
  /\ call'.at = "nonblock" /\ call'.op # "server" => New' = {call'.skt}
BY DEF New, At

\* A step of a call that goes on, and one that ends it.
LEMMA GoesOn ==
  ASSUME Accounted, ~At("idle"), ~At("idle")', before' = before, bus' = bus, m_socket' = m_socket,
         Owned' \cap New \subseteq New', Owned' \subseteq Owned \cup New'
  PROVE  Accounted'
BY DEF Accounted, At

\* A step that ends it.
LEMMA Ends ==
  ASSUME Accounted, call' = Idle, ~At("idle"), before' = before, bus' = bus,
         Owned' \subseteq before.fds \cup (IF rc' = "NONE" \/ bus = "serial" THEN {m_socket'} ELSE {})
           \/ KeepsSockets',
         bus = "py" => Owned' \subseteq {m_socket'}
  PROVE  Accounted'
<1>1. call'.at = "idle"
  BY DEF Idle
<1>2. QED
  BY <1>1 DEF Accounted, At

\* Steps of setupServer.
LEMMA AccountedServer ==
  ASSUME TypeInv, Accounted, Setsockopt \/ Bind \/ Listen \/ Accept \/ NonblockServer
  PROVE  Accounted'
<1>1. /\ Types /\ call.op = "server" /\ bus = "cpp" /\ bus' = bus /\ before' = before
      /\ ~At("idle")
  BY DEF TypeInv, Steps, At, Setsockopt, Bind, Listen, Accept, NonblockServer, outside
<1>2. {call.skt, call.client} \subseteq 0..MaxFd
  BY <1>1, Numbers
<1>3. Owned \subseteq before.fds \cup New
  BY <1>1 DEF Accounted
<1>4. CASE Fail(call.skt) /\ ~NonblockServer
  <2>1. New = {call.skt}
    BY <1>4, NewFacts DEF At, Setsockopt, Bind, Listen, Accept
  <2>2. Owned' \subseteq Owned \ {call.skt}
    BY <1>1, <1>2, <1>4, OwnedFacts DEF Fail
  <2>3. QED
    BY <1>1, <1>3, <1>4, <2>1, <2>2, Ends DEF Fail, Return
<1>5. CASE Bind /\ close(call.skt) /\ NextAddress(call.skt)
  <2>1. New = {call.skt}
    BY <1>5, NewFacts DEF At, Bind
  <2>2. Owned' \subseteq Owned \ {call.skt}
    BY <1>1, <1>2, <1>5, OwnedFacts
  <2>3. call'.at \in {"socket", "none"}
    BY <1>1, <1>5, NextAddressAt
  <2>4. New' = {}
    BY <2>3, NewFactsAfter
  <2>5. m_socket' = m_socket
    BY <1>5 DEF Bind
  <2>6. QED
    BY <1>1, <2>1, <2>2, <2>3, <2>4, <2>5, GoesOn DEF At
<1>6. CASE /\ Setsockopt \/ Bind \/ Listen
           /\ fds' = fds \/ Become(call.skt, "listening")
           /\ \E step \in {"bind", "listen", "accept"} : Goto(step)
  <2>1. New = {call.skt}
    BY <1>6, NewFacts DEF At, Setsockopt, Bind, Listen
  <2>2. PICK step \in {"bind", "listen", "accept"} : Goto(step)
    BY <1>6
  <2>3. call'.at = step /\ call'.skt = call.skt
    BY <1>1, <2>2, GotoFacts
  <2>4. New' = {call.skt}
    BY <2>3, NewFactsAfter
  <2>5. Owned' \subseteq Owned \cup {call.skt}
    <3>1. ASSUME Become(call.skt, "listening") PROVE Owned' \subseteq Owned \cup {call.skt}
      BY <3>1 DEF Owned, Become, Types
    <3>2. QED
      BY <1>1, <1>6, <3>1, OwnedFacts
  <2>6. m_socket' = m_socket
    BY <1>6 DEF Setsockopt, Bind, Listen
  <2>7. QED
    BY <1>1, <2>1, <2>3, <2>4, <2>5, <2>6, GoesOn DEF At
<1>7. CASE /\ Accept /\ Free # {}
           /\ Become(Min(Free), "blocking")
           /\ call' = [call EXCEPT !.at = "nonblock", !.client = Min(Free)]
  <2>1. New = {call.skt}
    BY <1>7, NewFacts DEF At, Accept
  <2>2. PICK fd \in Fd : fd = Min(Free)
    BY <1>7, LowestFree
  <2>3. call'.at = "nonblock" /\ call'.op = "server" /\ call'.skt = call.skt /\ call'.client = fd
    BY <1>1, <1>7, <2>2 DEF Types, CallValue
  <2>4. New' = {call.skt, fd}
    BY <2>3, NewFactsAfter
  <2>5. Owned' \subseteq Owned \cup {fd}
    BY <1>1, <1>7, <2>2, OwnedFacts
  <2>6. m_socket' = m_socket
    BY <1>7 DEF Accept
  <2>7. QED
    BY <1>1, <2>1, <2>3, <2>4, <2>5, <2>6, GoesOn DEF At
<1>8. CASE NonblockServer
  <2>1. New = {call.skt, call.client}
    BY <1>8, NewFacts DEF NonblockServer
  <2>2. CASE Return("OS")
    <3>1. KeepsSockets'
      BY <1>8, <2>2 DEF KeepsSockets, Return, NonblockServer, At
    <3>2. QED
      BY <1>1, <2>2, <3>1, Ends DEF Return
  <2>3. CASE fds' = Accepted(call.client, call.skt) /\ m_socket' = call.client /\ Return("NONE")
    <3>1. Owned' \subseteq (Owned \cup {call.client}) \ {call.skt}
      BY <1>1, <2>3 DEF Owned, Accepted, Types
    <3>2. QED
      BY <1>1, <1>3, <2>1, <2>3, <3>1, Ends DEF Return
  <2>4. QED
    BY <1>8, <2>2, <2>3 DEF NonblockServer
<1>9. QED
  BY <1>4, <1>5, <1>6, <1>7, <1>8 DEF Setsockopt, Bind, Listen, Accept, NonblockServer, At

\* Steps of connectToServer and connect_to_server.
LEMMA AccountedClient ==
  ASSUME TypeInv, Accounted, Connect \/ NonblockClient \/ make_socket_non_blocking
  PROVE  Accounted'
<1>1. /\ Types /\ call.op = "connect" /\ bus \in {"cpp", "py"} /\ bus' = bus /\ before' = before
      /\ ~At("idle") /\ call.at \in {"connect", "nonblock"}
  BY DEF TypeInv, Types, Steps, At, Connect, NonblockClient, make_socket_non_blocking, outside
<1>2. call.skt \in 0..MaxFd
  BY <1>1, Numbers
<1>3. New = {call.skt}
  BY <1>1, NewFacts DEF At
<1>4. /\ Owned \subseteq before.fds \cup {call.skt}
      /\ bus = "py" => Owned \subseteq {m_socket} \cup {call.skt}
  BY <1>1, <1>3 DEF Accounted
<1>5. close(call.skt) => Owned' \subseteq Owned \ {call.skt}
  BY <1>2, <1>1, OwnedFacts
<1>6. ASSUME NEW kind, Become(call.skt, kind) PROVE Owned' \subseteq Owned \cup {call.skt}
  BY <1>1, <1>6 DEF Owned, Become, Types
<1>7. CASE Connect
  <2>1. m_socket' = m_socket
    BY <1>7 DEF Connect
  <2>2. CASE Become(call.skt, "blocking") /\ Goto("nonblock")
    <3>1. call'.at = "nonblock" /\ call'.skt = call.skt /\ call'.op = "connect"
      BY <1>1, <2>2, GotoFacts
    <3>2. New' = {call.skt}
      BY <3>1, NewFactsAfter
    <3>3. QED
      BY <1>1, <1>3, <1>6, <2>1, <2>2, <3>1, <3>2, GoesOn DEF At
  <2>3. CASE close(call.skt) /\ NextAddress(call.skt)
    <3>1. call'.at \in {"socket", "none"}
      BY <1>1, <2>3, NextAddressAt
    <3>2. New' = {}
      BY <3>1, NewFactsAfter
    <3>3. QED
      BY <1>1, <1>3, <1>5, <2>1, <2>3, <3>1, <3>2, GoesOn DEF At
  <2>4. CASE close(call.skt) /\ Return("RAISED")
    BY <1>1, <1>4, <1>5, <2>1, <2>4, Ends DEF Return
  <2>5. QED
    BY <1>7, <2>2, <2>3, <2>4 DEF Connect
<1>8. CASE NonblockClient
  <2>1. bus = "cpp" /\ call' = Idle
    BY <1>8 DEF NonblockClient, Fail, Return
  <2>2. CASE makeSocketNonBlocking(call.skt) /\ m_socket' = call.skt /\ Return("NONE")
    <3>1. Owned' \subseteq Owned \cup {call.skt}
      BY <1>6, <2>2 DEF makeSocketNonBlocking
    <3>2. QED
      BY <1>1, <1>4, <2>1, <2>2, <3>1, Ends DEF Return
  <2>3. CASE Fail(call.skt) /\ m_socket' = m_socket
    BY <1>1, <1>4, <1>5, <2>1, <2>3, Ends DEF Fail, Return
  <2>4. QED
    BY <1>8, <2>2, <2>3 DEF NonblockClient
<1>9. CASE make_socket_non_blocking
  <2>1. bus = "py" /\ call' = Idle /\ m_socket' = call.skt /\ rc' = "NONE"
    BY <1>9 DEF make_socket_non_blocking, Return
  <2>2. \A fd \in Fd : fds'[fd] = IF fd = call.skt THEN "nonblocking"
                                  ELSE IF fd = m_socket THEN "free" ELSE fds[fd]
    BY <1>9 DEF make_socket_non_blocking
  <2>3. Owned' \subseteq {call.skt}
    BY <1>4, <2>1, <2>2 DEF Owned
  <2>4. QED
    BY <1>1, <2>1, <2>3, Ends
<1>10. QED
  BY <1>7, <1>8, <1>9

\* Steps of open.
LEMMA AccountedPort ==
  ASSUME TypeInv, Accounted, OpenSerial \/ Tcgetattr \/ Tcsetattr
  PROVE  Accounted'
<1>1. Types /\ bus' = bus /\ bus = "serial"
  BY DEF TypeInv, Steps, At, OpenSerial, Tcgetattr, Tcsetattr, outside
<1>2. CASE OpenSerial
  <2>1. before'.fds = Owned
    BY <1>2 DEF OpenSerial, Begin
  <2>2. CASE fds' = fds /\ call' = call
    <3>1. call'.at = "idle"
      BY <1>2, <2>2 DEF OpenSerial, At
    <3>2. Owned' = Owned
      BY <1>1, <2>2, OwnedFacts
    <3>3. QED
      BY <1>1, <2>1, <3>1, <3>2 DEF Accounted, At
  <2>3. CASE /\ Free # {} /\ m_socket' = Min(Free) /\ Become(Min(Free), "port")
             /\ call' = [Idle EXCEPT !.op = "open", !.at = "tcgetattr"]
    <3>1. PICK fd \in Fd : fd = Min(Free)
      BY <2>3, LowestFree
    <3>2. Owned' \subseteq Owned \cup {fd}
      BY <1>1, <2>3, <3>1, OwnedFacts
    <3>3. call'.at = "tcgetattr"
      BY <2>3 DEF Idle
    <3>4. New' = {fd}
      BY <2>3, <3>1, <3>3, NewFactsAfter
    <3>5. QED
      BY <1>1, <2>1, <3>2, <3>3, <3>4 DEF Accounted, At
  <2>4. QED
    BY <1>2, <2>2, <2>3 DEF OpenSerial
<1>3. CASE Tcgetattr \/ Tcsetattr
  <2>1. /\ New = {m_socket} /\ ~At("idle") /\ before' = before /\ m_socket' = m_socket
        /\ call.at \in {"tcgetattr", "tcsetattr"}
    BY <1>3, NewFacts DEF At, Tcgetattr, Tcsetattr, outside
  <2>2. Owned \subseteq before.fds \cup {m_socket}
    BY <2>1 DEF Accounted
  <2>3. Owned' \subseteq Owned \cup {m_socket}
    <3>1. CASE Become(m_socket, "configured")
      BY <1>1, <3>1 DEF Owned, Become, Types
    <3>2. CASE fds' = fds
      BY <1>1, <3>2, OwnedFacts
    <3>3. QED
      BY <1>3, <3>1, <3>2 DEF Tcgetattr, Tcsetattr
  <2>4. CASE Goto("tcsetattr")
    <3>1. call'.at = "tcsetattr"
      BY <1>1, <2>4, GotoFacts
    <3>2. New' = {m_socket}
      BY <2>1, <3>1, NewFactsAfter
    <3>3. QED
      BY <1>1, <2>1, <2>3, <3>1, <3>2, GoesOn DEF At
  <2>5. CASE call' = Idle
    BY <1>1, <2>1, <2>2, <2>3, <2>5, Ends
  <2>6. QED
    BY <1>3, <2>4, <2>5 DEF Tcgetattr, Tcsetattr, Return
<1>4. QED
  BY <1>2, <1>3

\* The steps that both directions share, and those between calls.
LEMMA AccountedElse ==
  ASSUME TypeInv, Accounted, Next,
         Resolve \/ Socket \/ NoneLeft \/ Destroy \/ OtherOpen \/ OtherClose
  PROVE  Accounted'
<1>1. Types /\ bus' = bus
  BY TypeCall DEF TypeInv
<1>2. /\ {m_socket, call.skt, call.client} \subseteq 0..MaxFd
      /\ others \subseteq Fd
  BY <1>1, Numbers
<1>3. CASE Resolve
  <2>1. before'.fds = Owned /\ m_socket' = m_socket /\ call.at = "idle"
    BY <1>3 DEF Resolve, Begin, At
  <2>2. Owned' = Owned
    BY <1>1, <1>3, OwnedFacts DEF Resolve
  <2>3. New = {} /\ (bus = "py" => Owned \subseteq {m_socket})
    BY <2>1, NewFacts DEF Accounted
  <2>4. call'.at \in {"idle", "socket"}
    BY <1>3, <2>1 DEF Resolve
  <2>5. New' = {}
    BY <2>4, NewFactsAfter
  <2>6. QED
    BY <1>1, <2>1, <2>2, <2>3, <2>5 DEF Accounted
<1>4. CASE Socket
  <2>1. /\ call.at = "socket" /\ ~At("idle") /\ before' = before /\ m_socket' = m_socket
        /\ call.op \in {"server", "connect"}
    BY <1>4 DEF Socket, At, outside, TypeInv, Steps
  <2>2. New = {}
    BY <2>1, NewFacts
  <2>3. CASE /\ Free # {} /\ Become(Min(Free), "raw")
             /\ call' = [call EXCEPT !.at = IF call.op = "server" THEN "setsockopt" ELSE "connect",
                                     !.skt = Min(Free)]
    <3>1. PICK fd \in Fd : fd = Min(Free)
      BY <2>3, LowestFree
    <3>2. Owned' \subseteq Owned \cup {fd}
      BY <1>1, <2>3, <3>1, OwnedFacts
    <3>3. call'.at \in {"setsockopt", "connect"} /\ call'.skt = fd
      BY <1>1, <2>3, <3>1 DEF Types, CallValue
    <3>4. New' = {fd}
      BY <3>3, NewFactsAfter
    <3>5. QED
      BY <1>1, <2>1, <2>2, <3>2, <3>3, <3>4, GoesOn DEF At
  <2>4. CASE NextAddress(0) /\ fds' = fds
    <3>1. call'.at \in {"socket", "none"}
      BY <1>1, <2>4, NextAddressAt
    <3>2. Owned' = Owned
      BY <1>1, <2>4, OwnedFacts
    <3>3. QED
      BY <1>1, <2>1, <2>2, <3>1, <3>2, GoesOn DEF At
  <2>5. CASE call' = Idle /\ fds' = fds
    <3>1. Owned' = Owned
      BY <1>1, <2>5, OwnedFacts
    <3>2. Owned \subseteq before.fds /\ (bus = "py" => Owned \subseteq {m_socket})
      BY <2>1, <2>2 DEF Accounted
    <3>3. QED
      BY <1>1, <2>1, <2>5, <3>1, <3>2, Ends
  <2>6. QED
    BY <1>4, <2>3, <2>4, <2>5 DEF Socket, Return
<1>5. CASE NoneLeft
  <2>1. /\ call.at = "none" /\ ~At("idle") /\ before' = before /\ m_socket' = m_socket /\ call' = Idle
    BY <1>5 DEF NoneLeft, At, outside, Return
  <2>2. New = {}
    BY <2>1, NewFacts
  <2>3. Owned' \subseteq Owned
    BY <1>1, <1>2, <1>5, OwnedFacts DEF NoneLeft
  <2>4. Owned \subseteq before.fds /\ (bus = "py" => Owned \subseteq {m_socket})
    BY <2>1, <2>2 DEF Accounted
  <2>5. QED
    BY <1>1, <2>1, <2>3, <2>4, Ends
<1>6. CASE Destroy
  <2>1. /\ call.at = "idle" /\ call' = call /\ before' = before /\ m_socket' = 0
        /\ rc' = rc /\ ended' = ended
    BY <1>6 DEF Destroy, At, outside, unreturned, forget
  <2>2. Owned' \subseteq Owned \ {m_socket}
    BY <1>1, <1>2, <1>6, OwnedFacts DEF Destroy
  <2>3. New = {} /\ New' = {}
    BY <2>1, NewFacts, NewFactsAfter
  <2>4. QED
    BY <1>1, <2>1, <2>2, <2>3 DEF Accounted, At, KeepsSockets
<1>7. CASE OtherOpen \/ OtherClose
  <2>1. /\ call' = call /\ before' = before /\ m_socket' = m_socket
        /\ rc' = rc /\ ended' = ended
    BY <1>7 DEF OtherOpen, OtherClose, unreturned
  <2>2. Owned' \subseteq Owned
    <3>1. CASE OtherOpen
      BY <1>1, <3>1, LowestFree, OwnedFacts DEF OtherOpen
    <3>2. CASE OtherClose
      BY <1>1, <1>2, <3>2, OwnedFacts DEF OtherClose
    <3>3. QED
      BY <1>7, <3>1, <3>2
  <2>3. New' = New
    BY <2>1 DEF New, At
  <2>4. QED
    BY <1>1, <2>1, <2>2, <2>3 DEF Accounted, At, KeepsSockets
<1>8. QED
  BY <1>3, <1>4, <1>5, <1>6, <1>7

\* The inductive step of Accounted.
LEMMA AccountedStep ==
  ASSUME TypeInv, Accounted, [Next]_vars
  PROVE  Accounted'
<1>1. CASE UNCHANGED vars
  BY <1>1 DEF vars, Accounted, New, Owned, KeepsSockets, At
<1>2. CASE Next
  BY <1>2, AccountedServer, AccountedClient, AccountedPort, AccountedElse DEF Next, Step
<1>3. QED
  BY <1>1, <1>2

\* Every descriptor of the bus is accounted for.
LEMMA AccountedInvariant == Spec => []Accounted
<1>1. Init => Accounted
  BY DEF Init, Accounted, New, Owned, KeepsSockets, At, Idle
<1>2. QED
  BY <1>1, TypeInvariant, AccountedStep, PTL DEF Spec

\* Released: a call that fails returns what it took, but at the places KeepsSockets and KeepsList
\* name, and one that succeeds keeps its socket only.
THEOREM ReleasesWhatItTook == Spec => []Released
<1>1. Accounted /\ Lists => Released
  <2> SUFFICES ASSUME Accounted, Lists, At("idle") PROVE Released
    BY DEF Released
  <2>1. New = {} /\ ~Listed
    BY NewFacts DEF At, Listed
  <2>2. QED
    BY <2>1 DEF Released, Accounted, Lists
<1>2. QED
  BY <1>1, AccountedInvariant, ListsInvariant, PTL
-----------------------------------------------------------------------------
(***************************************************************************)
(* The end of a call.                                                      *)
(***************************************************************************)

\* A call is at one of its addresses, or past the last.
Counted ==
  /\ call.i <= call.n + 1
  /\ call.at \notin {"idle", "none", "tcgetattr", "tcsetattr"} => call.i <= call.n

\* What Left is at each step.
LEMMA LeftAt ==
  ASSUME NEW c
  PROVE  LET rest == 6 * (c.n + 1 - c.i)
         IN  /\ c.at = "idle" => Left(c) = 0
             /\ c.at = "socket" => Left(c) = rest + 6
             /\ c.at = "setsockopt" => Left(c) = rest + 5
             /\ c.at = "bind" => Left(c) = rest + 4
             /\ c.at = "listen" => Left(c) = rest + 3
             /\ c.at \in {"accept", "connect", "tcgetattr"} => Left(c) = rest + 2
             /\ c.at \in {"nonblock", "none", "tcsetattr"} => Left(c) = rest + 1
BY DEF Left

\* The two ways in which a call goes on.
LEMMA CallMoves ==
  ASSUME TypeInv, Next, ~At("idle")
  PROVE  \/ call' = call \/ call' = Idle
         \/ /\ <<call.at, call'.at>> \in
                 {<<"socket", "setsockopt">>, <<"socket", "connect">>, <<"setsockopt", "bind">>,
                  <<"bind", "listen">>, <<"listen", "accept">>, <<"accept", "nonblock">>,
                  <<"connect", "nonblock">>, <<"tcgetattr", "tcsetattr">>}
            /\ call'.i = call.i /\ call'.n = call.n
         \/ /\ call.at \in {"socket", "bind", "connect"}
            /\ call'.at = IF call.i < call.n THEN "socket" ELSE "none"
            /\ call'.i = call.i + 1 /\ call'.n = call.n
<1>1. call \in CallValue
  BY DEF TypeInv, Types
<1>2. \A step : Goto(step) => call'.at = step /\ call'.i = call.i /\ call'.n = call.n
  BY <1>1 DEF Goto, CallValue
<1>3. \A skt : NextAddress(skt) => /\ call'.at = IF call.i < call.n THEN "socket" ELSE "none"
                                   /\ call'.i = call.i + 1 /\ call'.n = call.n
  BY <1>1 DEF NextAddress, CallValue
<1>4. \A code : Return(code) => call' = Idle
  BY DEF Return
<1>5. \A skt : Fail(skt) => call' = Idle
  BY <1>4 DEF Fail
<1>6. CASE Socket
  <2>1. CASE \E skt : call' = [call EXCEPT !.at = IF call.op = "server" THEN "setsockopt" ELSE "connect",
                                           !.skt = skt]
    <3>1. call'.at \in {"setsockopt", "connect"} /\ call'.i = call.i /\ call'.n = call.n
      BY <1>1, <2>1 DEF CallValue
    <3>2. QED
      BY <1>6, <3>1 DEF Socket, At
  <2>2. CASE NextAddress(0) \/ Return("RAISED")
    BY <1>3, <1>4, <1>6, <2>2 DEF Socket, At
  <2>3. QED
    BY <1>6, <2>1, <2>2 DEF Socket
<1>7. CASE NoneLeft \/ NonblockServer \/ NonblockClient \/ make_socket_non_blocking \/ Tcsetattr
  BY <1>4, <1>5, <1>7 DEF NoneLeft, NonblockServer, NonblockClient, make_socket_non_blocking, Tcsetattr
<1>8. CASE Setsockopt \/ Tcgetattr
  BY <1>2, <1>4, <1>5, <1>8 DEF Setsockopt, Tcgetattr, At
<1>9. CASE Bind \/ Listen
  BY <1>2, <1>3, <1>5, <1>9 DEF Bind, Listen, At
<1>10. CASE Connect
  BY <1>2, <1>3, <1>4, <1>10 DEF Connect, At
<1>11. CASE Accept
  <2>1. CASE \E client : call' = [call EXCEPT !.at = "nonblock", !.client = client]
    <3>1. call'.at = "nonblock" /\ call'.i = call.i /\ call'.n = call.n
      BY <1>1, <2>1 DEF CallValue
    <3>2. QED
      BY <1>11, <3>1 DEF Accept, At
  <2>2. QED
    BY <1>5, <1>11, <2>1 DEF Accept
<1>12. CASE Resolve \/ OpenSerial \/ Destroy
  BY <1>12 DEF Resolve, OpenSerial, Destroy, At
<1>13. CASE OtherOpen \/ OtherClose
  BY <1>13 DEF OtherOpen, OtherClose
<1>14. QED
  BY <1>6, <1>7, <1>8, <1>9, <1>10, <1>11, <1>12, <1>13 DEF Next, Step

\* Each of them lowers Left, and leaves the call at an address it has or past the last.
LEMMA CountedStep ==
  ASSUME TypeInv, Counted, Next, ~At("idle")
  PROVE  Counted' /\ (call' # call => Left(call') \in 0..(Left(call) - 1))
<1>1. PICK i \in Nat, n \in Nat : i = call.i /\ n = call.n
  BY DEF TypeInv, Types, CallValue
<1>2. i <= n + 1 /\ (call.at \notin {"idle", "none", "tcgetattr", "tcsetattr"} => i <= n)
  BY <1>1 DEF Counted
<1>3. Left(call) \in Nat /\ Left(call) >= 1
  <2>1. call.at \in {"socket", "none", "setsockopt", "bind", "listen", "accept", "nonblock",
                     "connect", "tcgetattr", "tcsetattr"}
    BY DEF TypeInv, Types, CallValue, At
  <2>2. 6 * (n + 1 - i) \in Nat
    BY <1>2
  <2>3. QED
    BY <1>1, <2>1, <2>2, LeftAt
<1>4. CASE call' = call
  BY <1>4 DEF Counted
<1>5. CASE call' = Idle
  <2>1. Idle.at = "idle" /\ Idle.i = 0 /\ Idle.n = 0
    BY DEF Idle
  <2>2. Left(call') = 0
    BY <1>5, <2>1, LeftAt
  <2>3. QED
    BY <1>3, <1>5, <2>1, <2>2 DEF Counted
<1>6. CASE /\ <<call.at, call'.at>> \in
                {<<"socket", "setsockopt">>, <<"socket", "connect">>, <<"setsockopt", "bind">>,
                 <<"bind", "listen">>, <<"listen", "accept">>, <<"accept", "nonblock">>,
                 <<"connect", "nonblock">>, <<"tcgetattr", "tcsetattr">>}
           /\ call'.i = call.i /\ call'.n = call.n
  <2>1. Counted'
    BY <1>1, <1>2, <1>6 DEF Counted
  <2>2. PICK rest \in Nat : rest = 6 * (n + 1 - i)
    BY <1>2
  <2>3. Left(call') \in 0..(Left(call) - 1)
    BY <1>1, <1>6, <2>2, LeftAt
  <2>4. QED
    BY <2>1, <2>3
<1>7. CASE /\ call.at \in {"socket", "bind", "connect"}
           /\ call'.at = IF call.i < call.n THEN "socket" ELSE "none"
           /\ call'.i = call.i + 1 /\ call'.n = call.n
  <2>1. Counted'
    BY <1>1, <1>2, <1>7 DEF Counted
  <2>2. PICK rest \in Nat : rest = 6 * (n - i)
    BY <1>2, <1>7
  <2>3. 6 * (n + 1 - i) = rest + 6 /\ 6 * (n + 1 - (i + 1)) = rest
    BY <2>2
  <2>4. Left(call) >= rest + 8
    BY <1>1, <1>7, <2>3, LeftAt
  <2>5. Left(call') \in {rest + 6, rest + 1}
    BY <1>1, <1>7, <2>3, LeftAt
  <2>6. QED
    BY <1>3, <2>1, <2>2, <2>4, <2>5
<1>8. QED
  BY <1>4, <1>5, <1>6, <1>7, CallMoves

\* A call is at an address it has.
LEMMA CountedInvariant == Spec => []Counted
<1>1. Init => Counted
  BY DEF Init, Idle, Counted
<1>2. TypeInv /\ Counted /\ [Next]_vars => Counted'
  <2> SUFFICES ASSUME TypeInv, Counted, [Next]_vars PROVE Counted'
    OBVIOUS
  <2>1. CASE UNCHANGED vars
    BY <2>1 DEF vars, Counted
  <2>2. CASE Next /\ ~At("idle")
    BY <2>2, CountedStep
  <2>3. CASE Next /\ At("idle")
    <3>1. CASE call' = call
      BY <3>1 DEF Counted
    <3>2. CASE Resolve /\ call' # call
      <4>1. PICK n \in 1..MaxAddr : call'.i = 1 /\ call'.n = n
        BY <3>2 DEF Resolve
      <4>2. QED
        BY <4>1, SocketBoundsAssumption DEF Counted
    <3>3. CASE OpenSerial /\ call' # call
      <4>1. call'.i = 0 /\ call'.n = 0 /\ call'.at = "tcgetattr"
        BY <3>3 DEF OpenSerial, Idle
      <4>2. QED
        BY <4>1 DEF Counted
    <3>4. call' = call \/ Resolve \/ OpenSerial
      BY <2>3 DEF Next, Step, Accept, Destroy, Socket, NoneLeft, Setsockopt, Bind, Listen, NonblockServer,
        Connect, NonblockClient, make_socket_non_blocking, Tcgetattr, Tcsetattr, OtherOpen, OtherClose, At
    <3>5. QED
      BY <3>1, <3>2, <3>3, <3>4
  <2>4. QED
    BY <2>1, <2>2, <2>3
<1>3. QED
  BY <1>1, <1>2, TypeInvariant, PTL DEF Spec

\* Whatever fails, each system call brings the call that makes it nearer to its end: there is
\* no loop in setupServer, connectToServer and open but the one over the addresses, and that
\* never goes back.
THEOREM EveryCallAdvances == Spec => CallAdvances
<1>1. TypeInv /\ Counted /\ [Next]_vars
        => [~At("idle") /\ call' # call => Left(call') \in 0..(Left(call) - 1)]_vars
  BY CountedStep
<1>2. QED
  BY <1>1, TypeInvariant, CountedInvariant, PTL DEF Spec, CallAdvances
==============================================================================
