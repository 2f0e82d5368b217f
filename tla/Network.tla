------------------------------ MODULE Network -------------------------------
(***************************************************************************)
(* The processes of one host: how each finds a port of its own, how its    *)
(* threads find the ports of the others and broadcast to them, and how its *)
(* server takes one connection per call.  A process can end at any moment  *)
(* and be started again.  What is broadcast and what its handling does is  *)
(* the matter of Node; a message is named by the broadcast it came from.   *)
(***************************************************************************)
EXTENDS Integers, FiniteSets, SequencesExt

CONSTANTS
  Procs,        \* processes
  Threads,      \* the threads that broadcast, of all processes
  home,         \* the process of each thread
  Payers,       \* those that makeTransaction runs in: it scans, then broadcasts
  PORTS,        \* Constants::ports, in their order
  Others,       \* the ports at which other programs of the host may listen
  Fallthrough,  \* what serverPort yields when every port is taken
  SharedBind,   \* TRUE iff two sockets can be bound to one port
  BACKLOG,      \* connections that wait at a listening socket
  MaxScans,     \* bound: broadcasts of a thread
  MaxStarts     \* bound: lives of a process

ASSUME NetworkAssumption ==
  /\ IsFiniteSet(Threads) /\ home \in [Threads -> Procs] /\ Payers \subseteq Threads
  /\ PORTS \in Seq(Nat \ {0}) /\ IsInjective(PORTS)
  /\ Others \subseteq Range(PORTS)
  /\ Fallthrough \subseteq Nat /\ Fallthrough # {}
  /\ SharedBind \in BOOLEAN
  /\ BACKLOG \in Nat \ {0} /\ MaxScans \in Nat /\ MaxStarts \in Nat

VARIABLES
  foreign,      \* the ports at which another program listens
  starts,       \* how often each process has been started
  phase,        \* main: "off", "probe" (serverPort), "look" (first scan) or "up"
  port,         \* m_port; 0 before serverPort returns
  portList,     \* m_portList, shared by the threads of a process
  sock,         \* server: "closed", "accept" (listening) or "handle" (listening still)
  queue,        \* the connections waiting at its socket
  buffer,       \* what the last call of server left in the receive buffer
  pos,          \* main: the next position in PORTS
  pc,           \* threads: "idle", "clear", "scan", "copy" or "send"
  at,           \* threads: the next position in PORTS or in their list
  list,         \* threads: broadcast's copy of the port list
  job,          \* threads: the scan they are at, and whether it is a broadcast
  reached,      \* history: the messages that have come to each socket
  quiet,        \* history: threads whose scan no other one of the process disturbed
  steady        \* history: who has been reachable since each thread's scan began

mains   == <<starts, phase, port, pos>>
servers == <<sock, queue, buffer, reached>>
threads == <<pc, at, list, job>>
vars == <<foreign, mains, portList, servers, threads, quiet, steady>>

(* A connection brings a message, whole or its first part, or nothing.     *)
Messages == [from : Threads, n : 1 .. MaxScans]
Probe    == [from |-> "probe", n |-> 0]
Nothing  == [from |-> "nothing", n |-> 0]
Message(c) == [from |-> c, n |-> job[c].n]

NoJob == [n |-> 0, broadcast |-> FALSE]
Ports == Range(PORTS)

-----------------------------------------------------------------------------
(* Connections.                                                            *)

Listens(p) == sock[p] \in {"accept", "handle"}
Listeners(to) == {p \in Procs : Listens(p) /\ port[p] = to}

WithRoom(to) == {p \in Listeners(to) : Len(queue[p]) < BACKLOG}

(* One of those that listen on the port gets the connection.               *)
Connect(to, what) ==
  \/ to \in foreign /\ UNCHANGED servers
  \/ \E p \in WithRoom(to) :
       /\ queue' = [queue EXCEPT ![p] = Append(@, what)]
       /\ reached' = [reached EXCEPT ![p] = @ \cup ({what} \cap Messages)]
       /\ UNCHANGED <<sock, buffer>>

Refused(to) == to \notin foreign /\ WithRoom(to) = {} /\ UNCHANGED servers

(* accepting_connections: whoever listens is left with an empty connection.*)
Accepting(to, yes, no) == \/ Connect(to, Probe) /\ yes
                          \/ Refused(to) /\ no

-----------------------------------------------------------------------------
(* Constructing the Node: serverPort, then a scan by the one thread there  *)
(* is; after it main starts the server and the other threads.              *)

Start(p) ==
  /\ phase[p] = "off" /\ starts[p] < MaxStarts
  /\ starts' = [starts EXCEPT ![p] = @ + 1]
  /\ phase' = [phase EXCEPT ![p] = "probe"] /\ pos' = [pos EXCEPT ![p] = 1]
  /\ UNCHANGED <<port, portList, servers, threads, quiet>>

Chosen(p, choice) == /\ port' = [port EXCEPT ![p] = choice]
                     /\ phase' = [phase EXCEPT ![p] = "look"] /\ pos' = [pos EXCEPT ![p] = 1]

ProbePort(p) ==
  /\ phase[p] = "probe" /\ pos[p] \in DOMAIN PORTS
  /\ Accepting(PORTS[pos[p]],
       pos' = [pos EXCEPT ![p] = @ + 1] /\ UNCHANGED <<port, phase>>,
       Chosen(p, PORTS[pos[p]]))
  /\ UNCHANGED <<starts, portList, threads, quiet>>

(* No port was left: the function ends without a return statement.         *)
NoPort(p) ==
  /\ phase[p] = "probe" /\ pos[p] \notin DOMAIN PORTS
  /\ \E any \in Fallthrough : Chosen(p, any)
  /\ UNCHANGED <<starts, portList, servers, threads, quiet>>

(* Mutant: m_port is pushed in place of the port that answered.            *)
Found_Own(p, to) == portList' = IF to = port[p] THEN portList
                                ELSE [portList EXCEPT ![p] = Append(@, port[p])]

Found(p, to) == portList' = IF to = port[p] THEN portList
                            ELSE [portList EXCEPT ![p] = Append(@, to)]

Look(p) ==
  /\ phase[p] = "look" /\ pos[p] \in DOMAIN PORTS
  /\ Accepting(PORTS[pos[p]], Found(p, PORTS[pos[p]]), UNCHANGED portList)
  /\ pos' = [pos EXCEPT ![p] = @ + 1]
  /\ UNCHANGED <<starts, phase, port, threads, quiet>>

Up(p) ==
  /\ phase[p] = "look" /\ pos[p] \notin DOMAIN PORTS
  /\ phase' = [phase EXCEPT ![p] = "up"] /\ pos' = [pos EXCEPT ![p] = 0]
  /\ UNCHANGED <<starts, port, portList, servers, threads, quiet>>

Main(p) == ProbePort(p) \/ NoPort(p) \/ Look(p) \/ Up(p)

-----------------------------------------------------------------------------
(* The server's loop.  pserv opens the socket anew: what waited there is   *)
(* gone.  If the port cannot be bound, the next call tries again.          *)

Reopen(p) ==
  /\ sock[p] = "handle"
  /\ sock' = [sock EXCEPT ![p] = "closed"] /\ queue' = [queue EXCEPT ![p] = <<>>]
  /\ UNCHANGED <<mains, portList, buffer, reached, threads, quiet>>

Listen(p) ==
  /\ phase[p] = "up" /\ sock[p] = "closed"
  /\ SharedBind \/ (Listeners(port[p]) = {} /\ port[p] \notin foreign)
  /\ sock' = [sock EXCEPT ![p] = "accept"]
  /\ UNCHANGED <<mains, portList, queue, buffer, reached, threads, quiet>>

(* Mutant: a connection that brings nothing keeps the call waiting.        *)
Accept_Waits(p) ==
  /\ sock[p] = "accept" /\ queue[p] # <<>> /\ Head(queue[p]) # Probe
  /\ buffer' = [buffer EXCEPT ![p] = Head(queue[p])]
  /\ queue' = [queue EXCEPT ![p] = Tail(@)]
  /\ sock' = [sock EXCEPT ![p] = "handle"]
  /\ UNCHANGED <<mains, portList, reached, threads, quiet>>

(* accept, one recv and the handling of what the buffer holds then.        *)
Accept(p) ==
  /\ sock[p] = "accept" /\ queue[p] # <<>>
  /\ buffer' = [buffer EXCEPT ![p] = IF Head(queue[p]) = Probe THEN @ ELSE Head(queue[p])]
  /\ queue' = [queue EXCEPT ![p] = Tail(@)]
  /\ sock' = [sock EXCEPT ![p] = "handle"]
  /\ UNCHANGED <<mains, portList, reached, threads, quiet>>

Server(p) == Reopen(p) \/ Listen(p) \/ Accept(p)

-----------------------------------------------------------------------------
(* updatePortList by a thread, and broadcast, which starts with it.        *)

Step(c, next, i) == pc' = [pc EXCEPT ![c] = next] /\ at' = [at EXCEPT ![c] = i]

Begin(c) ==
  /\ phase[home[c]] = "up" /\ pc[c] = "idle" /\ job[c].n < MaxScans
  /\ job' = [job EXCEPT ![c] = [n |-> @.n + 1, broadcast |-> c \notin Payers]]
  /\ Step(c, "clear", 0)
  /\ UNCHANGED <<mains, portList, servers, list, quiet>>

(* Mutant: the scan adds to the list that is there.                        *)
Clear_Keeps(c) ==
  /\ pc[c] = "clear"
  /\ quiet' = {d \in quiet : home[d] # home[c]}
              \cup (IF \A d \in Threads \ {c} : home[d] = home[c] => pc[d] \notin {"scan", "copy"}
                    THEN {c} ELSE {})
  /\ Step(c, "scan", 1)
  /\ UNCHANGED <<mains, portList, servers, list, job>>

Clear(c) ==
  /\ pc[c] = "clear"
  /\ portList' = [portList EXCEPT ![home[c]] = <<>>]
  /\ quiet' = {d \in quiet : home[d] # home[c]}
              \cup (IF \A d \in Threads \ {c} : home[d] = home[c] => pc[d] \notin {"scan", "copy"}
                    THEN {c} ELSE {})
  /\ Step(c, "scan", 1)
  /\ UNCHANGED <<mains, servers, list, job>>

(* Mutant: the test port != m_port is left out.                            *)
Scan_OwnToo(c) ==
  /\ pc[c] = "scan" /\ at[c] \in DOMAIN PORTS
  /\ Accepting(PORTS[at[c]],
       portList' = [portList EXCEPT ![home[c]] = Append(@, PORTS[at[c]])], UNCHANGED portList)
  /\ Step(c, "scan", at[c] + 1)
  /\ UNCHANGED <<mains, list, job, quiet>>

Scan(c) ==
  /\ pc[c] = "scan" /\ at[c] \in DOMAIN PORTS
  /\ Accepting(PORTS[at[c]], Found(home[c], PORTS[at[c]]), UNCHANGED portList)
  /\ Step(c, "scan", at[c] + 1)
  /\ UNCHANGED <<mains, list, job, quiet>>

(* Mutant: the last port is not scanned.                                   *)
ScanEnds_Early(c) ==
  /\ pc[c] = "scan" /\ at[c] >= Len(PORTS)
  /\ \/ job[c].broadcast /\ Step(c, "copy", 0) /\ UNCHANGED job
     \/ /\ ~job[c].broadcast /\ Step(c, "clear", 0)
        /\ job' = [job EXCEPT ![c].broadcast = TRUE]
  /\ UNCHANGED <<mains, portList, servers, list, quiet>>

ScanEnds(c) ==
  /\ pc[c] = "scan" /\ at[c] \notin DOMAIN PORTS
  /\ \/ job[c].broadcast /\ Step(c, "copy", 0) /\ UNCHANGED job
     \/ /\ ~job[c].broadcast /\ Step(c, "clear", 0)
        /\ job' = [job EXCEPT ![c].broadcast = TRUE]
  /\ UNCHANGED <<mains, portList, servers, list, quiet>>

(* getPortList returns a copy.                                             *)
Copy(c) ==
  /\ pc[c] = "copy"
  /\ list' = [list EXCEPT ![c] = portList[home[c]]]
  /\ Step(c, "send", 1)
  /\ UNCHANGED <<mains, portList, servers, job, quiet>>

Send(c) ==
  /\ pc[c] = "send" /\ at[c] \in DOMAIN list[c]
  /\ Connect(list[c][at[c]], Message(c)) \/ Refused(list[c][at[c]])
  /\ Step(c, "send", at[c] + 1)
  /\ UNCHANGED <<mains, portList, list, job, quiet>>

SendEnds(c) ==
  /\ pc[c] = "send" /\ at[c] \notin DOMAIN list[c]
  /\ list' = [list EXCEPT ![c] = <<>>]
  /\ Step(c, "idle", 0)
  /\ UNCHANGED <<mains, portList, servers, job, quiet>>

Inside(c) == Clear(c) \/ Scan(c) \/ ScanEnds(c) \/ Copy(c) \/ Send(c) \/ SendEnds(c)

-----------------------------------------------------------------------------
(* Ctrl-C, or an exception no one catches: nothing is kept.                *)
End(p) ==
  LET mine(c) == home[c] = p
  IN  /\ phase[p] # "off"
      /\ phase' = [phase EXCEPT ![p] = "off"] /\ port' = [port EXCEPT ![p] = 0]
      /\ pos' = [pos EXCEPT ![p] = 0]
      /\ portList' = [portList EXCEPT ![p] = <<>>]
      /\ sock' = [sock EXCEPT ![p] = "closed"] /\ queue' = [queue EXCEPT ![p] = <<>>]
      /\ buffer' = [buffer EXCEPT ![p] = Nothing] /\ reached' = [reached EXCEPT ![p] = {}]
      /\ pc' = [c \in Threads |-> IF mine(c) THEN "idle" ELSE pc[c]]
      /\ at' = [c \in Threads |-> IF mine(c) THEN 0 ELSE at[c]]
      /\ list' = [c \in Threads |-> IF mine(c) THEN <<>> ELSE list[c]]
      /\ quiet' = {c \in quiet : ~mine(c)}
      /\ UNCHANGED <<starts, job>>

(* Who is alone at a port and has room for a connection.                   *)
Reachable ==
  {p \in Procs : port[p] \notin foreign /\ p \in WithRoom(port[p]) /\ Listeners(port[p]) = {p}}

Watch == steady' = [c \in Threads |->
  IF pc'[c] \in {"idle", "clear"} THEN {}
  ELSE (IF pc[c] = "clear" THEN Procs ELSE steady[c]) \cap Reachable']

Init ==
  /\ foreign \in SUBSET Others
  /\ starts = [p \in Procs |-> 0]
  /\ phase = [p \in Procs |-> "off"] /\ port = [p \in Procs |-> 0] /\ pos = [p \in Procs |-> 0]
  /\ portList = [p \in Procs |-> <<>>]
  /\ sock = [p \in Procs |-> "closed"] /\ queue = [p \in Procs |-> <<>>]
  /\ buffer = [p \in Procs |-> Nothing] /\ reached = [p \in Procs |-> {}]
  /\ pc = [c \in Threads |-> "idle"] /\ at = [c \in Threads |-> 0]
  /\ list = [c \in Threads |-> <<>>] /\ job = [c \in Threads |-> NoJob]
  /\ quiet = {} /\ steady = [c \in Threads |-> {}]

Rest == UNCHANGED foreign /\ Watch

Next == /\ \/ \E p \in Procs : Start(p) \/ Main(p) \/ Server(p) \/ End(p)
           \/ \E c \in Threads : Begin(c) \/ Inside(c)
        /\ Rest

Spec == Init /\ [][Next]_vars

(* The server of a process gets its turns; nothing is asked of the others. *)
FairSpec == Spec /\ \A p \in Procs : WF_sock(Server(p))

-----------------------------------------------------------------------------
(* Every variable has its type: in particular the port list holds ports of *)
(* Config.h only, never the value of serverPort when it finds none.        *)
TypeOK ==
  /\ foreign \subseteq Others
  /\ starts \in [Procs -> 0 .. MaxStarts]
  /\ phase \in [Procs -> {"off", "probe", "look", "up"}]
  /\ port \in [Procs -> {0} \cup Ports \cup Fallthrough] /\ pos \in [Procs -> Nat]
  /\ portList \in [Procs -> Seq(Ports)]
  /\ sock \in [Procs -> {"closed", "accept", "handle"}]
  /\ queue \in [Procs -> Seq(Messages \cup {Probe})]
  /\ buffer \in [Procs -> Messages \cup {Nothing}]
  /\ reached \in [Procs -> SUBSET Messages]
  /\ pc \in [Threads -> {"idle", "clear", "scan", "copy", "send"}]
  /\ at \in [Threads -> Nat] /\ list \in [Threads -> Seq(Ports)]
  /\ job \in [Threads -> [n : 0 .. MaxScans, broadcast : BOOLEAN]]
  /\ quiet \subseteq Threads /\ steady \in [Threads -> SUBSET Procs]

(* No message of a process comes back to it, whoever shares its port and   *)
(* however its threads disturb each other's port list: what Node's server  *)
(* reads comes from a peer, just now or, after a probe, some time ago.     *)
NoEcho ==
  \A p \in Procs :
    /\ \A m \in reached[p] : home[m.from] # p
    /\ buffer[p] \in reached[p] \cup {Nothing}

(* Overlapping scans of one process may list a port twice, so that a       *)
(* broadcast is handled twice; but never more often than it has threads.   *)
Times(s, to) == Cardinality({i \in DOMAIN s : s[i] = to})
Scanners(p) == {c \in Threads : home[c] = p}
ListedOncePerThread ==
  \A to \in Ports :
    /\ \A c \in Threads : Times(list[c], to) <= Cardinality(Scanners(home[c]))
    /\ \A p \in Procs : Times(portList[p], to) > 1 => Times(portList[p], to) <= Cardinality(Scanners(p))

(* A broadcast whose scan no other thread of the process disturbed has     *)
(* come to everyone who listened, alone at a port and with room, from the  *)
(* scan on: a broadcast that finds nobody is the work of another thread.   *)
QuietBroadcastArrives ==
  \A c \in Threads :
    pc[c] = "send" /\ at[c] \notin DOMAIN list[c] /\ c \in quiet =>
      \A p \in steady[c] : port[p] \in Ports \ {port[home[c]]} => Message(c) \in reached[p]

(* Two processes at one port: nobody refuses the second one.               *)
UniquePort ==
  \A p, q \in Procs : p # q /\ phase[p] = "up" /\ phase[q] = "up" => port[p] # port[q]

(* A server comes back to an empty queue and listens, whatever is sent to  *)
(* it, unless another socket is at its port: no connection waits for ever. *)
ServerReturns == \A p \in Procs :
  (phase[p] = "up") ~> \/ sock[p] = "accept" /\ queue[p] = <<>>
                       \/ phase[p] = "off" \/ port[p] \in foreign
                       \/ \E q \in Procs \ {p} : port[q] = port[p]
=============================================================================
