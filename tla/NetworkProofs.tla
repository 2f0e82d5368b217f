--------------------------- MODULE NetworkProofs ----------------------------
(***************************************************************************)
(* For any number of processes and threads, any list of ports and any      *)
(* backlog: Network keeps its types, no message of a process comes back to*)
(* it, a broadcast no one disturbs arrives, and no port is listed more     *)
(* often than a process has threads.                                       *)
(***************************************************************************)
EXTENDS Network, SequenceTheorems, FiniteSetTheorems, TLAPS

Connections == Messages \cup {Probe}
Elements(s) == {s[i] : i \in DOMAIN s}

(* Only a process that is up has threads at work, and a socket.            *)
UpOnly ==
  /\ \A c \in Threads : pc[c] # "idle" => phase[home[c]] = "up" /\ job[c].n >= 1
  /\ \A p \in Procs : sock[p] # "closed" => phase[p] = "up"
  /\ \A p \in Procs : phase[p] \in {"off", "probe"} => portList[p] = <<>>
  /\ \A c \in Threads : pc[c] # "send" => list[c] = <<>>

(* A process lists no port of its own, and no thread sends to it.          *)
OwnPortOut ==
  /\ \A p \in Procs : port[p] \notin Elements(portList[p])
  /\ \A c \in Threads : port[home[c]] \notin Elements(list[c])

(* What waits at a socket has come to it, and may be left in the buffer.   *)
Came == \A p \in Procs : Elements(queue[p]) \subseteq reached[p] \cup {Probe}

IInv == TypeOK /\ UpOnly /\ OwnPortOut /\ Came /\ NoEcho

-----------------------------------------------------------------------------
(* How the elements of a sequence change.                                  *)
LEMMA AppendElements ==
  ASSUME NEW S, NEW s \in Seq(S), NEW e \in S
  PROVE  /\ Append(s, e) \in Seq(S) /\ Len(Append(s, e)) = Len(s) + 1
         /\ Elements(Append(s, e)) \subseteq Elements(s) \cup {e}
BY DEF Elements

LEMMA TailElements ==
  ASSUME NEW S, NEW s \in Seq(S), s # <<>>
  PROVE  /\ Head(s) \in S /\ Head(s) \in Elements(s)
         /\ Tail(s) \in Seq(S) /\ Len(Tail(s)) = Len(s) - 1
         /\ Elements(Tail(s)) \subseteq Elements(s)
BY DEF Elements

LEMMA EmptyElements == Elements(<<>>) = {}
BY DEF Elements

LEMMA PortOf ==
  ASSUME NEW i \in DOMAIN PORTS
  PROVE  PORTS[i] \in Ports /\ i \in Nat
<1>1. PORTS \in Seq(Nat \ {0})
  BY NetworkAssumption
<1> QED BY <1>1, LenProperties DEF Ports, Range

(* What a connection changes: it may wait at a socket of that port.        *)
LEMMA ConnectProperties ==
  ASSUME TypeOK, Came, NEW to, NEW what \in Connections, Connect(to, what)
  PROVE  /\ queue' \in [Procs -> Seq(Connections)]
         /\ reached' \in [Procs -> SUBSET Messages]
         /\ UNCHANGED <<sock, buffer>>
         /\ \A p \in Procs : Elements(queue'[p]) \subseteq reached'[p] \cup {Probe}
         /\ \A p \in Procs : /\ reached[p] \subseteq reached'[p]
                             /\ \A m \in reached'[p] : m \in reached[p] \/ (m = what /\ port[p] = to)
<1>1. CASE UNCHANGED servers
  BY <1>1 DEF TypeOK, Came, servers, Connections
<1>2. ASSUME NEW p \in WithRoom(to),
             queue' = [queue EXCEPT ![p] = Append(@, what)],
             reached' = [reached EXCEPT ![p] = @ \cup ({what} \cap Messages)],
             UNCHANGED <<sock, buffer>>
      PROVE  /\ queue' \in [Procs -> Seq(Connections)]
             /\ reached' \in [Procs -> SUBSET Messages]
             /\ \A q \in Procs : Elements(queue'[q]) \subseteq reached'[q] \cup {Probe}
             /\ \A q \in Procs : /\ reached[q] \subseteq reached'[q]
                                 /\ \A m \in reached'[q] : m \in reached[q] \/ (m = what /\ port[q] = to)
  <2>1. p \in Procs /\ port[p] = to
    BY DEF WithRoom, Listeners
  <2>2. queue \in [Procs -> Seq(Connections)] /\ reached \in [Procs -> SUBSET Messages]
    BY DEF TypeOK, Connections
  <2>3. queue[p] \in Seq(Connections)
    BY <2>1, <2>2
  <2>4. /\ Append(queue[p], what) \in Seq(Connections)
        /\ Elements(Append(queue[p], what)) \subseteq Elements(queue[p]) \cup {what}
    BY <2>3, AppendElements
  <2> DEFINE longer == Append(queue[p], what)
  <2>5. /\ longer \in Seq(Connections)
        /\ Elements(longer) \subseteq Elements(queue[p]) \cup {what}
    BY <2>1, <2>3, <2>4
  <2>6. queue' = [queue EXCEPT ![p] = longer]
    BY <1>2
  <2> HIDE DEF longer
  <2>7. queue' \in [Procs -> Seq(Connections)]
    BY <2>1, <2>2, <2>5, <2>6 DEF TypeOK
  <2>8. reached' \in [Procs -> SUBSET Messages]
    BY <1>2, <2>1, <2>2
  <2>9. \A q \in Procs : Elements(queue'[q]) \subseteq reached'[q] \cup {Probe}
    <3> SUFFICES ASSUME NEW q \in Procs
                 PROVE  Elements(queue'[q]) \subseteq reached'[q] \cup {Probe}
      OBVIOUS
    <3>1. CASE q = p
      <4>1. queue'[p] = longer /\ reached'[p] = reached[p] \cup ({what} \cap Messages)
        BY <1>2, <2>1, <2>2, <2>6
      <4>2. what \in Messages \/ what = Probe
        BY DEF Connections
      <4>3. Elements(queue[p]) \subseteq reached[p] \cup {Probe}
        BY <2>1 DEF Came
      <4> QED BY <2>5, <3>1, <4>1, <4>2, <4>3
    <3>2. CASE q # p
      BY <1>2, <2>1, <2>2, <2>6, <3>2 DEF Came
    <3> QED BY <3>1, <3>2
  <2>10. \A q \in Procs : /\ reached[q] \subseteq reached'[q]
                          /\ \A m \in reached'[q] : m \in reached[q] \/ (m = what /\ port[q] = to)
    BY <1>2, <2>1, <2>2
  <2> QED BY <2>7, <2>8, <2>9, <2>10
<1> QED BY <1>1, <1>2 DEF Connect, servers

(* A probe leaves everything as it is but the queues.                      *)
LEMMA ProbeKeeps ==
  ASSUME IInv, NEW to, Connect(to, Probe) \/ Refused(to)
  PROVE  /\ queue' \in [Procs -> Seq(Connections)]
         /\ UNCHANGED <<sock, buffer, reached>>
         /\ \A p \in Procs : Elements(queue'[p]) \subseteq reached[p] \cup {Probe}
<1>1. CASE Refused(to)
  BY <1>1 DEF IInv, TypeOK, Came, Refused, servers, Connections
<1>2. CASE Connect(to, Probe)
  <2>1. Probe \in Connections /\ Probe \notin Messages
    BY DEF Connections, Probe, Messages
  <2>2. /\ queue' \in [Procs -> Seq(Connections)]
        /\ reached' \in [Procs -> SUBSET Messages]
        /\ UNCHANGED <<sock, buffer>>
        /\ \A p \in Procs : Elements(queue'[p]) \subseteq reached'[p] \cup {Probe}
        /\ \A p \in Procs : /\ reached[p] \subseteq reached'[p]
                            /\ \A m \in reached'[p] : m \in reached[p] \/ (m = Probe /\ port[p] = to)
    BY <1>2, <2>1, ConnectProperties DEF IInv
  <2>3. ASSUME NEW p \in Procs PROVE reached'[p] = reached[p]
    <3>1. reached'[p] \subseteq Messages
      BY <2>2
    <3>2. ASSUME NEW m \in reached'[p] PROVE m \in reached[p]
      BY <2>1, <2>2, <3>1
    <3>3. reached[p] \subseteq reached'[p]
      BY <2>2
    <3> QED BY <3>2, <3>3
  <2>4. reached' = reached
    BY <2>2, <2>3 DEF IInv, TypeOK
  <2> QED BY <2>2, <2>4
<1> QED BY <1>1, <1>2

-----------------------------------------------------------------------------
(* What is to be shown of a step, when the history steady is left aside.   *)
Good == /\ foreign' \subseteq Others
        /\ starts' \in [Procs -> 0 .. MaxStarts]
        /\ phase' \in [Procs -> {"off", "probe", "look", "up"}]
        /\ port' \in [Procs -> {0} \cup Ports \cup Fallthrough] /\ pos' \in [Procs -> Nat]
        /\ portList' \in [Procs -> Seq(Ports)]
        /\ sock' \in [Procs -> {"closed", "accept", "handle"}]
        /\ queue' \in [Procs -> Seq(Connections)]
        /\ buffer' \in [Procs -> Messages \cup {Nothing}]
        /\ reached' \in [Procs -> SUBSET Messages]
        /\ pc' \in [Threads -> {"idle", "clear", "scan", "copy", "send"}]
        /\ at' \in [Threads -> Nat] /\ list' \in [Threads -> Seq(Ports)]
        /\ job' \in [Threads -> [n : 0 .. MaxScans, broadcast : BOOLEAN]]
        /\ quiet' \subseteq Threads
        /\ UpOnly' /\ OwnPortOut' /\ Came' /\ NoEcho'

LEMMA GoodIInv ==
  ASSUME IInv, Good, Watch
  PROVE  IInv'
<1>1. steady' \in [Threads -> SUBSET Procs]
  BY DEF Watch, Reachable, IInv, TypeOK
<1> QED BY <1>1 DEF Good, IInv, TypeOK, Connections

LEMMA InitIInv == Init => IInv
<1> SUFFICES ASSUME Init PROVE IInv
  OBVIOUS
<1> USE DEF Init
<1>1. TypeOK
  BY NetworkAssumption, EmptySeq DEF TypeOK, NoJob
<1>2. UpOnly /\ OwnPortOut /\ Came /\ NoEcho
  BY NetworkAssumption, EmptyElements DEF UpOnly, OwnPortOut, Came, NoEcho
<1> QED BY <1>1, <1>2 DEF IInv

LEMMA StartGood ==
  ASSUME IInv, NEW p \in Procs, Start(p), UNCHANGED foreign
  PROVE  Good
<1>1. /\ starts' = [starts EXCEPT ![p] = @ + 1] /\ starts[p] < MaxStarts
      /\ phase' = [phase EXCEPT ![p] = "probe"] /\ pos' = [pos EXCEPT ![p] = 1]
      /\ UNCHANGED <<port, portList, sock, queue, buffer, reached, pc, at, list, job, quiet>>
  BY DEF Start, servers, threads
<1>2. /\ starts' \in [Procs -> 0 .. MaxStarts]
      /\ phase' \in [Procs -> {"off", "probe", "look", "up"}] /\ pos' \in [Procs -> Nat]
  BY <1>1, NetworkAssumption DEF IInv, TypeOK
<1>3. Came' /\ NoEcho' /\ OwnPortOut'
  BY <1>1 DEF IInv, Came, NoEcho, OwnPortOut
<1>4. UpOnly'
  BY <1>1 DEF IInv, TypeOK, UpOnly, Start
<1> QED BY <1>1, <1>2, <1>3, <1>4 DEF IInv, TypeOK, Good, Connections

LEMMA ProbePortGood ==
  ASSUME IInv, NEW p \in Procs, ProbePort(p), UNCHANGED foreign
  PROVE  Good
<1>1. pos[p] \in DOMAIN PORTS /\ PORTS[pos[p]] \in Ports
  BY PortOf DEF ProbePort
<1>2. Connect(PORTS[pos[p]], Probe) \/ Refused(PORTS[pos[p]])
  BY DEF ProbePort, Accepting
<1>3. /\ queue' \in [Procs -> Seq(Connections)]
      /\ UNCHANGED <<sock, buffer, reached>>
      /\ \A q \in Procs : Elements(queue'[q]) \subseteq reached[q] \cup {Probe}
  BY <1>2, ProbeKeeps
<1>4. \/ pos' = [pos EXCEPT ![p] = @ + 1] /\ UNCHANGED <<port, phase>>
      \/ Chosen(p, PORTS[pos[p]])
  BY DEF ProbePort, Accepting
<1>5. phase[p] = "probe" /\ UNCHANGED <<starts, portList, threads, quiet>>
  BY DEF ProbePort
<1>6. \A c \in Threads : home[c] = p => pc[c] = "idle" /\ list[c] = <<>>
  BY <1>5, NetworkAssumption DEF IInv, UpOnly
<1>7. portList[p] = <<>> /\ sock[p] = "closed"
  BY <1>5 DEF IInv, UpOnly, TypeOK
<1>8. OwnPortOut'
  BY ZenonT(60), <1>1, <1>4, <1>5, <1>6, <1>7, EmptyElements, NetworkAssumption
     DEF IInv, TypeOK, OwnPortOut, Chosen, threads
<1>9. /\ UpOnly' /\ pos' \in [Procs -> Nat]
      /\ phase' \in [Procs -> {"off", "probe", "look", "up"}]
      /\ port' \in [Procs -> {0} \cup Ports \cup Fallthrough]
  <2>1. CASE pos' = [pos EXCEPT ![p] = @ + 1] /\ UNCHANGED <<port, phase>>
    BY <2>1, <1>3, <1>5 DEF IInv, TypeOK, UpOnly, threads
  <2>2. CASE Chosen(p, PORTS[pos[p]])
    <3>1. phase' = [phase EXCEPT ![p] = "look"]
      BY <2>2 DEF Chosen
    <3>2. UpOnly'
      BY <3>1, <1>3, <1>5, <1>6, <1>7, NetworkAssumption DEF IInv, TypeOK, UpOnly, threads
    <3> QED BY <2>2, <3>2, <1>1 DEF IInv, TypeOK, Chosen
  <2> QED BY <1>4, <2>1, <2>2
<1>10. Came' /\ NoEcho'
  BY <1>3 DEF IInv, Came, NoEcho
<1> QED BY <1>3, <1>5, <1>8, <1>9, <1>10 DEF IInv, TypeOK, Good, threads

LEMMA NoPortGood ==
  ASSUME IInv, NEW p \in Procs, NoPort(p), UNCHANGED foreign
  PROVE  Good
<1>1. PICK any \in Fallthrough : Chosen(p, any)
  BY DEF NoPort
<1>2. \A c \in Threads : home[c] = p => pc[c] = "idle" /\ list[c] = <<>>
  BY NetworkAssumption DEF IInv, UpOnly, NoPort
<1>3. portList[p] = <<>> /\ sock[p] = "closed"
  BY DEF IInv, UpOnly, TypeOK, NoPort
<1>4. OwnPortOut'
  BY <1>1, <1>2, <1>3, EmptyElements, NetworkAssumption
     DEF IInv, TypeOK, OwnPortOut, Chosen, threads, NoPort
<1>5. UpOnly'
  BY <1>1, <1>2, <1>3, NetworkAssumption DEF IInv, TypeOK, UpOnly, Chosen, threads, servers, NoPort
<1> QED BY <1>1, <1>4, <1>5 DEF IInv, TypeOK, Good, Chosen, threads, servers, NoPort, Came, NoEcho, Connections

(* A scan lists the ports that answer, but for the one of the process.     *)
LEMMA FoundProperties ==
  ASSUME IInv, NEW p \in Procs, NEW to \in Ports,
         Found(p, to) \/ UNCHANGED portList
  PROVE  /\ portList' \in [Procs -> Seq(Ports)]
         /\ \A q \in Procs : port[q] \notin Elements(portList'[q])
         /\ \A q \in Procs : q # p => portList'[q] = portList[q]
<1>1. portList \in [Procs -> Seq(Ports)] /\ portList[p] \in Seq(Ports)
  BY DEF IInv, TypeOK
<1> DEFINE longer == Append(portList[p], to)
<1>2. longer \in Seq(Ports) /\ Elements(longer) \subseteq Elements(portList[p]) \cup {to}
  BY <1>1, AppendElements
<1>3. UNCHANGED portList \/ (to # port[p] /\ portList' = [portList EXCEPT ![p] = longer])
  BY DEF Found
<1> HIDE DEF longer
<1>4. CASE UNCHANGED portList
  BY <1>1, <1>4 DEF IInv, OwnPortOut
<1>5. CASE to # port[p] /\ portList' = [portList EXCEPT ![p] = longer]
  <2>1. portList'[p] = longer /\ \A q \in Procs : q # p => portList'[q] = portList[q]
    BY <1>1, <1>5
  <2>2. port[p] \notin Elements(longer)
    BY <1>2, <1>5 DEF IInv, OwnPortOut
  <2>3. portList' \in [Procs -> Seq(Ports)]
    BY <1>1, <1>2, <1>5
  <2> QED BY <2>1, <2>2, <2>3 DEF IInv, OwnPortOut
<1> QED BY <1>3, <1>4, <1>5

LEMMA LookGood ==
  ASSUME IInv, NEW p \in Procs, Look(p), UNCHANGED foreign
  PROVE  Good
<1>1. pos[p] \in DOMAIN PORTS /\ PORTS[pos[p]] \in Ports /\ pos[p] \in Nat
  BY PortOf DEF Look
<1>2. /\ Connect(PORTS[pos[p]], Probe) \/ Refused(PORTS[pos[p]])
      /\ Found(p, PORTS[pos[p]]) \/ UNCHANGED portList
  BY DEF Look, Accepting
<1>3. /\ queue' \in [Procs -> Seq(Connections)]
      /\ UNCHANGED <<sock, buffer, reached>>
      /\ \A q \in Procs : Elements(queue'[q]) \subseteq reached[q] \cup {Probe}
  BY <1>2, ProbeKeeps
<1>4. /\ portList' \in [Procs -> Seq(Ports)]
      /\ \A q \in Procs : port[q] \notin Elements(portList'[q])
      /\ \A q \in Procs : q # p => portList'[q] = portList[q]
  BY <1>1, <1>2, FoundProperties
<1>5. /\ phase[p] = "look" /\ pos' = [pos EXCEPT ![p] = @ + 1]
      /\ UNCHANGED <<starts, phase, port, threads, quiet>>
  BY DEF Look
<1> QED BY <1>1, <1>3, <1>4, <1>5 DEF IInv, TypeOK, Good, UpOnly, OwnPortOut, Came, NoEcho, threads

LEMMA UpGood ==
  ASSUME IInv, NEW p \in Procs, Up(p), UNCHANGED foreign
  PROVE  Good
BY NetworkAssumption DEF IInv, Up, Good, TypeOK, UpOnly, OwnPortOut, Came, NoEcho, servers, threads, Connections

LEMMA ServerGood ==
  ASSUME IInv, NEW p \in Procs, Server(p), UNCHANGED foreign
  PROVE  Good
<1> USE DEF IInv, Good, TypeOK, UpOnly, OwnPortOut, Came, NoEcho, mains, threads, Connections
<1>1. CASE Reopen(p)
  BY <1>1, EmptySeq, EmptyElements, NetworkAssumption DEF Reopen
<1>2. CASE Listen(p)
  BY <1>2 DEF Listen
<1>3. CASE Accept(p)
  <2> DEFINE rest == Tail(queue[p])
             first == Head(queue[p])
  <2>1. queue[p] \in Seq(Connections) /\ queue[p] # <<>>
    BY <1>3 DEF Accept
  <2>2. /\ first \in Connections /\ first \in Elements(queue[p])
        /\ rest \in Seq(Connections) /\ Len(rest) = Len(queue[p]) - 1
        /\ Elements(rest) \subseteq Elements(queue[p])
    BY <2>1, TailElements
  <2>3. /\ sock[p] = "accept" /\ sock' = [sock EXCEPT ![p] = "handle"]
        /\ queue' = [queue EXCEPT ![p] = rest]
        /\ buffer' = [buffer EXCEPT ![p] = IF first = Probe THEN @ ELSE first]
        /\ UNCHANGED <<starts, phase, port, pos, portList, reached, pc, at, list, job, quiet>>
    BY <1>3 DEF Accept
  <2> HIDE DEF rest, first
  <2>6. first = Probe \/ first \in reached[p]
    BY <2>2
  <2>7. /\ queue' \in [Procs -> Seq(Connections)]
        /\ \A q \in Procs : Elements(queue'[q]) \subseteq reached[q] \cup {Probe}
    BY ZenonT(60), <2>2, <2>3
  <2>8. /\ buffer' \in [Procs -> Messages \cup {Nothing}]
        /\ \A q \in Procs : buffer'[q] \in reached[q] \cup {Nothing}
    BY <2>2, <2>3, <2>6
  <2> QED BY <2>3, <2>7, <2>8
<1> QED BY <1>1, <1>2, <1>3 DEF Server

LEMMA BeginGood ==
  ASSUME IInv, NEW c \in Threads, Begin(c), UNCHANGED foreign
  PROVE  Good
<1>1. /\ job[c].n \in 0 .. MaxScans /\ job[c].n < MaxScans /\ MaxScans \in Nat
      /\ (c \notin Payers) \in BOOLEAN
  BY NetworkAssumption DEF IInv, TypeOK, Begin
<1>2. job[c].n + 1 \in 0 .. MaxScans /\ job[c].n + 1 >= 1
  BY <1>1
<1>3. /\ job' \in [Threads -> [n : 0 .. MaxScans, broadcast : BOOLEAN]]
      /\ job'[c].n >= 1
  BY <1>1, <1>2 DEF IInv, TypeOK, Begin
<1>4. UpOnly'
  BY <1>3 DEF IInv, TypeOK, UpOnly, Begin, Step, mains, servers
<1> QED BY <1>3, <1>4 DEF IInv, Begin, Good, TypeOK, OwnPortOut, Came, NoEcho, mains, servers, Step, Connections

LEMMA ClearGood ==
  ASSUME IInv, NEW c \in Threads, Clear(c), UNCHANGED foreign
  PROVE  Good
BY ZenonT(60), NetworkAssumption, EmptySeq, EmptyElements
   DEF IInv, Clear, Good, TypeOK, UpOnly, OwnPortOut, Came, NoEcho, mains, servers, Step, Connections

LEMMA ScanGood ==
  ASSUME IInv, NEW c \in Threads, Scan(c), UNCHANGED foreign
  PROVE  Good
<1>1. at[c] \in DOMAIN PORTS /\ PORTS[at[c]] \in Ports /\ at[c] \in Nat /\ home[c] \in Procs
  BY PortOf, NetworkAssumption DEF Scan
<1>2. /\ Connect(PORTS[at[c]], Probe) \/ Refused(PORTS[at[c]])
      /\ Found(home[c], PORTS[at[c]]) \/ UNCHANGED portList
  BY DEF Scan, Accepting
<1>3. /\ queue' \in [Procs -> Seq(Connections)]
      /\ UNCHANGED <<sock, buffer, reached>>
      /\ \A q \in Procs : Elements(queue'[q]) \subseteq reached[q] \cup {Probe}
  BY <1>2, ProbeKeeps
<1>4. /\ portList' \in [Procs -> Seq(Ports)]
      /\ \A q \in Procs : port[q] \notin Elements(portList'[q])
      /\ \A q \in Procs : q # home[c] => portList'[q] = portList[q]
  BY <1>1, <1>2, FoundProperties
<1>5. /\ pc[c] = "scan" /\ Step(c, "scan", at[c] + 1)
      /\ UNCHANGED <<starts, phase, port, pos, list, job, quiet>>
  BY DEF Scan, mains
<1>6. phase[home[c]] = "up"
  BY <1>5 DEF IInv, UpOnly
<1>7. at[c] + 1 \in Nat
  BY <1>1
<1>8. UpOnly'
  BY <1>1, <1>3, <1>4, <1>5, <1>6 DEF IInv, TypeOK, UpOnly, Step
<1>9. OwnPortOut' /\ Came' /\ NoEcho'
  BY <1>3, <1>4, <1>5 DEF IInv, OwnPortOut, Came, NoEcho
<1> QED BY <1>3, <1>4, <1>5, <1>7, <1>8, <1>9 DEF IInv, TypeOK, Good, Step

LEMMA ScanEndsGood ==
  ASSUME IInv, NEW c \in Threads, ScanEnds(c), UNCHANGED foreign
  PROVE  Good
<1>1. /\ job' \in [Threads -> [n : 0 .. MaxScans, broadcast : BOOLEAN]]
      /\ \A d \in Threads : job'[d].n = job[d].n
  <2>1. job \in [Threads -> [n : 0 .. MaxScans, broadcast : BOOLEAN]]
    BY DEF IInv, TypeOK
  <2>2. job' = job \/ job' = [job EXCEPT ![c].broadcast = TRUE]
    BY DEF ScanEnds
  <2> QED BY ZenonT(60), <2>1, <2>2
<1>2. /\ pc[c] = "scan" /\ at' = [at EXCEPT ![c] = 0]
      /\ pc' = [pc EXCEPT ![c] = "copy"] \/ pc' = [pc EXCEPT ![c] = "clear"]
      /\ UNCHANGED <<mains, portList, servers, list, quiet>>
  BY DEF ScanEnds, Step
<1>3. UpOnly'
  BY <1>1, <1>2 DEF IInv, TypeOK, UpOnly, mains, servers
<1> QED BY <1>1, <1>2, <1>3 DEF IInv, Good, TypeOK, OwnPortOut, Came, NoEcho, mains, servers, Connections

LEMMA CopyGood ==
  ASSUME IInv, NEW c \in Threads, Copy(c), UNCHANGED foreign
  PROVE  Good
BY ZenonT(60), NetworkAssumption DEF IInv, Copy, Good, TypeOK, UpOnly, OwnPortOut, Came, NoEcho, mains, servers, Step, Connections

(* The port a thread sends to is not that of its process.                  *)
LEMMA SendGood ==
  ASSUME IInv, NEW c \in Threads, Send(c), UNCHANGED foreign
  PROVE  Good
<1> DEFINE to == list[c][at[c]]
<1>1. home[c] \in Procs /\ to # port[home[c]] /\ at[c] \in Nat
  BY NetworkAssumption DEF Send, IInv, TypeOK, OwnPortOut, Elements
<1>2. Message(c) \in Messages /\ Message(c).from = c
  BY DEF Send, IInv, TypeOK, UpOnly, Message, Messages
<1>3. /\ pc[c] = "send" /\ Step(c, "send", at[c] + 1)
      /\ UNCHANGED <<starts, phase, port, pos, portList, list, job, quiet>>
      /\ Connect(to, Message(c)) \/ Refused(to)
  BY DEF Send, mains
<1> HIDE DEF to
<1>4. /\ queue' \in [Procs -> Seq(Connections)]
      /\ reached' \in [Procs -> SUBSET Messages]
      /\ UNCHANGED <<sock, buffer>>
      /\ \A p \in Procs : Elements(queue'[p]) \subseteq reached'[p] \cup {Probe}
      /\ \A p \in Procs : /\ reached[p] \subseteq reached'[p]
                          /\ \A m \in reached'[p] : m \in reached[p] \/ (m = Message(c) /\ port[p] = to)
  <2>1. CASE Refused(to)
    BY <2>1 DEF IInv, TypeOK, Came, Refused, servers, Connections
  <2>2. CASE Connect(to, Message(c))
    <3>1. Message(c) \in Connections
      BY <1>2 DEF Connections
    <3> QED BY <2>2, <3>1, ConnectProperties DEF IInv
  <2> QED BY <1>3, <2>1, <2>2
<1>5. NoEcho'
  <2> SUFFICES ASSUME NEW p \in Procs
               PROVE  /\ \A m \in reached'[p] : home[m.from] # p
                      /\ buffer'[p] \in reached'[p] \cup {Nothing}
    BY DEF NoEcho
  <2>1. ASSUME NEW m \in reached'[p] PROVE home[m.from] # p
    <3>1. CASE m \in reached[p]
      BY <3>1 DEF IInv, NoEcho
    <3>2. CASE m = Message(c) /\ port[p] = to
      BY <1>1, <1>2, <3>2
    <3> QED BY <1>4, <2>1, <3>1, <3>2
  <2>2. buffer'[p] \in reached'[p] \cup {Nothing}
    BY <1>4 DEF IInv, NoEcho
  <2> QED BY <2>1, <2>2
<1> QED BY SMTT(30), <1>1, <1>3, <1>4, <1>5 DEF IInv, TypeOK, Good, UpOnly, OwnPortOut, Came, Step

LEMMA SendEndsGood ==
  ASSUME IInv, NEW c \in Threads, SendEnds(c), UNCHANGED foreign
  PROVE  Good
BY NetworkAssumption, EmptySeq, EmptyElements
   DEF IInv, SendEnds, Good, TypeOK, UpOnly, OwnPortOut, Came, NoEcho, mains, servers, Step, Connections

LEMMA EndGood ==
  ASSUME IInv, NEW p \in Procs, End(p), UNCHANGED foreign
  PROVE  Good
<1> USE DEF IInv, End, TypeOK
<1>1. UpOnly' /\ Came' /\ NoEcho'
  BY NetworkAssumption, EmptyElements DEF UpOnly, Came, NoEcho
<1>2. OwnPortOut'
  BY NetworkAssumption, EmptyElements DEF OwnPortOut
<1> QED BY SMTT(30), <1>1, <1>2, EmptySeq, NetworkAssumption DEF Good, Connections

LEMMA NextIInv == IInv /\ [Next]_vars => IInv'
<1> SUFFICES ASSUME IInv, [Next]_vars PROVE IInv'
  OBVIOUS
<1>1. ASSUME NEW p \in Procs, Start(p) \/ Main(p) \/ Server(p) \/ End(p), Rest PROVE IInv'
  <2>1. Good
    BY <1>1, StartGood, ProbePortGood, NoPortGood, LookGood, UpGood, ServerGood, EndGood DEF Main, Rest
  <2> QED BY <1>1, <2>1, GoodIInv DEF Rest
<1>2. ASSUME NEW c \in Threads, Begin(c) \/ Inside(c), Rest PROVE IInv'
  <2>1. Good
    BY <1>2, BeginGood, ClearGood, ScanGood, ScanEndsGood, CopyGood, SendGood, SendEndsGood DEF Inside, Rest
  <2> QED BY <1>2, <2>1, GoodIInv DEF Rest
<1>3. CASE UNCHANGED vars
  BY <1>3 DEF vars, mains, servers, threads, IInv, TypeOK, UpOnly, OwnPortOut, Came, NoEcho
<1> QED BY <1>1, <1>2, <1>3 DEF Next

LEMMA SpecIInv == Spec => []IInv
BY InitIInv, NextIInv, PTL DEF Spec

(* Types; in particular every port in a list is one of Config.h.           *)
THEOREM NetworkTypeCorrect == Spec => []TypeOK
<1>1. IInv => TypeOK
  BY DEF IInv
<1> QED BY <1>1, SpecIInv, PTL

(* What the server of a process reads never comes from the process itself. *)
THEOREM NothingComesBack == Spec => []NoEcho
<1>1. IInv => NoEcho
  BY DEF IInv
<1> QED BY <1>1, SpecIInv, PTL

-----------------------------------------------------------------------------
(* What a broadcast comes to.                                              *)

(* The processes that a thread's broadcast owes its message, as long as no *)
(* other thread has cleared the list under its scan.                       *)
Owed(c) == {p \in steady[c] : port[p] \in Ports /\ port[p] # port[home[c]]}

(* A scan has listed those whose ports it has passed, the copy lists them  *)
(* all, and the message has come to those whose places in the copy have    *)
(* been passed.                                                            *)
Served(c, p) ==
  /\ pc[c] = "scan" =>
       \A i \in DOMAIN PORTS : i < at[c] /\ PORTS[i] = port[p] => port[p] \in Elements(portList[home[c]])
  /\ pc[c] = "copy" => port[p] \in Elements(portList[home[c]])
  /\ pc[c] = "send" =>
       /\ port[p] \in Elements(list[c])
       /\ \A k \in DOMAIN list[c] : k < at[c] /\ list[c][k] = port[p] => Message(c) \in reached[p]

Watched ==
  \A c \in Threads : /\ steady[c] \subseteq Reachable
                     /\ pc[c] \in {"idle", "clear"} => steady[c] = {}
                     /\ pc[c] \in {"scan", "send"} => at[c] >= 1

Arriving == Watched /\ \A c \in quiet : \A p \in Owed(c) : Served(c, p)

(* An element that is appended is there, and so is what was there before.  *)
LEMMA AppendKeeps ==
  ASSUME NEW S, NEW s \in Seq(S), NEW e \in S
  PROVE  Elements(s) \cup {e} \subseteq Elements(Append(s, e))
<1>1. /\ DOMAIN s = 1 .. Len(s) /\ Len(s) \in Nat
      /\ DOMAIN Append(s, e) = 1 .. Len(s) + 1
      /\ \A i \in 1 .. Len(s) : Append(s, e)[i] = s[i]
      /\ Append(s, e)[Len(s) + 1] = e
  BY AppendProperties, LenProperties
<1>2. Len(s) + 1 \in DOMAIN Append(s, e) /\ \A i \in DOMAIN s : i \in DOMAIN Append(s, e)
  BY <1>1
<1> QED BY <1>1, <1>2 DEF Elements

(* Who is watched after a step can be reached then, and, unless the scan   *)
(* has just begun, was watched and could be reached before.                *)
LEMMA WatchedBefore ==
  ASSUME IInv, Watched, Watch, NEW c \in Threads, NEW p \in steady'[c]
  PROVE  /\ pc'[c] \notin {"idle", "clear"} /\ p \in Procs /\ p \in Reachable'
         /\ pc[c] # "clear" => p \in steady[c] /\ p \in Reachable
<1>1. steady'[c] = IF pc'[c] \in {"idle", "clear"} THEN {}
                   ELSE (IF pc[c] = "clear" THEN Procs ELSE steady[c]) \cap Reachable'
  BY DEF Watch
<1>2. pc'[c] \notin {"idle", "clear"} /\ p \in Reachable' /\ (pc[c] # "clear" => p \in steady[c])
  BY <1>1
<1>3. p \in Procs
  BY <1>2 DEF Reachable
<1> QED BY <1>2, <1>3 DEF Watched

(* A step keeps the port of a process that is up, unless it ends it.       *)
LEMMA PortKept ==
  ASSUME IInv, NEW q \in Procs, Start(q) \/ Main(q) \/ Server(q),
         NEW p \in Procs, phase[p] = "up"
  PROVE  port'[p] = port[p]
<1>1. CASE Start(q) \/ Look(q) \/ Up(q) \/ Server(q)
  BY <1>1 DEF Start, Look, Up, Server, Reopen, Listen, Accept, mains
<1>2. CASE ProbePort(q) \/ NoPort(q)
  <2>1. phase[q] = "probe" /\ (port' = port \/ \E choice : port' = [port EXCEPT ![q] = choice])
    BY <1>2 DEF ProbePort, NoPort, Accepting, Chosen
  <2>2. q # p
    BY <2>1
  <2> QED BY <2>1, <2>2 DEF IInv, TypeOK
<1> QED BY <1>1, <1>2 DEF Main

LEMMA ReachableUp ==
  ASSUME IInv, NEW p \in Reachable
  PROVE  p \in Procs /\ phase[p] = "up"
BY DEF IInv, UpOnly, Reachable, WithRoom, Listeners, Listens

(* A connection reaches a process that is alone at its port and has room.  *)
LEMMA Reaches ==
  ASSUME IInv, NEW p \in Reachable, NEW what
  PROVE  /\ ~Refused(port[p])
         /\ Connect(port[p], what) /\ what \in Messages => what \in reached'[p]
<1>1. /\ port[p] \notin foreign /\ p \in WithRoom(port[p]) /\ WithRoom(port[p]) \subseteq {p}
      /\ p \in Procs
  BY DEF Reachable, WithRoom
<1>2. ASSUME Connect(port[p], what), what \in Messages PROVE what \in reached'[p]
  BY <1>1, <1>2 DEF Connect, IInv, TypeOK
<1> QED BY <1>1, <1>2 DEF Refused

(* What comes to a socket is only ever added to.                           *)
LEMMA ConnectAdds ==
  ASSUME IInv, NEW to, NEW what, Connect(to, what) \/ Refused(to), NEW p \in Procs
  PROVE  reached[p] \subseteq reached'[p]
BY DEF IInv, TypeOK, Connect, Refused, servers, WithRoom, Listeners

(* A list is only ever added to but by a clear and by the end.             *)
LEMMA FoundAdds ==
  ASSUME IInv, NEW q \in Procs, NEW to \in Ports, Found(q, to) \/ UNCHANGED portList,
         NEW p \in Procs
  PROVE  /\ Elements(portList[p]) \subseteq Elements(portList'[p])
         /\ Found(q, to) /\ to # port[q] => to \in Elements(portList'[q])
<1>1. portList \in [Procs -> Seq(Ports)] /\ portList[q] \in Seq(Ports)
  BY DEF IInv, TypeOK
<1> DEFINE longer == Append(portList[q], to)
<1>2. Elements(portList[q]) \cup {to} \subseteq Elements(longer)
  BY <1>1, AppendKeeps
<1>3. UNCHANGED portList \/ portList' = [portList EXCEPT ![q] = longer]
  BY DEF Found
<1>4. Found(q, to) /\ to # port[q] => portList' = [portList EXCEPT ![q] = longer]
  BY DEF Found
<1> HIDE DEF longer
<1> QED BY <1>1, <1>2, <1>3, <1>4

(* What a broadcast is owed does not depend on the steps of others, unless *)
(* they clear the list.                                                    *)
LEMMA OthersServe ==
  ASSUME NEW c \in Threads, NEW p \in Procs, Served(c, p),
         pc'[c] = pc[c], at'[c] = at[c], list'[c] = list[c], job'[c] = job[c],
         port'[p] = port[p],
         Elements(portList[home[c]]) \subseteq Elements(portList'[home[c]]),
         reached[p] \subseteq reached'[p]
  PROVE  Served(c, p)'
BY DEF Served, Message

LEMMA ProcStepServes ==
  ASSUME IInv, Arriving, NEW q \in Procs, Start(q) \/ Main(q) \/ Server(q) \/ End(q), Watch,
         NEW c \in quiet', NEW p \in Owed(c)'
  PROVE  Served(c, p)'
<1>1. c \in Threads /\ home[c] \in Procs /\ p \in steady'[c] /\ p \in Procs
  <2>1. quiet' \subseteq quiet
    BY DEF Start, Main, ProbePort, NoPort, Look, Up, Server, Reopen, Listen, Accept, End
  <2>2. c \in Threads
    BY <2>1 DEF IInv, TypeOK
  <2>3. p \in steady'[c]
    BY DEF Owed
  <2> QED BY <2>2, <2>3, WatchedBefore, NetworkAssumption DEF Arriving
<1>2. /\ pc'[c] \notin {"idle", "clear"} /\ p \in Reachable'
      /\ pc[c] # "clear" => p \in steady[c] /\ p \in Reachable
  BY <1>1, WatchedBefore DEF Arriving
<1>3. CASE End(q)
  <2>1. q # home[c]
    BY <1>1, <1>2, <1>3 DEF End
  <2>2. q # p
    <3>1. q = p => sock'[p] = "closed"
      BY <1>1, <1>3 DEF End, IInv, TypeOK
    <3> QED BY <1>2, <3>1 DEF Reachable, WithRoom, Listeners, Listens
  <2>3. /\ pc'[c] = pc[c] /\ at'[c] = at[c] /\ list'[c] = list[c] /\ job'[c] = job[c]
        /\ c \in quiet
    BY <1>1, <1>3, <2>1 DEF End
  <2>4. /\ port'[p] = port[p] /\ port'[home[c]] = port[home[c]] /\ reached'[p] = reached[p]
        /\ portList'[home[c]] = portList[home[c]]
    BY <1>1, <1>3, <2>1, <2>2 DEF End, IInv, TypeOK
  <2>5. p \in Owed(c)
    BY <1>2, <2>3, <2>4 DEF Owed
  <2> QED BY <1>1, <2>3, <2>4, <2>5, OthersServe DEF Arriving
<1>4. CASE Start(q) \/ Main(q) \/ Server(q)
  <2>1. UNCHANGED <<threads, quiet>>
    BY <1>4 DEF Start, Main, ProbePort, NoPort, Look, Up, Server, Reopen, Listen, Accept
  <2>2. /\ pc'[c] = pc[c] /\ at'[c] = at[c] /\ list'[c] = list[c] /\ job'[c] = job[c]
        /\ c \in quiet
    BY <2>1 DEF threads
  <2>3. p \in steady[c] /\ p \in Reachable
    BY <1>2, <2>2
  <2>4. phase[p] = "up" /\ phase[home[c]] = "up"
    BY <1>1, <1>2, <2>2, <2>3, ReachableUp DEF IInv, UpOnly
  <2>5. port'[p] = port[p] /\ port'[home[c]] = port[home[c]]
    BY <1>1, <1>4, <2>4, PortKept
  <2>6. reached[p] \subseteq reached'[p]
    <3>1. CASE Start(q) \/ NoPort(q) \/ Up(q) \/ Server(q)
      BY <3>1 DEF Start, NoPort, Up, Server, Reopen, Listen, Accept, servers
    <3>2. CASE ProbePort(q) \/ Look(q)
      <4>1. \E to : Connect(to, Probe) \/ Refused(to)
        BY <3>2 DEF ProbePort, Look, Accepting
      <4> QED BY <1>1, <4>1, ConnectAdds
    <3> QED BY <1>4, <3>1, <3>2 DEF Main
  <2>7. Elements(portList[home[c]]) \subseteq Elements(portList'[home[c]])
    <3>1. CASE Start(q) \/ ProbePort(q) \/ NoPort(q) \/ Up(q) \/ Server(q)
      BY <3>1 DEF Start, ProbePort, NoPort, Up, Server, Reopen, Listen, Accept
    <3>2. CASE Look(q)
      <4>1. pos[q] \in DOMAIN PORTS /\ (Found(q, PORTS[pos[q]]) \/ UNCHANGED portList)
        BY <3>2 DEF Look, Accepting
      <4>2. PORTS[pos[q]] \in Ports
        BY <4>1, PortOf
      <4> QED BY <1>1, <4>1, <4>2, FoundAdds
    <3> QED BY <1>4, <3>1, <3>2 DEF Main
  <2>8. p \in Owed(c)
    BY <2>3, <2>5 DEF Owed
  <2> QED BY <1>1, <2>2, <2>5, <2>6, <2>7, <2>8, OthersServe DEF Arriving
<1> QED BY <1>3, <1>4

(* The steps of the other threads.                                         *)
LEMMA ThreadStepServes ==
  ASSUME IInv, Arriving, NEW d \in Threads, Begin(d) \/ Inside(d), Watch,
         NEW c \in quiet', c # d, NEW p \in Owed(c)'
  PROVE  Served(c, p)'
<1>1. c \in quiet /\ c \in Threads
  <2>1. quiet' \subseteq quiet \cup {d}
    BY DEF Begin, Inside, Clear, Scan, ScanEnds, Copy, Send, SendEnds
  <2> QED BY <2>1 DEF IInv, TypeOK
<1>2. p \in steady'[c] /\ home[c] \in Procs /\ home[d] \in Procs
  BY <1>1, NetworkAssumption DEF Owed
<1>3. /\ pc'[c] = pc[c] /\ at'[c] = at[c] /\ list'[c] = list[c] /\ job'[c] = job[c]
  BY <1>1 DEF IInv, TypeOK, Begin, Inside, Clear, Scan, ScanEnds, Copy, Send, SendEnds, Step
<1>4. p \in Procs /\ p \in steady[c] /\ p \in Reachable
  BY <1>1, <1>2, <1>3, WatchedBefore DEF Arriving
<1>5. UNCHANGED port
  BY DEF Begin, Inside, Clear, Scan, ScanEnds, Copy, Send, SendEnds, mains
<1>6. reached[p] \subseteq reached'[p]
  <2>1. CASE Begin(d) \/ Clear(d) \/ ScanEnds(d) \/ Copy(d) \/ SendEnds(d)
    BY <2>1 DEF Begin, Clear, ScanEnds, Copy, SendEnds, servers
  <2>2. CASE Scan(d) \/ Send(d)
    <3>1. \E to, what : Connect(to, what) \/ Refused(to)
      BY <2>2 DEF Scan, Send, Accepting
    <3> QED BY <1>4, <3>1, ConnectAdds
  <2> QED BY <2>1, <2>2 DEF Inside
<1>7. Elements(portList[home[c]]) \subseteq Elements(portList'[home[c]])
  <2>1. CASE Begin(d) \/ ScanEnds(d) \/ Copy(d) \/ Send(d) \/ SendEnds(d)
    BY <2>1 DEF Begin, ScanEnds, Copy, Send, SendEnds
  <2>2. CASE Clear(d)
    <3>1. home[c] # home[d]
      BY <1>1, <2>2 DEF Clear
    <3> QED BY <1>2, <2>2, <3>1 DEF Clear, IInv, TypeOK
  <2>3. CASE Scan(d)
    <3>1. at[d] \in DOMAIN PORTS /\ (Found(home[d], PORTS[at[d]]) \/ UNCHANGED portList)
      BY <2>3 DEF Scan, Accepting
    <3>2. PORTS[at[d]] \in Ports
      BY <3>1, PortOf
    <3> QED BY <1>2, <3>1, <3>2, FoundAdds
  <2> QED BY <2>1, <2>2, <2>3 DEF Inside
<1>8. p \in Owed(c)
  BY <1>4, <1>5 DEF Owed
<1> QED BY <1>1, <1>3, <1>4, <1>5, <1>6, <1>7, <1>8, OthersServe DEF Arriving

(* The steps of the thread itself.                                         *)
LEMMA OwnScanServes ==
  ASSUME IInv, Arriving, NEW c \in Threads, Scan(c), Watch,
         c \in quiet', NEW p \in Owed(c)'
  PROVE  Served(c, p)'
<1> DEFINE to == PORTS[at[c]]
           here == home[c]
<1>1. at[c] \in DOMAIN PORTS /\ to \in Ports /\ at[c] \in Nat /\ here \in Procs
  BY PortOf, NetworkAssumption DEF Scan
<1>2. /\ pc[c] = "scan" /\ c \in quiet /\ pc' = [pc EXCEPT ![c] = "scan"]
      /\ at' = [at EXCEPT ![c] = at[c] + 1]
      /\ UNCHANGED port
  BY DEF Scan, Step, mains
<1>3. \/ Connect(to, Probe) /\ Found(here, to)
      \/ Refused(to) /\ UNCHANGED portList
  BY DEF Scan, Accepting
<1>4. pc'[c] = "scan" /\ at'[c] = at[c] + 1
  BY <1>2 DEF IInv, TypeOK
<1>5. p \in Procs /\ p \in steady[c] /\ p \in Reachable
  BY <1>2, WatchedBefore DEF Arriving, Owed
<1>6. p \in Owed(c) /\ port[p] # port[here]
  BY <1>2, <1>5 DEF Owed
<1>7. \A i \in DOMAIN PORTS : i < at[c] /\ PORTS[i] = port[p] => port[p] \in Elements(portList[here])
  BY <1>2, <1>6 DEF Arriving, Served
<1> HIDE DEF to, here
<1>8. /\ Elements(portList[here]) \subseteq Elements(portList'[here])
      /\ Found(here, to) /\ to # port[here] => to \in Elements(portList'[here])
  BY <1>1, <1>3, FoundAdds
<1>9. to = port[p] => to \in Elements(portList'[here])
  BY <1>3, <1>5, <1>6, <1>8, Reaches
<1>10. ASSUME NEW i \in DOMAIN PORTS, i < at[c] + 1, PORTS[i] = port[p]
       PROVE  port[p] \in Elements(portList'[here])
  <2>1. i \in Nat
    BY PortOf
  <2>2. CASE i < at[c]
    BY <1>7, <1>8, <1>10, <2>2
  <2>3. CASE i = at[c]
    BY <1>9, <1>10, <2>3 DEF to
  <2> QED BY <1>1, <1>10, <2>1, <2>2, <2>3
<1> QED BY <1>2, <1>4, <1>10 DEF Served, here

LEMMA OwnSendServes ==
  ASSUME IInv, Arriving, NEW c \in Threads, Send(c), Watch,
         c \in quiet', NEW p \in Owed(c)'
  PROVE  Served(c, p)'
<1> DEFINE to == list[c][at[c]]
<1>1. /\ pc[c] = "send" /\ c \in quiet /\ pc' = [pc EXCEPT ![c] = "send"]
      /\ at[c] \in DOMAIN list[c] /\ at' = [at EXCEPT ![c] = at[c] + 1]
      /\ UNCHANGED <<port, list, job>>
      /\ Connect(to, Message(c)) \/ Refused(to)
  BY DEF Send, Step, mains
<1>2. pc'[c] = "send" /\ at'[c] = at[c] + 1 /\ at[c] \in Nat
  BY <1>1 DEF IInv, TypeOK
<1>3. p \in Procs /\ p \in steady[c] /\ p \in Reachable
  BY <1>1, WatchedBefore DEF Arriving, Owed
<1>4. p \in Owed(c)
  BY <1>1, <1>3 DEF Owed
<1>5. /\ port[p] \in Elements(list[c])
      /\ \A k \in DOMAIN list[c] : k < at[c] /\ list[c][k] = port[p] => Message(c) \in reached[p]
  BY <1>1, <1>4 DEF Arriving, Served
<1>6. Message(c) \in Messages
  BY <1>1 DEF IInv, TypeOK, UpOnly, Message, Messages
<1> HIDE DEF to
<1>7. reached[p] \subseteq reached'[p]
  BY <1>1, <1>3, ConnectAdds
<1>8. to = port[p] => Message(c) \in reached'[p]
  BY <1>1, <1>3, <1>6, Reaches
<1>9. ASSUME NEW k \in DOMAIN list[c], k < at[c] + 1, list[c][k] = port[p]
      PROVE  Message(c) \in reached'[p]
  <2>1. k \in Nat
    BY DEF IInv, TypeOK
  <2>2. CASE k < at[c]
    BY <1>5, <1>7, <1>9, <2>2
  <2>3. CASE k = at[c]
    BY <1>8, <1>9, <2>3 DEF to
  <2> QED BY <1>2, <1>9, <2>1, <2>2, <2>3
<1> QED BY <1>1, <1>2, <1>5, <1>9 DEF Served, Message

LEMMA OwnStepServes ==
  ASSUME IInv, Arriving, NEW c \in Threads, Begin(c) \/ Inside(c), Watch,
         c \in quiet', NEW p \in Owed(c)'
  PROVE  Served(c, p)'
<1>1. pc'[c] \notin {"idle", "clear"} /\ (pc[c] # "clear" => p \in steady[c] /\ p \in Reachable)
  BY WatchedBefore DEF Arriving, Owed
<1>2. CASE Begin(c) \/ SendEnds(c)
  BY <1>1, <1>2 DEF Begin, SendEnds, Step, IInv, TypeOK
<1>3. CASE Clear(c)
  <2>1. pc'[c] = "scan" /\ at'[c] = 1
    BY <1>3 DEF Clear, Step, IInv, TypeOK
  <2>2. \A i \in DOMAIN PORTS : ~(i < 1)
    <3>1. PORTS \in Seq(Nat \ {0})
      BY NetworkAssumption
    <3>2. DOMAIN PORTS = 1 .. Len(PORTS) /\ Len(PORTS) \in Nat
      BY <3>1, LenProperties
    <3> QED BY <3>2
  <2> QED BY <2>1, <2>2 DEF Served
<1>4. CASE Scan(c)
  BY <1>4, OwnScanServes
<1>5. CASE ScanEnds(c)
  <2>1. /\ pc[c] = "scan" /\ at[c] \notin DOMAIN PORTS /\ pc'[c] = "copy"
        /\ c \in quiet /\ UNCHANGED <<port, portList>>
    BY <1>1, <1>5 DEF ScanEnds, Step, IInv, TypeOK, mains
  <2>2. p \in Owed(c)
    BY <1>1, <2>1 DEF Owed
  <2>3. \A i \in DOMAIN PORTS : i < at[c] /\ PORTS[i] = port[p] => port[p] \in Elements(portList[home[c]])
    BY <2>1, <2>2 DEF Arriving, Served
  <2>4. PICK i \in DOMAIN PORTS : PORTS[i] = port[p]
    BY <2>2 DEF Owed, Ports, Range
  <2>5. i < at[c]
    <3>1. DOMAIN PORTS = 1 .. Len(PORTS) /\ Len(PORTS) \in Nat
      BY NetworkAssumption, LenProperties
    <3>2. at[c] \in Nat /\ at[c] >= 1
      BY <2>1 DEF Arriving, Watched, IInv, TypeOK
    <3> QED BY <2>1, <3>1, <3>2
  <2> QED BY <2>1, <2>3, <2>4, <2>5 DEF Served
<1>6. CASE Copy(c)
  <2>1. /\ pc[c] = "copy" /\ pc'[c] = "send" /\ at'[c] = 1
        /\ list'[c] = portList[home[c]] /\ c \in quiet /\ UNCHANGED port
    BY <1>6 DEF Copy, Step, IInv, TypeOK, mains
  <2>2. p \in Owed(c)
    BY <1>1, <2>1 DEF Owed
  <2>3. port[p] \in Elements(portList[home[c]])
    BY <2>1, <2>2 DEF Arriving, Served
  <2>4. \A k \in DOMAIN list'[c] : ~(k < 1)
    <3>1. home[c] \in Procs /\ portList[home[c]] \in Seq(Ports)
      BY NetworkAssumption DEF IInv, TypeOK
    <3>2. DOMAIN portList[home[c]] = 1 .. Len(portList[home[c]]) /\ Len(portList[home[c]]) \in Nat
      BY <3>1, LenProperties
    <3> QED BY <2>1, <3>2
  <2> QED BY <2>1, <2>3, <2>4 DEF Served
<1>7. CASE Send(c)
  BY <1>7, OwnSendServes
<1> QED BY <1>2, <1>3, <1>4, <1>5, <1>6, <1>7 DEF Inside

LEMMA StepWatched ==
  ASSUME IInv, Watched, Next
  PROVE  Watched'
<1> SUFFICES ASSUME NEW c \in Threads
             PROVE  /\ steady'[c] \subseteq Reachable'
                    /\ pc'[c] \in {"idle", "clear"} => steady'[c] = {}
                    /\ pc'[c] \in {"scan", "send"} => at'[c] >= 1
  BY DEF Watched
<1>1. steady'[c] \subseteq Reachable' /\ (pc'[c] \in {"idle", "clear"} => steady'[c] = {})
  BY DEF Next, Rest, Watch
<1>2. at[c] \in Nat /\ (pc[c] \in {"scan", "send"} => at[c] >= 1)
  BY DEF IInv, TypeOK, Watched
<1>3. ASSUME NEW q \in Procs, Start(q) \/ Main(q) \/ Server(q) PROVE UNCHANGED <<pc, at>>
  BY <1>3 DEF Start, Main, ProbePort, NoPort, Look, Up, Server, Reopen, Listen, Accept, threads
<1>4. ASSUME NEW q \in Procs, End(q) PROVE pc'[c] \in {"scan", "send"} => at'[c] >= 1
  BY <1>2, <1>4 DEF End
<1>5. ASSUME NEW d \in Threads, Begin(d) \/ Inside(d)
      PROVE  pc'[c] \in {"scan", "send"} => at'[c] >= 1
  <2>1. pc \in [Threads -> {"idle", "clear", "scan", "copy", "send"}] /\ at \in [Threads -> Nat]
    BY DEF IInv, TypeOK
  <2>2. \/ Step(d, "clear", 0) \/ Step(d, "scan", 1) \/ Step(d, "copy", 0) \/ Step(d, "send", 1)
        \/ Step(d, "idle", 0) \/ Step(d, "scan", at[d] + 1) \/ Step(d, "send", at[d] + 1)
    BY <1>5 DEF Begin, Inside, Clear, Scan, ScanEnds, Copy, Send, SendEnds
  <2> QED BY <1>2, <1>5, <2>1, <2>2 DEF Step
<1>6. \/ \E q \in Procs : Start(q) \/ Main(q) \/ Server(q) \/ End(q)
      \/ \E d \in Threads : Begin(d) \/ Inside(d)
  BY DEF Next
<1> QED BY <1>1, <1>2, <1>3, <1>4, <1>5, <1>6

LEMMA NextArriving == IInv /\ Arriving /\ [Next]_vars => Arriving'
<1> SUFFICES ASSUME IInv, Arriving, [Next]_vars PROVE Arriving'
  OBVIOUS
<1>1. CASE Next
  <2>1. Watched' /\ Watch
    BY <1>1, StepWatched DEF Arriving, Next, Rest
  <2>2. ASSUME NEW c \in quiet', NEW p \in Owed(c)' PROVE Served(c, p)'
    <3>1. ASSUME NEW q \in Procs, Start(q) \/ Main(q) \/ Server(q) \/ End(q)
          PROVE  Served(c, p)'
      BY <2>1, <2>2, <3>1, ProcStepServes
    <3>2. ASSUME NEW d \in Threads, Begin(d) \/ Inside(d)
          PROVE  Served(c, p)'
      BY <2>1, <2>2, <3>2, ThreadStepServes, OwnStepServes
    <3> QED BY <1>1, <3>1, <3>2 DEF Next
  <2> QED BY <2>1, <2>2 DEF Arriving
<1>2. CASE UNCHANGED vars
  BY <1>2 DEF vars, mains, servers, threads, Arriving, Watched, Owed, Served, Message,
     Reachable, WithRoom, Listeners, Listens
<1> QED BY <1>1, <1>2

(* A broadcast whose scan no other thread of its process disturbed comes   *)
(* to everyone who could be reached from the scan on, whatever the ports,  *)
(* the processes and their threads are, and whoever ends meanwhile.        *)
THEOREM QuietBroadcastsArrive == Spec => []QuietBroadcastArrives
<1>1. Init => Arriving
  BY DEF Init, Arriving, Watched
<1>2. IInv /\ Arriving => QuietBroadcastArrives
  <2> SUFFICES ASSUME IInv, Arriving, NEW c \in Threads, pc[c] = "send",
                      at[c] \notin DOMAIN list[c], c \in quiet,
                      NEW p \in steady[c], port[p] \in Ports \ {port[home[c]]}
               PROVE  Message(c) \in reached[p]
    BY DEF QuietBroadcastArrives
  <2>1. Served(c, p)
    BY DEF Arriving, Owed
  <2>2. PICK k \in DOMAIN list[c] : list[c][k] = port[p]
    BY <2>1 DEF Served, Elements
  <2>3. /\ DOMAIN list[c] = 1 .. Len(list[c]) /\ Len(list[c]) \in Nat
        /\ at[c] \in Nat /\ at[c] >= 1
    BY LenProperties DEF IInv, TypeOK, Arriving, Watched
  <2>4. k < at[c]
    BY <2>3
  <2> QED BY <2>1, <2>2, <2>4 DEF Served
<1> QED BY <1>1, <1>2, SpecIInv, NextArriving, PTL DEF Spec

-----------------------------------------------------------------------------
(* How often a port is listed.                                             *)

(* The threads of a process whose present scan, if they are in one, has    *)
(* been past the port: each of them may have listed it since the last      *)
(* clear, and no one else has.                                             *)
Passed(p, to) ==
  {c \in Scanners(p) : pc[c] = "scan" => \A i \in DOMAIN PORTS : PORTS[i] = to => i < at[c]}

(* The list that main leaves behind lists a port at most once, and stays   *)
(* as it is until a thread clears it.                                      *)
Listed ==
  \A to \in Ports :
    /\ \A p \in Procs :
         /\ phase[p] = "look" =>
              Times(portList[p], to) <= IF \E i \in DOMAIN PORTS : PORTS[i] = to /\ i < pos[p]
                                        THEN 1 ELSE 0
         /\ phase[p] = "up" =>
              \/ Times(portList[p], to) <= Cardinality(Passed(p, to))
              \/ /\ Times(portList[p], to) <= 1
                 /\ \A c \in Scanners(p) : pc[c] \in {"idle", "clear"}
    /\ \A c \in Threads : Times(list[c], to) <= Cardinality(Scanners(home[c]))

LEMMA TimesEmpty == \A to : Times(<<>>, to) = 0
<1>1. \A to : {i \in DOMAIN <<>> : <<>>[i] = to} = {}
  OBVIOUS
<1> QED BY <1>1, FS_EmptySet DEF Times

LEMMA TimesAppend ==
  ASSUME NEW S, NEW s \in Seq(S), NEW e \in S, NEW to
  PROVE  /\ Times(s, to) \in Nat
         /\ e = to => Times(Append(s, e), to) = Times(s, to) + 1
         /\ e # to => Times(Append(s, e), to) = Times(s, to)
<1> DEFINE at1 == {i \in DOMAIN s : s[i] = to}
           at2 == {i \in DOMAIN Append(s, e) : Append(s, e)[i] = to}
<1>1. /\ DOMAIN s = 1 .. Len(s) /\ Len(s) \in Nat
      /\ DOMAIN Append(s, e) = 1 .. Len(s) + 1
      /\ \A i \in 1 .. Len(s) : Append(s, e)[i] = s[i]
      /\ Append(s, e)[Len(s) + 1] = e
  BY AppendProperties, LenProperties
<1>2. IsFiniteSet(at1) /\ Cardinality(at1) \in Nat /\ Len(s) + 1 \notin at1
  <2>1. IsFiniteSet(1 .. Len(s)) /\ at1 \in SUBSET (1 .. Len(s))
    BY <1>1, FS_Interval
  <2>2. IsFiniteSet(at1)
    BY <2>1, FS_Subset
  <2> QED BY <1>1, <2>1, <2>2, FS_CardinalityType
<1>3. at2 = IF e = to THEN at1 \cup {Len(s) + 1} ELSE at1
  BY <1>1
<1>4. Times(s, to) = Cardinality(at1) /\ Times(Append(s, e), to) = Cardinality(at2)
  BY DEF Times
<1> HIDE DEF at1, at2
<1>5. CASE e = to
  BY <1>2, <1>3, <1>4, <1>5, FS_AddElement
<1>6. CASE e # to
  BY <1>2, <1>3, <1>4, <1>6
<1> QED BY <1>5, <1>6

LEMMA PassedFinite ==
  ASSUME NEW p, NEW to
  PROVE  /\ IsFiniteSet(Scanners(p)) /\ Passed(p, to) \subseteq Scanners(p)
         /\ IsFiniteSet(Passed(p, to)) /\ Cardinality(Passed(p, to)) \in Nat
         /\ Cardinality(Scanners(p)) \in Nat
         /\ Cardinality(Passed(p, to)) <= Cardinality(Scanners(p))
<1>1. IsFiniteSet(Threads) /\ Scanners(p) \in SUBSET Threads /\ Passed(p, to) \in SUBSET Scanners(p)
  BY NetworkAssumption DEF Scanners, Passed
<1>2. IsFiniteSet(Scanners(p))
  BY <1>1, FS_Subset
<1>3. IsFiniteSet(Passed(p, to)) /\ Cardinality(Passed(p, to)) <= Cardinality(Scanners(p))
  BY <1>1, <1>2, FS_Subset
<1> QED BY <1>1, <1>2, <1>3, FS_CardinalityType

(* More threads may have passed a port after a step: none has begun a scan.*)
LEMMA PassedGrows ==
  ASSUME NEW p, NEW to, Passed(p, to) \subseteq Passed(p, to)'
  PROVE  Cardinality(Passed(p, to)) <= Cardinality(Passed(p, to)')
<1>1. Passed(p, to)' \subseteq Scanners(p) /\ IsFiniteSet(Scanners(p))
  BY PassedFinite DEF Passed, Scanners
<1>2. IsFiniteSet(Passed(p, to)') /\ Passed(p, to) \in SUBSET Passed(p, to)'
  BY <1>1, FS_Subset
<1> QED BY <1>2, FS_Subset

ListedBy(p, to) ==
  /\ phase[p] = "look" =>
       Times(portList[p], to) <= IF \E i \in DOMAIN PORTS : PORTS[i] = to /\ i < pos[p]
                                 THEN 1 ELSE 0
  /\ phase[p] = "up" =>
       \/ Times(portList[p], to) <= Cardinality(Passed(p, to))
       \/ /\ Times(portList[p], to) <= 1
          /\ \A c \in Scanners(p) : pc[c] \in {"idle", "clear"}

CopiedBy(c, to) == Times(list[c], to) <= Cardinality(Scanners(home[c]))

(* A process that a step leaves alone.                                     *)
LEMMA OthersListed ==
  ASSUME NEW p, NEW to, ListedBy(p, to),
         phase'[p] = phase[p], pos'[p] = pos[p], portList'[p] = portList[p],
         \A c \in Scanners(p) : pc'[c] = pc[c] /\ at'[c] = at[c]
  PROVE  ListedBy(p, to)'
<1>1. Scanners(p)' = Scanners(p) /\ Passed(p, to)' = Passed(p, to)
  BY DEF Scanners, Passed
<1> QED BY <1>1 DEF ListedBy

LEMMA LookListed ==
  ASSUME IInv, NEW p \in Procs, Look(p), NEW to \in Ports, ListedBy(p, to)
  PROVE  ListedBy(p, to)'
<1> DEFINE this == PORTS[pos[p]]
<1>1. pos[p] \in DOMAIN PORTS /\ this \in Ports /\ pos[p] \in Nat
  BY PortOf DEF Look
<1>2. /\ phase[p] = "look" /\ phase' = phase /\ pos'[p] = pos[p] + 1
      /\ portList[p] \in Seq(Ports)
      /\ portList'[p] = portList[p] \/ portList'[p] = Append(portList[p], this)
  BY DEF Look, Accepting, Found, IInv, TypeOK
<1>3. IsInjective(PORTS) /\ \A i \in DOMAIN PORTS : i \in Nat
  BY NetworkAssumption, PortOf
<1> HIDE DEF this
<1>4. /\ Times(portList[p], to) \in Nat
      /\ \/ Times(portList'[p], to) = Times(portList[p], to)
         \/ (this = to /\ Times(portList'[p], to) = Times(portList[p], to) + 1)
  <2>1. /\ Times(portList[p], to) \in Nat
        /\ this = to => Times(Append(portList[p], this), to) = Times(portList[p], to) + 1
        /\ this # to => Times(Append(portList[p], this), to) = Times(portList[p], to)
    BY <1>1, <1>2, TimesAppend
  <2> QED BY Zenon, <1>2, <2>1
<1>5. CASE this = to
  <2>1. \A i \in DOMAIN PORTS : PORTS[i] = to => i = pos[p]
    BY <1>1, <1>3, <1>5 DEF IsInjective, this
  <2>2. Times(portList[p], to) <= 0
    BY <1>1, <1>2, <2>1 DEF ListedBy
  <2>3. \E i \in DOMAIN PORTS : PORTS[i] = to /\ i < pos[p] + 1
    BY <1>1, <1>5 DEF this
  <2> QED BY <1>2, <1>4, <2>2, <2>3 DEF ListedBy
<1>6. CASE this # to
  <2>1. \A i \in DOMAIN PORTS : i < pos[p] => i < pos[p] + 1
    BY <1>1, <1>3
  <2> QED BY <1>2, <1>4, <1>6, <2>1 DEF ListedBy
<1> QED BY <1>5, <1>6

(* The steps of main and of the server.                                    *)
LEMMA ProcStepListed ==
  ASSUME IInv, Listed, NEW q \in Procs, Start(q) \/ Main(q) \/ Server(q) \/ End(q)
  PROVE  Listed'
<1> SUFFICES ASSUME NEW to \in Ports
             PROVE  /\ \A p \in Procs : ListedBy(p, to)'
                    /\ \A c \in Threads : CopiedBy(c, to)'
  BY DEF Listed, ListedBy, CopiedBy
<1>1. /\ \A p \in Procs : ListedBy(p, to)
      /\ \A c \in Threads : CopiedBy(c, to)
  BY DEF Listed, ListedBy, CopiedBy
<1>2. \A c \in Threads : list'[c] = list[c] \/ list'[c] = <<>>
  BY DEF Start, Main, ProbePort, NoPort, Look, Up, Server, Reopen, Listen, Accept, End, threads
<1>3. ASSUME NEW c \in Threads PROVE CopiedBy(c, to)'
  <2>1. Cardinality(Scanners(home[c])) \in Nat /\ Scanners(home[c])' = Scanners(home[c])
    BY PassedFinite DEF Scanners
  <2> QED BY <1>1, <1>2, <2>1, TimesEmpty DEF CopiedBy
<1>4. ASSUME NEW p \in Procs PROVE ListedBy(p, to)'
  <2>1. CASE p # q
    <3>1. phase'[p] = phase[p] /\ pos'[p] = pos[p] /\ portList'[p] = portList[p]
      BY <2>1 DEF IInv, TypeOK, Start, Main, ProbePort, NoPort, Look, Up, Server, Reopen, Listen,
         Accept, End, mains, threads, Accepting, Chosen, Found
    <3>2. \A c \in Scanners(p) : pc'[c] = pc[c] /\ at'[c] = at[c]
      BY <2>1 DEF Scanners, Start, Main, ProbePort, NoPort, Look, Up, Server, Reopen, Listen,
         Accept, End, threads
    <3> QED BY <1>1, <3>1, <3>2, OthersListed
  <2>2. CASE p = q
    <3>1. CASE Start(q)
      BY <2>2, <3>1 DEF ListedBy, Start, IInv, TypeOK
    <3>2. CASE ProbePort(q) \/ NoPort(q)
      <4>1. portList'[p] = <<>> /\ phase'[p] \in {"probe", "look"}
        BY <2>2, <3>2 DEF ProbePort, NoPort, Accepting, Chosen, IInv, TypeOK, UpOnly
      <4> QED BY <4>1, TimesEmpty DEF ListedBy
    <3>3. CASE Look(q)
      BY <1>1, <2>2, <3>3, LookListed
    <3>4. CASE Up(q)
      <4>1. /\ phase[p] = "look" /\ phase'[p] = "up" /\ portList'[p] = portList[p]
            /\ \A c \in Scanners(p) : pc'[c] = "idle"
        BY <2>2, <3>4 DEF Up, IInv, TypeOK, UpOnly, threads, Scanners
      <4>2. Times(portList[p], to) <= 1
        <5>1. portList[p] \in Seq(Ports)
          BY DEF IInv, TypeOK
        <5>2. Times(portList[p], to) \in Nat
          BY <5>1, TimesAppend
        <5> QED BY <1>1, <4>1, <5>2 DEF ListedBy
      <4> QED BY <4>1, <4>2 DEF ListedBy, Scanners
    <3>5. CASE Server(q)
      <4>1. UNCHANGED <<mains, portList, threads>>
        BY <3>5 DEF Server, Reopen, Listen, Accept
      <4> QED BY <1>1, <4>1, OthersListed DEF mains, threads
    <3>6. CASE End(q)
      BY <2>2, <3>6 DEF ListedBy, End, IInv, TypeOK
    <3> QED BY <3>1, <3>2, <3>3, <3>4, <3>5, <3>6 DEF Main
  <2> QED BY <2>1, <2>2
<1> QED BY <1>3, <1>4

(* A thread that is past a port for the first time since the last clear    *)
(* may have listed it.                                                     *)
LEMMA ScanListed ==
  ASSUME IInv, NEW c \in Threads, Scan(c), NEW to \in Ports,
         NEW p \in Procs, p = home[c], ListedBy(p, to)
  PROVE  ListedBy(p, to)'
<1> DEFINE this == PORTS[at[c]]
<1>1. at[c] \in DOMAIN PORTS /\ this \in Ports /\ at[c] \in Nat
  BY PortOf DEF Scan
<1>2. /\ pc[c] = "scan" /\ pc' = pc /\ at'[c] = at[c] + 1
      /\ \A d \in Threads : d # c => at'[d] = at[d]
      /\ phase' = phase /\ phase[p] = "up" /\ portList[p] \in Seq(Ports)
      /\ portList'[p] = portList[p] \/ portList'[p] = Append(portList[p], this)
  BY <1>1 DEF Scan, Accepting, Found, Step, mains, IInv, TypeOK, UpOnly
<1>3. IsInjective(PORTS) /\ \A i \in DOMAIN PORTS : i \in Nat
  BY NetworkAssumption, PortOf
<1>4. c \in Scanners(p)
  BY DEF Scanners
<1> HIDE DEF this
<1>5. Times(portList[p], to) <= Cardinality(Passed(p, to))
  BY <1>2, <1>4 DEF ListedBy
<1>6. /\ Times(portList[p], to) \in Nat
      /\ \/ Times(portList'[p], to) = Times(portList[p], to)
         \/ (this = to /\ Times(portList'[p], to) = Times(portList[p], to) + 1)
  <2>1. /\ Times(portList[p], to) \in Nat
        /\ this = to => Times(Append(portList[p], this), to) = Times(portList[p], to) + 1
        /\ this # to => Times(Append(portList[p], this), to) = Times(portList[p], to)
    BY <1>1, <1>2, TimesAppend
  <2> QED BY Zenon, <1>2, <2>1
<1>7. Passed(p, to) \subseteq Passed(p, to)'
  <2> SUFFICES ASSUME NEW d \in Passed(p, to) PROVE d \in Passed(p, to)'
    OBVIOUS
  <2>1. d \in Scanners(p) /\ d \in Threads /\ Scanners(p)' = Scanners(p)
    BY DEF Passed, Scanners
  <2>2. \A i \in DOMAIN PORTS : i < at[d] => i < at'[d]
    BY <1>1, <1>2, <1>3, <2>1
  <2> QED BY <1>2, <2>1, <2>2 DEF Passed
<1>8. Cardinality(Passed(p, to)) <= Cardinality(Passed(p, to)')
  BY <1>7, PassedGrows
<1>9. Cardinality(Passed(p, to)) \in Nat /\ Cardinality(Passed(p, to)') \in Nat
  <2>1. Passed(p, to)' \subseteq Scanners(p) /\ IsFiniteSet(Scanners(p))
    BY PassedFinite DEF Passed, Scanners
  <2>2. IsFiniteSet(Passed(p, to)')
    BY <2>1, FS_Subset
  <2> QED BY <2>2, PassedFinite, FS_CardinalityType
<1>10. CASE this # to
  BY <1>2, <1>5, <1>6, <1>8, <1>9, <1>10 DEF ListedBy
<1>11. CASE this = to
  <2>1. c \notin Passed(p, to)
    BY <1>1, <1>2, <1>11 DEF Passed, this
  <2>2. c \in Passed(p, to)'
    <3>1. \A i \in DOMAIN PORTS : PORTS[i] = to => i = at[c]
      BY <1>1, <1>3, <1>11 DEF IsInjective, this
    <3>2. c \in Scanners(p)' /\ at[c] < at'[c]
      BY <1>1, <1>2, <1>4 DEF Scanners
    <3> QED BY <3>1, <3>2 DEF Passed
  <2>3. Cardinality(Passed(p, to)) + 1 <= Cardinality(Passed(p, to)')
    <3> DEFINE before == Passed(p, to)
               after  == Passed(p, to)'
    <3>1. IsFiniteSet(before) /\ IsFiniteSet(after)
      <4>1. after \in SUBSET Scanners(p) /\ IsFiniteSet(Scanners(p))
        BY PassedFinite DEF Passed, Scanners
      <4> QED BY <4>1, PassedFinite, FS_Subset
    <3>2. before \cup {c} \in SUBSET after /\ c \notin before
      BY <1>7, <2>1, <2>2
    <3> HIDE DEF before, after
    <3>3. Cardinality(before \cup {c}) = Cardinality(before) + 1
      BY <3>1, <3>2, FS_AddElement
    <3>4. Cardinality(before \cup {c}) <= Cardinality(after)
      BY <3>1, <3>2, FS_Subset
    <3> QED BY <3>3, <3>4 DEF before, after
  <2> QED BY <1>2, <1>5, <1>6, <1>9, <1>11, <2>3 DEF ListedBy
<1> QED BY <1>10, <1>11

(* The other steps of a thread: none but a clear shortens the list, and    *)
(* none but a clear begins a scan.                                         *)
LEMMA RestListed ==
  ASSUME IInv, NEW c \in Threads, Begin(c) \/ ScanEnds(c) \/ Copy(c) \/ Send(c) \/ SendEnds(c),
         NEW to \in Ports, ListedBy(home[c], to)
  PROVE  ListedBy(home[c], to)'
<1> DEFINE p == home[c]
<1>1. /\ phase' = phase /\ pos' = pos /\ portList' = portList
      /\ pc'[c] # "scan" /\ (pc[c] \in {"idle", "clear"} => pc'[c] = "clear")
      /\ \A d \in Threads : d # c => pc'[d] = pc[d] /\ at'[d] = at[d]
      /\ phase[p] = "up" /\ c \in Scanners(p)
  BY DEF Begin, ScanEnds, Copy, Send, SendEnds, Step, mains, IInv, TypeOK, UpOnly, Scanners
<1>2. Passed(p, to) \subseteq Passed(p, to)'
  BY <1>1 DEF Passed, Scanners
<1>3. Cardinality(Passed(p, to)) <= Cardinality(Passed(p, to)')
  BY <1>2, PassedGrows
<1> HIDE DEF p
<1>4. portList[p] \in Seq(Ports) /\ Scanners(p)' = Scanners(p)
  BY NetworkAssumption DEF IInv, TypeOK, Scanners, p
<1>5. Times(portList[p], to) \in Nat /\ Cardinality(Passed(p, to)) \in Nat
  BY <1>4, TimesAppend, PassedFinite
<1>6. Cardinality(Passed(p, to)') \in Nat
  <2>1. Passed(p, to)' \subseteq Scanners(p) /\ IsFiniteSet(Scanners(p))
    BY PassedFinite DEF Passed, Scanners
  <2>2. IsFiniteSet(Passed(p, to)')
    BY <2>1, FS_Subset
  <2> QED BY <2>2, FS_CardinalityType
<1>7. CASE Times(portList[p], to) <= Cardinality(Passed(p, to))
  BY <1>1, <1>3, <1>5, <1>6, <1>7 DEF ListedBy, p
<1>8. CASE Times(portList[p], to) <= 1 /\ \A d \in Scanners(p) : pc[d] \in {"idle", "clear"}
  <2>1. \A d \in Scanners(p) : pc'[d] \in {"idle", "clear"}
    BY <1>1, <1>8 DEF Scanners
  <2> QED BY <1>1, <1>4, <1>8, <2>1 DEF ListedBy, p
<1>9. ListedBy(p, to) /\ phase[p] = "up"
  BY <1>1 DEF p
<1> QED BY <1>7, <1>8, <1>9 DEF ListedBy

LEMMA ThreadStepListed ==
  ASSUME IInv, Listed, NEW c \in Threads, Begin(c) \/ Inside(c)
  PROVE  Listed'
<1> SUFFICES ASSUME NEW to \in Ports
             PROVE  /\ \A p \in Procs : ListedBy(p, to)'
                    /\ \A d \in Threads : CopiedBy(d, to)'
  BY DEF Listed, ListedBy, CopiedBy
<1>1. /\ \A p \in Procs : ListedBy(p, to)
      /\ \A d \in Threads : CopiedBy(d, to)
      /\ home[c] \in Procs
  BY NetworkAssumption DEF Listed, ListedBy, CopiedBy
<1>2. ASSUME NEW d \in Threads PROVE CopiedBy(d, to)'
  <2>1. Cardinality(Scanners(home[d])) \in Nat /\ Scanners(home[d])' = Scanners(home[d])
    BY PassedFinite DEF Scanners
  <2>2. CASE list'[d] = list[d] \/ list'[d] = <<>>
    BY <1>1, <2>1, <2>2, TimesEmpty DEF CopiedBy
  <2>3. CASE Copy(c) /\ d = c
    <3>1. /\ list'[c] = portList[home[c]] /\ phase[home[c]] = "up"
          /\ c \in Scanners(home[c]) /\ pc[c] = "copy" /\ portList[home[c]] \in Seq(Ports)
      BY <1>1, <2>3 DEF Copy, IInv, TypeOK, UpOnly, Scanners
    <3>2. Times(portList[home[c]], to) <= Cardinality(Passed(home[c], to))
      BY <1>1, <3>1 DEF ListedBy
    <3>3. Times(portList[home[c]], to) \in Nat
      BY <3>1, TimesAppend
    <3>4. Times(portList[home[c]], to) <= Cardinality(Scanners(home[c]))
      BY <3>2, <3>3, PassedFinite
    <3> QED BY <2>1, <2>3, <3>1, <3>4 DEF CopiedBy
  <2>4. list'[d] = list[d] \/ list'[d] = <<>> \/ (Copy(c) /\ d = c)
    BY DEF Begin, Inside, Clear, Scan, ScanEnds, Copy, Send, SendEnds, IInv, TypeOK
  <2> QED BY <2>2, <2>3, <2>4
<1>3. ASSUME NEW p \in Procs PROVE ListedBy(p, to)'
  <2>1. CASE p # home[c]
    <3>1. phase'[p] = phase[p] /\ pos'[p] = pos[p] /\ portList'[p] = portList[p]
      BY <1>1, <2>1 DEF IInv, TypeOK, Begin, Inside, Clear, Scan, ScanEnds, Copy, Send, SendEnds,
         mains, Accepting, Found
    <3>2. \A d \in Scanners(p) : pc'[d] = pc[d] /\ at'[d] = at[d]
      BY <2>1 DEF Scanners, Begin, Inside, Clear, Scan, ScanEnds, Copy, Send, SendEnds, Step, IInv, TypeOK
    <3> QED BY <1>1, <3>1, <3>2, OthersListed
  <2>2. CASE p = home[c]
    <3>1. CASE Clear(c)
      <4>1. portList'[p] = <<>> /\ phase' = phase /\ phase[p] = "up"
        BY <1>1, <2>2, <3>1 DEF Clear, IInv, TypeOK, UpOnly, mains
      <4>2. Passed(p, to)' \subseteq Scanners(p) /\ IsFiniteSet(Scanners(p))
        BY PassedFinite DEF Passed, Scanners
      <4>3. Cardinality(Passed(p, to)') \in Nat
        <5>1. IsFiniteSet(Passed(p, to)')
          BY <4>2, FS_Subset
        <5> QED BY <5>1, FS_CardinalityType
      <4> QED BY <4>1, <4>3, TimesEmpty DEF ListedBy
    <3>2. CASE Scan(c)
      BY <1>1, <2>2, <3>2, ScanListed
    <3>3. CASE Begin(c) \/ ScanEnds(c) \/ Copy(c) \/ Send(c) \/ SendEnds(c)
      BY <1>1, <2>2, <3>3, RestListed
    <3> QED BY <3>1, <3>2, <3>3 DEF Inside
  <2> QED BY <2>1, <2>2
<1> QED BY <1>2, <1>3

LEMMA NextListed == IInv /\ Listed /\ [Next]_vars => Listed'
<1> SUFFICES ASSUME IInv, Listed, [Next]_vars PROVE Listed'
  OBVIOUS
<1>1. CASE Next
  BY <1>1, ProcStepListed, ThreadStepListed DEF Next
<1>2. CASE UNCHANGED vars
  <2>1. UNCHANGED <<phase, pos, portList, pc, at, list>>
    BY <1>2 DEF vars, mains, threads
  <2>2. ASSUME NEW to \in Ports, NEW p \in Procs PROVE ListedBy(p, to)'
    <3>1. ListedBy(p, to)
      BY DEF Listed, ListedBy
    <3> QED BY <2>1, <3>1, OthersListed
  <2>3. ASSUME NEW to \in Ports, NEW c \in Threads PROVE CopiedBy(c, to)'
    <3>1. CopiedBy(c, to)
      BY DEF Listed, CopiedBy
    <3> QED BY <2>1, <3>1 DEF CopiedBy, Scanners
  <2> QED BY <2>2, <2>3 DEF Listed, ListedBy, CopiedBy
<1> QED BY <1>1, <1>2

(* However many threads of a process scan at once, and however their       *)
(* clears fall between the steps of the others: the list of the process    *)
(* and the copies sent to hold no port more often than it has threads.     *)
THEOREM ListsOncePerThread == Spec => []ListedOncePerThread
<1>1. Init => Listed
  <2> SUFFICES ASSUME Init PROVE Listed
    OBVIOUS
  <2>1. \A p : Cardinality(Scanners(p)) \in Nat
    BY PassedFinite
  <2> QED BY <2>1, TimesEmpty DEF Init, Listed
<1>2. IInv /\ Listed => ListedOncePerThread
  <2> SUFFICES ASSUME IInv, Listed, NEW to \in Ports
               PROVE  /\ \A c \in Threads : Times(list[c], to) <= Cardinality(Scanners(home[c]))
                      /\ \A p \in Procs : Times(portList[p], to) > 1
                                            => Times(portList[p], to) <= Cardinality(Scanners(p))
    BY DEF ListedOncePerThread
  <2>1. ASSUME NEW p \in Procs, Times(portList[p], to) > 1
        PROVE  Times(portList[p], to) <= Cardinality(Scanners(p))
    <3>1. portList[p] \in Seq(Ports)
      BY DEF IInv, TypeOK
    <3>2. Times(portList[p], to) \in Nat /\ (phase[p] \in {"off", "probe"} => Times(portList[p], to) = 0)
      BY <3>1, TimesAppend, TimesEmpty DEF IInv, UpOnly
    <3>3. phase[p] \in {"off", "probe", "look", "up"}
      BY DEF IInv, TypeOK
    <3>4. phase[p] = "up"
      BY <2>1, <3>2, <3>3 DEF Listed
    <3>5. Times(portList[p], to) <= Cardinality(Passed(p, to))
      BY <2>1, <3>2, <3>4 DEF Listed
    <3> QED BY <3>2, <3>5, PassedFinite
  <2> QED BY <2>1 DEF Listed
<1> QED BY <1>1, <1>2, SpecIInv, NextListed, PTL DEF Spec
=============================================================================
