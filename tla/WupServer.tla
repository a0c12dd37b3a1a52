----------------------------- MODULE WupServer -----------------------------
(***************************************************************************)
(* The debug server of wafel_plugin_wupserver (wupserver.c), the socket and   *)
(* network calls it makes (socket.c, net_ifmgr_ncl.c), and its client         *)
(* (wupclient.py), of which there is one at a time.                           *)
(*                                                                           *)
(* A connection carries cells: a command with its arguments, a unit of data,   *)
(* an answer. Counts are in cells; an error of a socket call is -1.           *)
(***************************************************************************)
EXTENDS Integers, Sequences, FiniteSets

CONSTANTS
  Conns,     \* 1..n: the connections made one after the other
  Commands,  \* what a client may send
  MaxCmds,   \* commands of one client
  Addrs,     \* memory the clients are after
  Poll,      \* the word of memory that somebody else writes
  PollVals,  \* what he writes there
  OffMod,    \* stands for 2^32
  Faults,    \* "coalesce", "alloc", "leave": see recv and Leave
  None

VARIABLES
  srv,       \* the thread of wupserver_main
  conns,     \* conns[k]: connection k and the client that has made it
  mem,       \* memory
  line,      \* the polled word in the data cache, or None
  left       \* history: a client has closed its end in the middle of a write

netvars == <<srv, conns, mem, line, left>>

\* connections are made in order, and None stands for no value
ASSUME ConnsAssumption ==
  /\ Conns \subseteq Nat \ {0} /\ None # 0
  /\ \A k \in Conns : k > 1 => k - 1 \in Conns

\* Nobody but the command for it is after the polled word.
ASSUME MemoryAssumption == Addrs \subseteq Int /\ Poll \notin Addrs

\* A length has fewer than 32 bits, a write has data, and a read stays in memory.
ASSUME CommandsAssumption ==
  /\ OffMod \in Nat
  /\ \A c \in Commands :
       /\ c.op \in {"write", "read"} => c.addr \in Int /\ c.len \in 0..OffMod - 1
       /\ c.op = "write" => c.len > 0
       /\ c.op = "read" => c.addr..c.addr + c.len - 1 \subseteq Addrs

Answer(ret, val) == [cell |-> "answer", ret |-> ret, val |-> val]
Data(v) == [cell |-> "data", val |-> v]
Command(c) == [cell |-> "command", val |-> c]

Unused == [st |-> "unused", peer |-> "here", up |-> <<>>, down |-> <<>>,
           pc |-> "idle", cmd |-> None, sent |-> 0, got |-> <<>>, cmds |-> 0, ret |-> None]

NetInit ==
  /\ mem = [a \in Addrs \cup {Poll} |-> 0]
  /\ srv = [pc |-> "ifmgrnclInit", sock |-> "bad", k |-> 0, killed |-> FALSE, cmd |-> None,
            off |-> 0, ret |-> 0, val |-> None, old |-> None, before |-> mem]
  /\ conns = [k \in Conns |-> Unused]
  /\ line = None
  /\ left = FALSE

k0 == srv.k
conn == conns[k0]

-----------------------------------------------------------------------------
(* socket.c. A call allocates its buffers, asks /dev/socket and frees them; the
   results are what the service may answer now. *)

Room(len, n) == IF len < n THEN len ELSE n
NoMemory == IF "alloc" \in Faults THEN {-1} ELSE {}

\* an empty set: the call waits
recv(len) ==
  IF len <= 0 \/ k0 = 0 THEN {-1}
  ELSE NoMemory \cup
       (IF conn.peer = "rst" THEN {-1}
        ELSE IF conn.up # <<>> THEN 1..Room(len, Len(conn.up))
        ELSE IF conn.peer = "fin" THEN {0}
        ELSE {})
send(len) ==
  IF len <= 0 \/ k0 = 0 \/ conn.peer = "rst" THEN {-1} ELSE NoMemory \cup 1..len

Take(n) ==
  conns' = IF n <= 0 THEN conns ELSE [conns EXCEPT ![k0].up = SubSeq(@, n + 1, Len(@))]
\* what is sent to a client that is gone is lost
Put(cells) ==
  conns' = IF conn.peer = "here" THEN [conns EXCEPT ![k0].down = @ \o cells] ELSE conns

-----------------------------------------------------------------------------
(* wupserver_main and serverListenClients *)

Step(pc, next) == srv.pc = pc /\ srv' = [srv EXCEPT !.pc = next]

\* repeated until it works
ifmgrnclInit == Step("ifmgrnclInit", "status") /\ UNCHANGED <<conns, mem, line, left>>
IFMGRNCL_GetInterfaceStatus == Step("status", "socketInit") /\ UNCHANGED <<conns, mem, line, left>>
socketInit == Step("socketInit", "socket") /\ UNCHANGED <<conns, mem, line, left>>

\* neither the result of socket nor that of bind is looked at
socket_bind ==
  /\ srv.pc = "socket"
  /\ \E s \in {"good", "bad"} : srv' = [srv EXCEPT !.pc = "listen", !.sock = s]
  /\ UNCHANGED <<conns, mem, line, left>>

\* one failed listen is tried again later; if the socket is bad all fail
listen ==
  /\ srv.pc = "listen" /\ srv.sock # "bad" /\ ~srv.killed
  /\ srv' = [srv EXCEPT !.pc = "accept", !.sock = "listening"]
  /\ UNCHANGED <<conns, mem, line, left>>

\* the socket stays open and nobody accepts from it
stop_listening ==
  /\ srv.pc = "listen" /\ srv.killed
  /\ srv' = [srv EXCEPT !.pc = "idle"]
  /\ UNCHANGED <<conns, mem, line, left>>

accept ==
  /\ srv.pc = "accept"
  /\ \E k \in Conns :
       /\ conns[k].st = "backlog"
       /\ conns' = [conns EXCEPT ![k].st = "open"]
       /\ srv' = [srv EXCEPT !.pc = "recv", !.k = k]
  /\ UNCHANGED <<mem, line, left>>

\* a negative result is passed on like a socket
accept_error ==
  /\ srv.pc = "accept"
  /\ srv' = [srv EXCEPT !.pc = "recv", !.k = 0]
  /\ UNCHANGED <<conns, mem, line, left>>

-----------------------------------------------------------------------------
(* serverClientHandler *)

\* A command, and what arrived together with it in the same buffer
Received ==
  [srv EXCEPT !.pc = "command", !.off = 0, !.ret = 0, !.val = None, !.before = mem,
     !.cmd = IF Head(conn.up).cell = "command" THEN Head(conn.up).val ELSE [op |-> "unknown"]]

\* Mutant: the end of the connection is taken for an empty command.
recv_command_mutant ==
  /\ srv.pc = "recv" /\ ~srv.killed
  /\ \E n \in recv(6) :
       /\ n > 1 => "coalesce" \in Faults
       /\ Take(n)
       /\ srv' = CASE n < 0 -> [srv EXCEPT !.pc = "close"]
                   [] n = 0 -> [srv EXCEPT !.pc = "answer", !.ret = -1, !.cmd = [op |-> "empty"], !.before = mem]
                   [] OTHER -> Received
  /\ UNCHANGED <<mem, line, left>>

\* Whatever is behind the command is dropped. Without "coalesce" the cells of one
\* send are received alone.
recv_command ==
  /\ srv.pc = "recv" /\ ~srv.killed
  /\ \E n \in recv(6) :
       /\ n > 1 => "coalesce" \in Faults
       /\ Take(n)
       /\ srv' = IF n <= 0 THEN [srv EXCEPT !.pc = "close"] ELSE Received
  /\ UNCHANGED <<mem, line, left>>

\* The four or eight bytes of an answer are one cell: the code does not look at what
\* send says, and an answer that is cut is outside the model.
answer ==
  /\ srv.pc = "answer"
  /\ \E n \in send(1) : IF n = 1 THEN Put(<<Answer(srv.ret, srv.val)>>) ELSE UNCHANGED conns
  /\ srv' = [srv EXCEPT !.pc = IF srv.killed THEN "close" ELSE "recv"]
  /\ UNCHANGED <<mem, line, left>>

closesocket ==
  /\ srv.pc = "close"
  /\ conns' = IF k0 = 0 THEN conns ELSE [conns EXCEPT ![k0].st = "closed"]
  /\ srv' = [srv EXCEPT !.pc = "listen", !.k = 0]
  /\ UNCHANGED <<mem, line, left>>

-----------------------------------------------------------------------------
(* serverCommandHandler *)

Handles(op) == srv.pc = "command" /\ srv.cmd.op = op
Done(s) == [s EXCEPT !.pc = "answer"]

\* the result of recv or send is added to an unsigned offset, an error too
Advanced(n) == (srv.off + n) % OffMod

\* Mutant: received data always goes to the first address.
write_mutant ==
  /\ Handles("write") /\ srv.off < srv.cmd.len
  /\ \E n \in recv(srv.cmd.len - srv.off) :
       /\ Take(n)
       /\ mem' = [a \in DOMAIN mem |-> IF n > 0 /\ a \in srv.cmd.addr..srv.cmd.addr + n - 1
                                         THEN conn.up[a - srv.cmd.addr + 1].val ELSE mem[a]]
       /\ srv' = [srv EXCEPT !.off = Advanced(n)]
  /\ UNCHANGED <<line, left>>

write ==
  /\ Handles("write") /\ srv.off < srv.cmd.len
  /\ \E n \in recv(srv.cmd.len - srv.off) :
       LET dst == srv.cmd.addr + srv.off
       IN  /\ Take(n)
           /\ mem' = [a \in DOMAIN mem |-> IF n > 0 /\ a \in dst..dst + n - 1
                                             THEN conn.up[a - dst + 1].val ELSE mem[a]]
           /\ srv' = [srv EXCEPT !.off = Advanced(n)]
  /\ UNCHANGED <<line, left>>

read ==
  /\ Handles("read") /\ srv.off < srv.cmd.len
  /\ \E n \in send(srv.cmd.len - srv.off) :
       /\ Put([i \in 1..n |-> Data(mem[srv.cmd.addr + srv.off + i - 1])])
       /\ srv' = [srv EXCEPT !.off = Advanced(n)]
  /\ UNCHANGED <<mem, line, left>>

transferred ==
  /\ srv.pc = "command" /\ srv.cmd.op \in {"write", "read"} /\ srv.off >= srv.cmd.len
  /\ srv' = Done(srv)
  /\ UNCHANGED <<conns, mem, line, left>>

svc ==
  /\ Handles("svc")
  /\ srv' = Done([srv EXCEPT !.val = "svc result"])
  /\ UNCHANGED <<conns, mem, line, left>>

kill ==
  /\ Handles("kill")
  /\ srv' = Done([srv EXCEPT !.killed = TRUE])
  /\ UNCHANGED <<conns, mem, line, left>>

Copied(m, c) == [a \in DOMAIN m |-> IF a \in c.addr..c.addr + c.len - 1
                                      THEN m[a - c.addr + c.src] ELSE m[a]]
memcpy ==
  /\ Handles("memcpy")
  /\ mem' = Copied(mem, srv.cmd)
  /\ srv' = Done(srv)
  /\ UNCHANGED <<conns, line, left>>

\* Waits for the word to change, through the data cache: a word that is still the
\* same is thrown out of the cache and read again, one that has become zero is the
\* new old one, any other is replaced.
Cached == IF line = None THEN mem[Poll] ELSE line
repeated_write ==
  /\ Handles("repeat")
  /\ \/ /\ srv.old = None
        /\ srv' = [srv EXCEPT !.old = Cached] /\ line' = Cached /\ UNCHANGED mem
     \/ /\ srv.old # None /\ srv.off < srv.cmd.n
        /\ CASE Cached = srv.old -> /\ line' = None /\ UNCHANGED mem
                                    /\ srv' = [srv EXCEPT !.off = @ + 1]
             [] Cached # srv.old /\ Cached = 0 -> /\ line' = Cached /\ UNCHANGED mem
                                                  /\ srv' = [srv EXCEPT !.off = @ + 1, !.old = 0]
             [] OTHER -> /\ mem' = [mem EXCEPT ![Poll] = srv.cmd.val] /\ line' = None
                         /\ srv' = Done([srv EXCEPT !.old = None])
     \/ /\ srv.old # None /\ srv.off >= srv.cmd.n
        /\ srv' = Done([srv EXCEPT !.old = None]) /\ UNCHANGED <<mem, line>>
  /\ UNCHANGED <<conns, left>>

unknown ==
  /\ Handles("unknown")
  /\ srv' = Done([srv EXCEPT !.ret = -2])
  /\ UNCHANGED <<conns, mem, line, left>>

Server ==
  \/ ifmgrnclInit \/ IFMGRNCL_GetInterfaceStatus \/ socketInit \/ socket_bind
  \/ listen \/ stop_listening \/ accept \/ accept_error
  \/ recv_command \/ answer \/ closesocket
  \/ write \/ read \/ transferred \/ svc \/ kill \/ memcpy \/ repeated_write \/ unknown

-----------------------------------------------------------------------------
(* wupclient.py *)

\* The next client comes when the last one is gone.
Connect(k) ==
  /\ conns[k].st = "unused" /\ srv.sock = "listening"
  /\ k > 1 => conns[k - 1].peer # "here"
  /\ conns' = [conns EXCEPT ![k].st = "backlog"]
  /\ UNCHANGED <<srv, mem, line, left>>

Connected(k) == conns[k].st # "unused" /\ conns[k].peer = "here"

SendCommand(k) ==
  /\ Connected(k) /\ conns[k].pc = "idle" /\ conns[k].cmds < MaxCmds
  /\ \E c \in Commands :
       conns' = [conns EXCEPT ![k].up = Append(@, Command(c)), ![k].cmd = c, ![k].sent = 0,
                   ![k].got = <<>>, ![k].ret = None, ![k].cmds = @ + 1,
                   ![k].pc = IF c.op = "write" THEN "sending" ELSE "waiting"]
  /\ UNCHANGED <<srv, mem, line, left>>

\* the data follows at once
SendData(k) ==
  LET c == conns[k]
  IN  /\ Connected(k) /\ c.pc = "sending"
      /\ conns' = [conns EXCEPT ![k].up = Append(@, Data(c.cmd.data[c.sent + 1])),
                     ![k].sent = @ + 1,
                     ![k].pc = IF c.sent + 1 = c.cmd.len THEN "waiting" ELSE "sending"]
      /\ UNCHANGED <<srv, mem, line, left>>

\* the data of a read, then the answer
Receive(k) ==
  LET c == conns[k]
      more == c.cmd.op = "read" /\ Len(c.got) < c.cmd.len
  IN  /\ Connected(k) /\ c.pc = "waiting" /\ c.down # <<>>
      /\ conns' = [conns EXCEPT ![k].down = Tail(@),
                     ![k].got = IF more THEN Append(@, Head(c.down).val) ELSE @,
                     ![k].ret = IF more THEN None ELSE Head(c.down).ret,
                     ![k].pc = IF more THEN "waiting" ELSE "idle"]
      /\ UNCHANGED <<srv, mem, line, left>>

\* The client ends, between two commands or, with "leave", in one; what it has sent
\* still arrives unless the connection is reset.
Leave(k) ==
  /\ Connected(k) /\ (conns[k].pc = "idle" \/ "leave" \in Faults)
  /\ \E how \in {"fin", "rst"} :
       /\ conns' = [conns EXCEPT ![k].peer = how, ![k].pc = "gone", ![k].cmd = None, ![k].got = <<>>,
                   ![k].ret = None, ![k].down = <<>>, ![k].up = IF how = "rst" THEN <<>> ELSE @]
       /\ left' = (left \/ (how = "fin" /\ conns[k].pc = "sending"))
  /\ UNCHANGED <<srv, mem, line>>

\* somebody else writes the polled word
Other ==
  /\ srv.pc = "command" /\ srv.cmd.op = "repeat"
  /\ \E v \in PollVals : mem' = [mem EXCEPT ![Poll] = v]
  /\ UNCHANGED <<srv, conns, line, left>>

Client(k) == SendData(k) \/ Receive(k)

Net ==
  \/ Server
  \/ \E k \in Conns : Connect(k) \/ SendCommand(k) \/ SendData(k) \/ Receive(k) \/ Leave(k)
  \/ Other

\* IOSU schedules the server and accept fails only now and then; a client that has
\* begun a command goes on with it
NetFairness ==
  /\ WF_netvars(Server) /\ SF_netvars(accept)
  /\ \A k \in Conns : WF_netvars(Client(k))

-----------------------------------------------------------------------------
(* Properties *)

Asked(a) ==
  LET c == srv.cmd
  IN  CASE c.op = "write" /\ a \in c.addr..c.addr + c.len - 1 -> c.data[a - c.addr + 1]
        [] c.op = "memcpy" -> Copied(srv.before, c)[a]
        [] OTHER -> srv.before[a]

\* wupserver.c on command 0, "write [cmd_id][addr]": however the stream is cut into
\* segments, a unit of data is put where its client wanted it and nothing else is
\* changed; when the answer is sent ("no error !") the command has been carried out,
\* and a read has returned what memory holds.
CommandsDone ==
  /\ srv.pc \in {"command", "answer"} => \A a \in Addrs : mem[a] \in {srv.before[a], Asked(a)}
  /\ srv.pc = "answer" /\ conn.peer = "here" => \A a \in Addrs : mem[a] = Asked(a)
  /\ \A k \in Conns : conns[k].ret = 0 /\ conns[k].cmd.op = "read" =>
       conns[k].got = [i \in 1..conns[k].cmd.len |-> mem[conns[k].cmd.addr + i - 1]]

\* A client that waits gets its answer, also after others were disconnected in the
\* middle of any command and accept has failed, unless somebody has closed its end
\* before all data of a write was sent (recv returns 0 then, and the write loop of
\* serverCommandHandler never ends) or has killed the server.
Answered ==
  \A k \in Conns : conns[k].pc = "waiting" ~> (conns[k].pc # "waiting" \/ left \/ srv.killed)
=============================================================================
