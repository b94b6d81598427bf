----------------------------- MODULE EchoServer -----------------------------
(***************************************************************************)
(* server.cpp on its scheduler and poller, serving clients that behave as  *)
(* client.cpp does: the acceptor coroutine (id 1), one coroutine for each  *)
(* connection (client_handler), the non-blocking transfers of              *)
(* basesocket.cpp, and client processes that may be ended at any point.    *)
(*                                                                         *)
(* A message is a header with its length and then its text.                *)
(***************************************************************************)
EXTENDS Scheduler, EPoller

CONSTANTS
    Commands,     \* what users type
    Returning,    \* clients whose user starts another process (a bound)
    HeaderUnits,  \* units of a message's length field
    TextUnits,    \* units of a text that is not empty
    NoFD          \* a coroutine without a socket

ASSUME EchoServerConstants ==
    /\ Returning \subseteq Clients
    /\ Commands \subseteq {"time", "echo:text", "echo:", "other", ""}
    /\ {HeaderUnits, TextUnits} \subseteq Nat \ {0}
    /\ NoFD \notin FDs /\ NoCoro \notin Ids

VARIABLES
    pc,        \* where each coroutine is
    sock,      \* the descriptor of its socket
    count,     \* units read or written of the message in transfer
    input,     \* client_handler's input, the request it has read
    accepted,  \* the descriptors AsyncAccept has collected, without a coroutine
    cpc,       \* where each client is
    req,       \* the command it sends or waits for the answer of
    answer,    \* the message in its connection's way back
    received   \* units it has read of that message

coroVars   == <<pc, sock, count, input, accepted>>
clientVars == <<cpc, req, answer, received>>
vars == <<schedVars, kernelVars, coroVars, clientVars>>

Acceptor == 1

Reply(command) == CASE command = "time"      -> "clock"
                    [] command = "echo:text" -> "text"
                    [] command = "echo:"     -> ""
                    [] OTHER                 -> "invalid command"

Frame(text) == HeaderUnits + (IF text = "" THEN 0 ELSE TextUnits)

(* AsyncWrite returns without a write when there is no text. *)
Response(command) == IF Reply(command) = "" THEN 0 ELSE Frame(Reply(command))

(* The header and the text are read, or written, in loops of their own. *)
Rest(n, total) == IF n < HeaderUnits THEN HeaderUnits - n ELSE total - n
Least(a, b)    == IF a < b THEN a ELSE b

Client(t)  == file[sock[t]]
ServerGone == phase \in {"done", "killed"}

Init ==
    /\ SchedInit
    /\ KernelInit
    /\ pc = [t \in Ids |-> IF t = Acceptor THEN "listen" ELSE "none"]
    /\ sock = [t \in Ids |-> NoFD]
    /\ count = [t \in Ids |-> 0]
    /\ input = [t \in Ids |-> ""]
    /\ accepted = <<>>
    /\ cpc = [c \in Clients |-> "new"]
    /\ req = [c \in Clients |-> ""]
    /\ answer = [c \in Clients |-> ""]
    /\ received = [c \in Clients |-> 0]

-----------------------------------------------------------------------------
(* The scheduler. *)
Switch(t) ==
    /\ Resume(t)
    /\ pc' = IF status[t] # "CREATED" /\ exception[t]
             THEN [pc EXCEPT ![t] = "rethrown"] ELSE pc
    /\ UNCHANGED <<kernelVars, sock, count, input, accepted, clientVars>>

(* The task's function goes, and with it the socket a handler captured. *)
Destroy(t) ==
    /\ Erase(t)
    /\ Close({sock[t]} \cap FDs)
    /\ pc' = [pc EXCEPT ![t] = "none"]
    /\ sock' = [sock EXCEPT ![t] = NoFD]
    /\ count' = [count EXCEPT ![t] = 0]
    /\ input' = [input EXCEPT ![t] = ""]
    /\ UNCHANGED <<accepted, clientVars>>

IteratorEnds == EndPass /\ UNCHANGED <<kernelVars, coroVars, clientVars>>

Poll ==
    /\ ProcessEvents({coro[f] : f \in Batch}, {coro[f] : f \in Failed})
    /\ PollEvents
    /\ UNCHANGED <<coroVars, clientVars>>

Throw(t) == Return(t) /\ UNCHANGED <<kernelVars, coroVars, clientVars>>
Await(t) == Yield(t) /\ UNCHANGED <<kernelVars, coroVars, clientVars>>

-----------------------------------------------------------------------------
(* The acceptor. *)
Listen(t) ==
    /\ pc[t] = "listen"
    /\ Executes(t)
    /\ FreeFDs # {}
    /\ file' = [file EXCEPT ![NextFD] = Listener]
    /\ sock' = [sock EXCEPT ![t] = NextFD]
    /\ pc' = [pc EXCEPT ![t] = "register"]
    /\ UNCHANGED <<schedVars, backlog, connVars, epollVars,
                   count, input, accepted, clientVars>>

BindFails(t) == pc[t] = "listen" /\ Throw(t)

AddAcceptEvent(t) ==
    /\ pc[t] = "register"
    /\ Executes(t)
    /\ AddEvent(sock[t], t)
    /\ pc' = [pc EXCEPT ![t] = "spawn"]
    /\ UNCHANGED <<schedVars, sock, count, input, accepted, clientVars>>

(* AsyncAccept suspends first, the first time before any accept. *)
AwaitClients(t) ==
    /\ pc[t] = "spawn"
    /\ accepted = <<>>
    /\ Yield(t)
    /\ pc' = [pc EXCEPT ![t] = "accept"]
    /\ UNCHANGED <<kernelVars, sock, count, input, accepted, clientVars>>

(* Mutant of Accept: one connection for each event. *)
AcceptOne(t) ==
    /\ pc[t] = "accept"
    /\ Executes(t)
    /\ FreeFDs # {} /\ backlog # <<>>
    /\ file' = [file EXCEPT ![NextFD] = Head(backlog)]
    /\ backlog' = Tail(backlog)
    /\ accepted' = Append(accepted, NextFD)
    /\ pc' = [pc EXCEPT ![t] = "spawn"]
    /\ UNCHANGED <<schedVars, connVars, epollVars, sock, count, input, clientVars>>

Accept(t) ==
    /\ pc[t] = "accept"
    /\ Executes(t)
    /\ FreeFDs # {} /\ backlog # <<>>
    /\ file' = [file EXCEPT ![NextFD] = Head(backlog)]
    /\ backlog' = Tail(backlog)
    /\ accepted' = Append(accepted, NextFD)
    /\ UNCHANGED <<schedVars, connVars, epollVars, pc, sock, count, input, clientVars>>

(* Mutant of NoneToAccept: EAGAIN throws like any other error. *)
NoneToAcceptThrows(t) ==
    /\ pc[t] = "accept"
    /\ FreeFDs # {} /\ backlog = <<>>
    /\ Return(t)
    /\ Close(ToSet(accepted) \cup {sock[t]})
    /\ accepted' = <<>>
    /\ sock' = [sock EXCEPT ![t] = NoFD]
    /\ UNCHANGED <<pc, count, input, clientVars>>

(* Mutants of AcceptFails: raw descriptors that nothing closes; a catch    *)
(* inside the loop of the acceptor.                                        *)
AcceptFailsLeaking(t) ==
    /\ pc[t] = "accept"
    /\ FreeFDs = {}
    /\ Return(t)
    /\ Close({sock[t]})
    /\ accepted' = <<>>
    /\ sock' = [sock EXCEPT ![t] = NoFD]
    /\ UNCHANGED <<pc, count, input, clientVars>>

AcceptFailsCaught(t) ==
    /\ pc[t] = "accept"
    /\ FreeFDs = {}
    /\ Yield(t)
    /\ Close(ToSet(accepted) \cup {sock[t]})
    /\ accepted' = <<>>
    /\ sock' = [sock EXCEPT ![t] = NoFD]
    /\ UNCHANGED <<pc, count, input, clientVars>>

(* EAGAIN *)
NoneToAccept(t) ==
    /\ pc[t] = "accept"
    /\ Executes(t)
    /\ FreeFDs # {} /\ backlog = <<>>
    /\ pc' = [pc EXCEPT ![t] = "spawn"]
    /\ UNCHANGED <<schedVars, kernelVars, sock, count, input, accepted, clientVars>>

(* EMFILE, which accept reports before it looks for a connection: AsyncAccept *)
(* throws, and unwinding closes what it had accepted and the listening socket. *)
AcceptFails(t) ==
    /\ pc[t] = "accept"
    /\ FreeFDs = {}
    /\ Return(t)
    /\ Close(ToSet(accepted) \cup {sock[t]})
    /\ accepted' = <<>>
    /\ sock' = [sock EXCEPT ![t] = NoFD]
    /\ UNCHANGED <<pc, count, input, clientVars>>

(* Mutant of Spawn: the function captures a variable of the loop. *)
SpawnLast(t) ==
    /\ pc[t] = "spawn"
    /\ accepted # <<>>
    /\ CreateTask(t)
    /\ accepted' = Tail(accepted)
    /\ status[id] = "ABSENT"
    /\ sock' = [sock EXCEPT ![id] = Last(accepted)]
    /\ pc' = [pc EXCEPT ![id] = "start"]
    /\ UNCHANGED <<kernelVars, count, input, clientVars>>

(* A socket whose coroutine takes an id still in use is closed with it. *)
Spawn(t) ==
    /\ pc[t] = "spawn"
    /\ accepted # <<>>
    /\ CreateTask(t)
    /\ accepted' = Tail(accepted)
    /\ IF status[id] = "ABSENT"
       THEN /\ sock' = [sock EXCEPT ![id] = Head(accepted)]
            /\ pc' = [pc EXCEPT ![id] = "start"]
            /\ UNCHANGED kernelVars
       ELSE Close({Head(accepted)}) /\ UNCHANGED <<sock, pc>>
    /\ UNCHANGED <<count, input, clientVars>>

-----------------------------------------------------------------------------
(* client_handler *)
(* Mutant of AddReadEvent: the registration is forgotten. *)
AddNoEvent(t) ==
    /\ pc[t] = "start"
    /\ Executes(t)
    /\ pc' = [pc EXCEPT ![t] = "read"]
    /\ UNCHANGED <<schedVars, kernelVars, sock, count, input, accepted, clientVars>>

AddReadEvent(t) ==
    /\ pc[t] = "start"
    /\ Executes(t)
    /\ AddEvent(sock[t], t)
    /\ pc' = [pc EXCEPT ![t] = "read"]
    /\ UNCHANGED <<schedVars, sock, count, input, accepted, clientVars>>

(* Mutants of Read: it suspends after a short read; it takes a short read  *)
(* for the whole message.                                                  *)
ReadThenYield(t) ==
    LET c == Client(t)
    IN  /\ pc[t] = "read"
        /\ inbuf[c] > 0
        /\ inbuf' = [inbuf EXCEPT ![c] = @ - 1]
        /\ count' = [count EXCEPT ![t] = @ + 1]
        /\ IF count[t] + 1 = Frame(req[c])
           THEN /\ Executes(t)
                /\ pc' = [pc EXCEPT ![t] = "dispatch"]
                /\ input' = [input EXCEPT ![t] = req[c]]
                /\ UNCHANGED schedVars
           ELSE Yield(t) /\ UNCHANGED <<pc, input>>
        /\ UNCHANGED <<file, backlog, peer, wire, outbuf, epollVars,
                       sock, accepted, clientVars>>

ReadShort(t) ==
    LET c == Client(t)
        n == Least(inbuf[c], Rest(count[t], Frame(req[c])))
    IN  /\ pc[t] = "read"
        /\ Executes(t)
        /\ n > 0
        /\ inbuf' = [inbuf EXCEPT ![c] = @ - n]
        /\ count' = [count EXCEPT ![t] = @ + n]
        /\ pc' = [pc EXCEPT ![t] = "dispatch"]
        /\ input' = [input EXCEPT ![t] = req[c]]
        /\ UNCHANGED <<schedVars, file, backlog, peer, wire, outbuf, epollVars,
                       sock, accepted, clientVars>>

(* One read of AsyncReadBytes that returns data. *)
Read(t) ==
    LET c == Client(t)
        n == Least(inbuf[c], Rest(count[t], Frame(req[c])))
    IN  /\ pc[t] = "read"
        /\ Executes(t)
        /\ n > 0
        /\ inbuf' = [inbuf EXCEPT ![c] = @ - n]
        /\ count' = [count EXCEPT ![t] = @ + n]
        /\ IF count[t] + n = Frame(req[c])
           THEN /\ pc' = [pc EXCEPT ![t] = "dispatch"]
                /\ input' = [input EXCEPT ![t] = req[c]]
           ELSE UNCHANGED <<pc, input>>
        /\ UNCHANGED <<schedVars, file, backlog, peer, wire, outbuf, epollVars,
                       sock, accepted, clientVars>>

ReadAgain(t)  == /\ pc[t] = "read"
                 /\ inbuf[Client(t)] = 0 /\ peer[Client(t)] = "up"
                 /\ Await(t)
ReadFails(t)  == /\ pc[t] = "read"
                 /\ inbuf[Client(t)] = 0 /\ peer[Client(t)] # "up"
                 /\ Throw(t)
EmptyInput(t) == pc[t] = "dispatch" /\ input[t] = "" /\ Throw(t)

(* Mutant of Dispatch: EPOLLOUT is not added to the registration. *)
DispatchForReading(t) ==
    /\ pc[t] = "dispatch"
    /\ Executes(t)
    /\ input[t] # ""
    /\ Control(sock[t], t, FALSE)
    /\ pc' = [pc EXCEPT ![t] = "write"]
    /\ count' = [count EXCEPT ![t] = 0]
    /\ UNCHANGED <<schedVars, sock, input, accepted, clientVars>>

Dispatch(t) ==
    /\ pc[t] = "dispatch"
    /\ Executes(t)
    /\ input[t] # ""
    /\ AppendWriteEvent(sock[t], t)
    /\ pc' = [pc EXCEPT ![t] = "write"]
    /\ count' = [count EXCEPT ![t] = 0]
    /\ UNCHANGED <<schedVars, sock, input, accepted, clientVars>>

Writes(t) == pc[t] = "write" /\ count[t] < Response(input[t])

(* One write of AsyncWriteBytes that takes data. *)
Write(t) ==
    LET c == Client(t)
        n == Least(SndBuf - outbuf[c], Rest(count[t], Response(input[t])))
    IN  /\ Writes(t)
        /\ Executes(t)
        /\ peer[c] \in {"up", "fin"}
        /\ n > 0
        /\ outbuf' = [outbuf EXCEPT ![c] = @ + n]
        /\ count' = [count EXCEPT ![t] = @ + n]
        /\ answer' = [answer EXCEPT ![c] = Reply(input[t])]
        /\ UNCHANGED <<schedVars, file, backlog, peer, wire, inbuf, epollVars,
                       pc, sock, input, accepted, cpc, req, received>>

(* Mutant of WriteAgain: the loop starts over when it is resumed. *)
WriteOver(t) ==
    /\ Writes(t)
    /\ peer[Client(t)] \in {"up", "fin"} /\ outbuf[Client(t)] = SndBuf
    /\ Yield(t)
    /\ count' = [count EXCEPT ![t] = 0]
    /\ UNCHANGED <<kernelVars, pc, sock, input, accepted, clientVars>>

WriteAgain(t) == /\ Writes(t)
                 /\ peer[Client(t)] \in {"up", "fin"} /\ outbuf[Client(t)] = SndBuf
                 /\ Await(t)
(* ECONNRESET throws; EPIPE comes with SIGPIPE, which nothing ignores. *)
WriteFails(t) == Writes(t) /\ peer[Client(t)] = "rst" /\ Throw(t)
SigPipe(t)    == /\ Writes(t)
                 /\ peer[Client(t)] = "finrst"
                 /\ Kill(t)
                 /\ UNCHANGED <<kernelVars, coroVars, clientVars>>

(* Mutant of Answered: EPOLLOUT stays in the registration. *)
AnsweredForWriting(t) ==
    /\ pc[t] = "write"
    /\ Executes(t)
    /\ count[t] = Response(input[t])
    /\ pc' = [pc EXCEPT ![t] = "read"]
    /\ count' = [count EXCEPT ![t] = 0]
    /\ input' = [input EXCEPT ![t] = ""]
    /\ UNCHANGED <<schedVars, kernelVars, sock, accepted, clientVars>>

Answered(t) ==
    /\ pc[t] = "write"
    /\ Executes(t)
    /\ count[t] = Response(input[t])
    /\ RemoveWriteEvent(sock[t], t)
    /\ pc' = [pc EXCEPT ![t] = "read"]
    /\ count' = [count EXCEPT ![t] = 0]
    /\ input' = [input EXCEPT ![t] = ""]
    /\ UNCHANGED <<schedVars, sock, accepted, clientVars>>

(* The exception of the poller reaches the catch of client_handler. *)
Rethrown(t) == pc[t] = "rethrown" /\ Throw(t)

-----------------------------------------------------------------------------
(* client.cpp *)
Connect(c) ==
    /\ cpc[c] = "new"
    /\ IF ServerGone \/ FDsOf(Listener) = {}
       THEN cpc' = [cpc EXCEPT ![c] = "gone"] /\ UNCHANGED kernelVars
       ELSE Handshake(c) /\ cpc' = [cpc EXCEPT ![c] = "idle"]
    /\ UNCHANGED <<schedVars, coroVars, req, answer, received>>

SendHeader(c) ==
    /\ cpc[c] = "idle"
    /\ req' \in {[req EXCEPT ![c] = command] : command \in Commands}
    /\ wire' = [wire EXCEPT ![c] = @ + HeaderUnits]
    /\ cpc' = [cpc EXCEPT ![c] = "text"]
    /\ UNCHANGED <<schedVars, coroVars, file, backlog, peer, inbuf, outbuf,
                   epollVars, answer, received>>

(* Mutant of SendText: the length is written once more. *)
SendAll(c) ==
    /\ cpc[c] = "text"
    /\ wire' = [wire EXCEPT ![c] = @ + Frame(req[c])]
    /\ cpc' = [cpc EXCEPT ![c] = "wait"]
    /\ UNCHANGED <<schedVars, coroVars, file, backlog, peer, inbuf, outbuf,
                   epollVars, req, answer, received>>

SendText(c) ==
    /\ cpc[c] = "text"
    /\ wire' = [wire EXCEPT ![c] = @ + Frame(req[c]) - HeaderUnits]
    /\ cpc' = [cpc EXCEPT ![c] = "wait"]
    /\ UNCHANGED <<schedVars, coroVars, file, backlog, peer, inbuf, outbuf,
                   epollVars, req, answer, received>>

(* One read of ReadBytes; room in a full send buffer wakes its writer. *)
Receive(c) ==
    LET n == Least(outbuf[c], Rest(received[c], Frame(answer[c])))
    IN  /\ cpc[c] = "wait"
        /\ n > 0
        /\ outbuf' = [outbuf EXCEPT ![c] = @ - n]
        /\ IF outbuf[c] = SndBuf THEN WakeWriter(c) ELSE UNCHANGED rdllist
        /\ IF received[c] + n = Frame(answer[c])
           THEN /\ received' = [received EXCEPT ![c] = 0]
                /\ cpc' = [cpc EXCEPT ![c] = "idle"]
           ELSE received' = [received EXCEPT ![c] = @ + n] /\ UNCHANGED cpc
        /\ UNCHANGED <<schedVars, coroVars, file, backlog, peer, wire, inbuf,
                       coro, out, req, answer>>

Leave(c, how) ==
    /\ cpc' = [cpc EXCEPT ![c] = how]
    /\ UNCHANGED <<schedVars, kernelVars, coroVars, req, answer, received>>

(* Its socket reports that the server's end is gone. *)
Disconnected(c) ==
    /\ cpc[c] \in {"text", "wait"}
    /\ peer[c] = "closed" \/ ServerGone
    /\ Leave(c, "gone")

(* The process is ended by its user; unread data make the close a reset. *)
Quit(c) ==
    /\ cpc[c] \in {"idle", "text", "wait"}
    /\ \/ Leave(c, "gone")
       \/ outbuf[c] > 0 /\ Leave(c, "aborted")

(* Another client process is started. *)
Restart(c) ==
    /\ c \in Returning
    /\ cpc[c] \in {"gone", "aborted"}
    /\ peer[c] \in {"none", "closed"}
    /\ cpc' = [cpc EXCEPT ![c] = "new"]
    /\ peer' = [peer EXCEPT ![c] = "none"]
    /\ wire' = [wire EXCEPT ![c] = 0]
    /\ outbuf' = [outbuf EXCEPT ![c] = 0]
    /\ req' = [req EXCEPT ![c] = ""]
    /\ answer' = [answer EXCEPT ![c] = ""]
    /\ received' = [received EXCEPT ![c] = 0]
    /\ UNCHANGED <<schedVars, coroVars, file, backlog, inbuf, epollVars>>

Network(c) ==
    /\ ~ServerGone
    /\ \/ Deliver(c)
       \/ cpc[c] = "gone" /\ ArriveFin(c)
       \/ cpc[c] = (IF peer[c] = "up" THEN "aborted" ELSE "gone") /\ ArriveRst(c)
    /\ UNCHANGED <<schedVars, coroVars, clientVars>>

-----------------------------------------------------------------------------
AcceptorStep(t) ==
    \/ Listen(t) \/ BindFails(t) \/ AddAcceptEvent(t) \/ AwaitClients(t)
    \/ Accept(t) \/ NoneToAccept(t) \/ AcceptFails(t) \/ Spawn(t)

HandlerStep(t) ==
    \/ AddReadEvent(t) \/ Read(t) \/ ReadAgain(t) \/ ReadFails(t)
    \/ EmptyInput(t) \/ Dispatch(t) \/ Write(t) \/ WriteAgain(t)
    \/ WriteFails(t) \/ SigPipe(t) \/ Answered(t) \/ Rethrown(t)

Server ==
    \/ \E t \in Ids : \/ Switch(t) \/ Destroy(t)
                      \/ AcceptorStep(t) \/ HandlerStep(t)
    \/ IteratorEnds
    \/ Poll

ClientStep(c) == SendText(c) \/ Receive(c) \/ Disconnected(c)

Next ==
    \/ Server
    \/ \E c \in Clients : \/ Connect(c) \/ SendHeader(c) \/ ClientStep(c)
                          \/ Quit(c) \/ Restart(c) \/ Network(c)

Spec == Init /\ [][Next]_vars

(* The server is one thread that goes on by itself; so do the client's     *)
(* calls and the segments on the network.  Users need not type anything.   *)
Fairness ==
    /\ WF_vars(Server)
    /\ \A c \in Clients : WF_vars(ClientStep(c)) /\ WF_vars(Network(c))

FairSpec == Spec /\ Fairness

-----------------------------------------------------------------------------
AcceptorPCs == {"listen", "register", "spawn", "accept"}
HandlerPCs  == {"start", "read", "dispatch", "write", "rethrown"}
Handlers    == {t \in Live : pc[t] \in HandlerPCs}
Serving(c)  == {t \in Handlers : sock[t] \in FDsOf(c)}

(* Type correctness; at most one request and one answer are in transfer. *)
TypeOK ==
    /\ file \in [FDs -> Clients \cup {Free, Listener}]
    /\ backlog \in Seq(Clients) /\ Len(backlog) <= Backlog
    /\ peer \in [Clients -> PeerStates]
    /\ wire \in [Clients -> 0 .. HeaderUnits + TextUnits]
    /\ inbuf \in [Clients -> 0 .. HeaderUnits + TextUnits]
    /\ outbuf \in [Clients -> 0 .. SndBuf]
    /\ coro \in [FDs -> Ids \cup {NoCoro}]
    /\ out \in [FDs -> BOOLEAN]
    /\ rdllist \in Seq(Registered) /\ IsInjective(rdllist)
    /\ pc \in [Ids -> AcceptorPCs \cup HandlerPCs \cup {"none"}]
    /\ sock \in [Ids -> FDs \cup {NoFD}]
    /\ count \in [Ids -> 0 .. HeaderUnits + TextUnits]
    /\ input \in [Ids -> Commands \cup {""}]
    /\ accepted \in Seq(FDs)
    /\ cpc \in [Clients -> {"new", "idle", "text", "wait", "gone", "aborted"}]
    /\ req \in [Clients -> Commands \cup {""}]
    /\ answer \in [Clients -> {Reply(command) : command \in Commands} \cup {""}]
    /\ received \in [Clients -> 0 .. HeaderUnits + TextUnits]

(* What a suspended coroutine would find if it tried again now. *)
CouldProceed(t) ==
    \/ pc[t] = "accept" /\ backlog # <<>>
    \/ pc[t] = "read" /\ Readable(sock[t])
    \/ pc[t] = "write" /\ Writable(sock[t])
    \/ Hangup(sock[t])

(* Edge-triggered registrations report an event once, so no coroutine may  *)
(* suspend itself before it has seen EAGAIN, no event may be taken from    *)
(* the epoll instance without waking its coroutine, and the event mask     *)
(* must have what the coroutine waits for: whoever sleeps although it      *)
(* could proceed is about to be reported by epoll_wait.                    *)
NoLostWakeup ==
    \A t \in Ids : status[t] = "WAITING" /\ CouldProceed(t) =>
        /\ sock[t] \in ToSet(rdllist)
        /\ coro[sock[t]] = t
        /\ HasEvent(sock[t], out[sock[t]])

(* Every open connection has exactly one owner, a coroutine or the vector  *)
(* AsyncAccept fills; no coroutine holds a descriptor that was closed or   *)
(* belongs to another; what is registered is registered by its owner.      *)
DescriptorsAreOwned ==
    /\ \A c \in Clients : Cardinality(FDsOf(c)) <= 1
    /\ IsInjective(accepted)
    /\ \A f \in FDs :
          LET owners == {t \in Live : sock[t] = f}
          IN  /\ Cardinality(owners) = IF file[f] = Free \/ f \in ToSet(accepted)
                                       THEN 0 ELSE 1
              /\ coro[f] # NoCoro => owners = {coro[f]}
    /\ \A f \in ToSet(accepted) : file[f] \in Clients

(* From AddReadEvent until it returns, a handler without a pending         *)
(* exception is in the epoll instance, for writing exactly while it writes: *)
(* AppendWriteEvent and RemoveWriteEvent never meet a deleted descriptor.  *)
RegisteredWhileServing ==
    \A t \in Handlers :
        pc[t] \in {"read", "dispatch", "write"} /\ ~exception[t] =>
            /\ coro[sock[t]] = t
            /\ out[sock[t]] <=> pc[t] = "write"

(* The units the client has sent of its request are those the handler has  *)
(* read, those in the receive buffer and those on the wire; once the       *)
(* handler answers, what it has written is what the client has read and    *)
(* what is on the way: no frame is cut, skipped or read twice, however the *)
(* transfers are split.                                                    *)
Sent(c) == CASE cpc[c] = "text" -> HeaderUnits
             [] cpc[c] = "wait" -> Frame(req[c])
             [] OTHER           -> 0

FramesAreWhole ==
    \A c \in Clients : \A t \in Serving(c) :
        LET unread == inbuf[c] + wire[c]
            coming == received[c] + outbuf[c]
        IN  peer[c] = "up" /\ cpc[c] \in {"idle", "text", "wait"} =>
               \/ pc[t] # "write" /\ count[t] + unread = Sent(c) /\ coming = 0
               \/ pc[t] = "write" /\ cpc[c] = "wait"
                  /\ unread = 0 /\ coming = count[t]
               \/ pc[t] = "read" /\ cpc[c] = "wait" /\ count[t] = 0
                  /\ unread = 0 /\ coming = Response(req[c])
               \/ pc[t] = "write" /\ count[t] = Response(input[t])
                  /\ unread = Sent(c) /\ coming = 0

(* A client gets the answer to the request it has sent, whatever other     *)
(* connections, reused descriptors and reused ids there are.               *)
AnswersMatch ==
    [][\A c \in Clients : cpc[c] = "wait" /\ cpc'[c] = "idle" =>
          answer[c] = Reply(req[c])]_vars

(* With a descriptor to spare for the accept that finds nothing, the       *)
(* acceptor keeps listening for good.                                      *)
ListenerStays ==
    [][Cardinality(FDs) >= Cardinality(Clients) + 2 =>
          (FDsOf(Listener) # {} => FDsOf(Listener)' # {})]_vars

(* The server is a scheduler whose coroutines sleep only while they are    *)
(* registered and leave the epoll instance before they leave task_map.     *)
Loop == INSTANCE PollLoop WITH Creators <- {Acceptor}, watched <- Watched

LoopSpec == Loop!Spec

(* Unless one handler never has to wait, every request that has an answer  *)
(* is answered or its connection is seen to end.                           *)
RequestsEnd ==
    []<>(current = NoTask) =>
        \A c \in Clients :
            cpc[c] = "wait" /\ req[c] # "echo:" ~> cpc[c] # "wait"

(* What client.cpp takes for granted: every line it sends has a response.  *)
EveryLineIsAnswered ==
    []<>(current = NoTask) => \A c \in Clients : cpc[c] = "wait" ~> cpc[c] # "wait"

(* What epoller.cpp says of a remote end that has closed: its descriptor   *)
(* leaves the epoll instance and its coroutine gets an exception; nothing  *)
(* else happens to the process.                                            *)
CloseIsLocal == phase # "killed"
=============================================================================
