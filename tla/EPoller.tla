------------------------------- MODULE EPoller -------------------------------
(***************************************************************************)
(* What the server process shares with its kernel: the descriptor table,   *)
(* the connections behind it and the epoll instance, with the operations   *)
(* of EPoller (epoller.cpp) on it.  The kernel's part follows how the code *)
(* uses it: edge-triggered registrations, a FIFO of ready ones, and a scan *)
(* of that FIFO by epoll_wait which re-polls each descriptor it takes.     *)
(*                                                                         *)
(* Data are counted in units: the server reads and writes as many as there *)
(* are or as fit, so that every split of a message into calls can happen.  *)
(***************************************************************************)
EXTENDS Integers, FiniteSets, Sequences, SequencesExt

CONSTANTS
    Clients,      \* client processes
    FDs,          \* descriptors the process may open besides its first ones
    Backlog,      \* completed connections the listening socket holds
    SndBuf,       \* units between the server's write and the client's read
    MaxEvents,    \* max_epoll_events
    Free,         \* a descriptor that is not open
    Listener,     \* the listening socket
    NoCoro        \* a descriptor that is not in the epoll instance

ASSUME EPollerConstants ==
    /\ FDs \subseteq Nat \ {0} /\ IsFiniteSet(FDs) /\ IsFiniteSet(Clients)
    /\ {Backlog, SndBuf, MaxEvents} \subseteq Nat \ {0}
    /\ {Free, Listener} \cap Clients = {} /\ Free # Listener

VARIABLES
    file,      \* what each descriptor refers to
    backlog,   \* clients connected and not accepted, oldest first
    peer,      \* state of each client's connection, as the server's side sees it
    wire,      \* units sent by the client, not arrived
    inbuf,     \* units arrived, not read by the server
    outbuf,    \* units written by the server, not read by the client
    coro,      \* coroutine id packed into each registration
    out,       \* registration's event mask has EPOLLOUT besides EPOLLIN
    rdllist    \* registered descriptors with an event to report, oldest first

connVars  == <<peer, wire, inbuf, outbuf>>
epollVars == <<coro, out, rdllist>>
kernelVars == <<file, backlog, connVars, epollVars>>

PeerStates == {"none", "up", "fin", "rst", "finrst", "closed"}

FreeFDs    == {f \in FDs : file[f] = Free}
NextFD     == CHOOSE f \in FreeFDs : \A g \in FreeFDs : f <= g
FDsOf(s)   == {f \in FDs : file[f] = s}
Registered == {f \in FDs : coro[f] # NoCoro}
Watched    == {coro[f] : f \in Registered}

KernelInit ==
    /\ file = [f \in FDs |-> Free]
    /\ backlog = <<>>
    /\ peer = [c \in Clients |-> "none"]
    /\ wire = [c \in Clients |-> 0]
    /\ inbuf = [c \in Clients |-> 0]
    /\ outbuf = [c \in Clients |-> 0]
    /\ coro = [f \in FDs |-> NoCoro]
    /\ out = [f \in FDs |-> FALSE]
    /\ rdllist = <<>>

-----------------------------------------------------------------------------
(* What polling a descriptor finds. *)
Hangup(f)   == file[f] \in Clients /\ peer[file[f]] \in {"rst", "finrst"}
Readable(f) == IF file[f] = Listener
               THEN backlog # <<>>
               ELSE inbuf[file[f]] > 0 \/ peer[file[f]] # "up"
Writable(f) == file[f] \in Clients /\ outbuf[file[f]] < SndBuf

HasEvent(f, mask) == Hangup(f) \/ Readable(f) \/ (mask /\ Writable(f))

(* An event links a registered descriptor into the ready list once. *)
Linked(f) == IF f \in ToSet(rdllist) THEN rdllist ELSE Append(rdllist, f)
Wake(s)   == rdllist' = IF FDsOf(s) \cap Registered = {} THEN rdllist
                        ELSE Linked(CHOOSE f \in FDsOf(s) : TRUE)
WakeWriter(c) == IF \E f \in FDsOf(c) \cap Registered : out[f]
                 THEN Wake(c) ELSE UNCHANGED rdllist

(* EPOLL_CTL_ADD and EPOLL_CTL_MOD poll the descriptor once. *)
Control(f, t, mask) ==
    /\ coro' = [coro EXCEPT ![f] = t]
    /\ out' = [out EXCEPT ![f] = mask]
    /\ rdllist' = IF HasEvent(f, mask) THEN Linked(f) ELSE rdllist
    /\ UNCHANGED <<file, backlog, connVars>>

AddEvent(f, t)         == f \notin Registered /\ Control(f, t, FALSE)
AppendWriteEvent(f, t) == f \in Registered /\ Control(f, t, TRUE)
RemoveWriteEvent(f, t) == f \in Registered /\ Control(f, t, FALSE)

(* epoll_wait takes descriptors until MaxEvents of them had an event to    *)
(* report; those taken without one are dropped, the rest keeps its order.  *)
Eventful(n) == {f \in ToSet(SubSeq(rdllist, 1, n)) : HasEvent(f, out[f])}
Taken  == Cardinality({n \in 1..Len(rdllist) :
                          Cardinality(Eventful(n - 1)) < MaxEvents})
Batch  == Eventful(Taken)
Failed == {f \in Batch : Hangup(f)}

(* Poll deletes the descriptors that report EPOLLERR or EPOLLHUP. *)
PollEvents ==
    /\ rdllist' = SubSeq(rdllist, Taken + 1, Len(rdllist))
    /\ coro' = [f \in FDs |-> IF f \in Failed THEN NoCoro ELSE coro[f]]
    /\ out' = [f \in FDs |-> out[f] /\ f \notin Failed]
    /\ UNCHANGED <<file, backlog, connVars>>

(* The sequence s without the elements of X, in the order they had. *)
Without(s, X) ==
    LET rest[n \in 0..Len(s)] == IF n = 0 THEN <<>>
                                 ELSE IF s[n] \in X THEN rest[n - 1]
                                 ELSE Append(rest[n - 1], s[n])
    IN  rest[Len(s)]

(* close takes a descriptor out of the epoll instance and the connection   *)
(* down; closing the listening socket resets what is in its backlog.       *)
Close(fds) ==
    LET reset == IF \E f \in fds : file[f] = Listener THEN ToSet(backlog) ELSE {}
        down  == {c \in Clients : FDsOf(c) \cap fds # {}} \cup reset
    IN  /\ file' = [f \in FDs |-> IF f \in fds THEN Free ELSE file[f]]
        /\ backlog' = IF \E f \in fds : file[f] = Listener THEN <<>> ELSE backlog
        /\ peer' = [c \in Clients |-> IF c \in down THEN "closed" ELSE peer[c]]
        /\ inbuf' = [c \in Clients |-> IF c \in down THEN 0 ELSE inbuf[c]]
        /\ coro' = [f \in FDs |-> IF f \in fds THEN NoCoro ELSE coro[f]]
        /\ out' = [f \in FDs |-> out[f] /\ f \notin fds]
        /\ rdllist' = Without(rdllist, fds)
        /\ UNCHANGED <<wire, outbuf>>

-----------------------------------------------------------------------------
(* The other end, and the network between. *)
Handshake(c) ==
    /\ FDsOf(Listener) # {}
    /\ Len(backlog) < Backlog
    /\ backlog' = Append(backlog, c)
    /\ peer' = [peer EXCEPT ![c] = "up"]
    /\ Wake(Listener)
    /\ UNCHANGED <<file, wire, inbuf, outbuf, coro, out>>

Deliver(c) ==
    /\ peer[c] = "up"
    /\ wire[c] > 0
    /\ wire' = [wire EXCEPT ![c] = @ - 1]
    /\ inbuf' = [inbuf EXCEPT ![c] = @ + 1]
    /\ Wake(c)
    /\ UNCHANGED <<file, backlog, peer, outbuf, coro, out>>

ArriveFin(c) ==
    /\ peer[c] = "up"
    /\ wire[c] = 0
    /\ peer' = [peer EXCEPT ![c] = "fin"]
    /\ Wake(c)
    /\ UNCHANGED <<file, backlog, wire, inbuf, outbuf, coro, out>>

(* A reset before the end of the stream, or in answer to data that reached *)
(* a client which had closed: the second leaves EPIPE to the next write.   *)
ArriveRst(c) ==
    /\ \/ peer[c] = "up" /\ wire[c] = 0
       \/ peer[c] = "fin" /\ outbuf[c] > 0
    /\ peer' = [peer EXCEPT ![c] = IF @ = "up" THEN "rst" ELSE "finrst"]
    /\ outbuf' = [outbuf EXCEPT ![c] = 0]
    /\ Wake(c)
    /\ UNCHANGED <<file, backlog, wire, inbuf, coro, out>>
=============================================================================
