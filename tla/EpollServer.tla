---------------------------- MODULE EpollServer -----------------------------
(***************************************************************************)
(* src/clib/epoll_multi_instance.c: main accepts connections and registers *)
(* them in turn with EPOLL_INS_CNT epoll instances, each of which has a    *)
(* worker that reads what the clients send and writes it to its output.    *)
(*                                                                         *)
(* The kernel is abstract.  An instance has an interest list and the set   *)
(* of connections with an event to report: edge-triggered, a connection    *)
(* gets there when something arrives, and leaves when epoll_wait reports   *)
(* it, whether it is then read to its end or not.  The j-th byte of a      *)
(* connection is called j.  A connection stands for its descriptor.        *)
(***************************************************************************)
EXTENDS SequencesExt, FiniteSetsExt

CONSTANTS MaxConns,       \* bound: connections the clients make
          EPOLL_INS_CNT,  \* epoll instances
          MAX_EVENT,      \* events one epoll_wait may report
          READ_BUF_LEN,   \* bytes one read may return
          MaxBytes,       \* bound: bytes the clients send
          MaxHangUps,     \* bound: connections the clients close or reset
          MaxLost         \* bound: bytes the writes of the workers drop

ASSUME EpollAssumption ==
  /\ {EPOLL_INS_CNT, MAX_EVENT, READ_BUF_LEN} \subseteq Nat \ {0}
  /\ {MaxConns, MaxBytes, MaxHangUps, MaxLost} \subseteq Nat

Workers == 0..(EPOLL_INS_CNT - 1)

(* In the order in which they are made. *)
Conns == 1..MaxConns

NoConn == 0

VARIABLES stage,      \* each connection: "new", "backlog", "accepted" or "closed" by a worker
          sent,       \* bytes the client has sent on it
          end,        \* the client's side: "open", "fin" or "reset"
          taken,      \* bytes read from it
          out,        \* bytes of it written to the output
          lost,       \* history: bytes of it that a write did not take
          backlog, listenReady,   \* the listening socket, and its event for main
          mpc,        \* main: "setup", "wait", "accept", "register" or "exited"
          accp_fd,    \* the connection main is registering
          accept_cnt, \* modulo EPOLL_INS_CNT
          refused,    \* an accept has failed with a connection in the backlog
          epfds,      \* instances whose descriptor is in epfds[]
          interest, ready,        \* the instances in the kernel
          wpc,        \* worker: "none", "start", "dead", "wait", "read", "write", "close"
          event,      \* the events of a worker it has not handled yet
          buf         \* the bytes a worker has read and not written yet

connVars   == <<stage, sent, end, taken, out, lost>>
mainVars   == <<backlog, listenReady, mpc, accp_fd, accept_cnt, refused>>
kernelVars == <<interest, ready>>
workVars   == <<wpc, event, buf>>
vars       == <<connVars, mainVars, epfds, kernelVars, workVars>>

(* main has bound the socket and called listen. *)
Init ==
  /\ stage = [c \in Conns |-> "new"]
  /\ sent = [c \in Conns |-> 0]
  /\ end = [c \in Conns |-> "open"]
  /\ taken = [c \in Conns |-> 0]
  /\ out = [c \in Conns |-> <<>>]
  /\ lost = [c \in Conns |-> {}]
  /\ backlog = <<>> /\ listenReady = FALSE
  /\ mpc = "setup" /\ accp_fd = NoConn /\ accept_cnt = 0 /\ refused = FALSE
  /\ epfds = {}
  /\ interest = [w \in Workers |-> {}]
  /\ ready = [w \in Workers |-> {}]
  /\ wpc = [w \in Workers |-> "none"]
  /\ event = [w \in Workers |-> <<>>]
  /\ buf = [w \in Workers |-> <<>>]

-----------------------------------------------------------------------------
(* The clients.  An arrival is an edge for every instance interested.      *)
Edge(c) ==
  ready' = [w \in Workers |-> IF c \in interest[w] THEN ready[w] \cup {c} ELSE ready[w]]

Connect(c) ==
  /\ mpc # "exited" /\ stage[c] = "new"
  /\ \A b \in 1..(c - 1) : stage[b] # "new"
  /\ stage' = [stage EXCEPT ![c] = "backlog"]
  /\ backlog' = Append(backlog, c)
  /\ listenReady' = (mpc # "setup")
  /\ UNCHANGED <<sent, end, taken, out, lost, mpc, accp_fd, accept_cnt, refused, epfds, kernelVars, workVars>>

Connected(c) == mpc # "exited" /\ stage[c] \in {"backlog", "accepted"} /\ end[c] = "open"

Send(c) ==
  /\ Connected(c)
  /\ \E n \in 1..MaxBytes :
       /\ MapThenSumSet(LAMBDA b : sent[b], Conns) + n <= MaxBytes
       /\ sent' = [sent EXCEPT ![c] = @ + n]
  /\ Edge(c)
  /\ UNCHANGED <<stage, end, taken, out, lost, mainVars, epfds, interest, workVars>>

HangUp(c) ==
  /\ Connected(c)
  /\ Cardinality({b \in Conns : end[b] # "open"}) < MaxHangUps
  /\ \E how \in {"fin", "reset"} : end' = [end EXCEPT ![c] = how]
  /\ Edge(c)
  /\ UNCHANGED <<stage, sent, taken, out, lost, mainVars, epfds, interest, workVars>>

-----------------------------------------------------------------------------
(* main *)

(* epoll_multi_create, which does not wait for the threads it creates, and *)
(* main's own instance; a backlog that is there already is an event.       *)
MainSetup ==
  /\ mpc = "setup"
  /\ wpc' = [w \in Workers |-> "start"]
  /\ listenReady' = (backlog # <<>>)
  /\ mpc' = "wait"
  /\ UNCHANGED <<connVars, backlog, accp_fd, accept_cnt, refused, epfds, kernelVars, event, buf>>

(* main's instance holds the listening socket only, opened for EPOLLIN,    *)
(* and what epoll reports of it is a connection to accept: the branch that *)
(* closes a descriptor with an error is never taken.                       *)
MainWait ==
  /\ mpc = "wait" /\ listenReady
  /\ listenReady' = FALSE
  /\ mpc' = "accept"
  /\ UNCHANGED <<connVars, backlog, accp_fd, accept_cnt, refused, epfds, kernelVars, workVars>>

Accept ==
  /\ mpc = "accept" /\ backlog # <<>>
  /\ accp_fd' = Head(backlog)
  /\ backlog' = Tail(backlog)
  /\ stage' = [stage EXCEPT ![Head(backlog)] = "accepted"]
  /\ mpc' = "register"
  /\ UNCHANGED <<sent, end, taken, out, lost, listenReady, accept_cnt, refused, epfds,
                 kernelVars, workVars>>

(* accept returns -1 when the backlog is empty, or, once, for want of a    *)
(* descriptor; the loop ends in either case.                               *)
AcceptNothing ==
  /\ mpc = "accept"
  /\ backlog = <<>> \/ ~refused
  /\ refused' = (refused \/ backlog # <<>>)
  /\ mpc' = "wait"
  /\ UNCHANGED <<connVars, backlog, listenReady, accp_fd, accept_cnt, epfds, kernelVars, workVars>>

Readable(c) == sent[c] > taken[c] \/ end[c] # "open"

(* EPOLL_CTL_ADD to the instances of set S. *)
Add(S, c) ==
  /\ interest' = [w \in Workers |-> IF w \in S THEN interest[w] \cup {c} ELSE interest[w]]
  /\ ready' = [w \in Workers |->
                 IF w \in S /\ Readable(c) THEN ready[w] \cup {c} ELSE ready[w]]

(* Mutant: registered with the next instance, too. *)
TargetAndNext == {accept_cnt, (accept_cnt + 1) % EPOLL_INS_CNT}

(* The instance main registers the next connection with. *)
Target == {accept_cnt}

(* Mutant: one accept for each event of the listening socket. *)
OneAccept == "wait"

AfterRegister == "accept"

Register ==
  /\ mpc = "register" /\ accept_cnt \in epfds
  /\ Add(Target, accp_fd)
  /\ accp_fd' = NoConn
  /\ accept_cnt' = (accept_cnt + 1) % EPOLL_INS_CNT
  /\ mpc' = AfterRegister
  /\ UNCHANGED <<connVars, backlog, listenReady, refused, epfds, workVars>>

(* main returns: a call of its own fails, as epoll_ctl always does while    *)
(* epfds[] is 0 still at this index, and not an instance.                  *)
MainReturns ==
  /\ mpc \in {"setup", "register"}
  /\ mpc' = "exited"
  /\ UNCHANGED <<connVars, backlog, listenReady, accp_fd, accept_cnt, refused, epfds,
                 kernelVars, workVars>>

MainStep == MainSetup \/ MainWait \/ Accept \/ AcceptNothing \/ Register \/ MainReturns

-----------------------------------------------------------------------------
(* epoll_do_create *)
At(w, step) == mpc # "exited" /\ wpc[w] = step

Goes(w, step) == wpc' = [wpc EXCEPT ![w] = step]

Create(w) ==
  /\ At(w, "start")
  /\ \/ epfds' = epfds \cup {w} /\ Goes(w, "wait")
     \/ UNCHANGED epfds /\ Goes(w, "dead")
  /\ UNCHANGED <<connVars, mainVars, kernelVars, event, buf>>

(* epoll_wait *)
Wait(w) ==
  /\ At(w, "wait") /\ ready[w] # {}
  /\ \E S \in kSubset(Min({MAX_EVENT, Cardinality(ready[w])}), ready[w]) :
       /\ \E events \in SetToSeqs(S) : event' = [event EXCEPT ![w] = events]
       /\ ready' = [ready EXCEPT ![w] = @ \ S]
  /\ Goes(w, "read")
  /\ UNCHANGED <<connVars, mainVars, epfds, interest, buf>>

Current(w) == Head(event[w])

Unread(c) == sent[c] - taken[c]

(* Mutant: room is kept for a terminating zero. *)
ReadLenLessOne == READ_BUF_LEN - 1

(* The length of a read: sizeof(buf). *)
ReadLen == READ_BUF_LEN

(* What came before a reset may be read still.                             *)
ReadData(w) ==
  /\ At(w, "read")
  /\ LET c == Current(w)
         n == Min({ReadLen, Unread(c)})
     IN  /\ n > 0
         /\ buf' = [buf EXCEPT ![w] = [j \in 1..n |-> taken[c] + j]]
         /\ taken' = [taken EXCEPT ![c] = @ + n]
  /\ Goes(w, "write")
  /\ UNCHANGED <<stage, sent, end, out, lost, mainVars, epfds, kernelVars, event>>

(* Mutant: any result of -1 is an error. *)
EndedOrNothing(c) == end[c] = "reset" \/ Unread(c) = 0

(* read returns 0, or -1 and not EAGAIN. *)
Ended(c) == end[c] = "reset" \/ (end[c] = "fin" /\ Unread(c) = 0)

(* The end of the stream, or an error: the loop over the events ends.      *)
ReadEnd(w) ==
  /\ At(w, "read")
  /\ Ended(Current(w))
  /\ Goes(w, "close")
  /\ UNCHANGED <<connVars, mainVars, epfds, kernelVars, event, buf>>

(* EAGAIN, when an earlier read has taken what the event was about: the    *)
(* loop over the events ends here, too.                                    *)
ReadNothing(w) ==
  /\ At(w, "read")
  /\ LET c == Current(w) IN end[c] = "open" /\ Unread(c) = 0
  /\ event' = [event EXCEPT ![w] = <<>>]
  /\ Goes(w, "wait")
  /\ UNCHANGED <<connVars, mainVars, epfds, kernelVars, buf>>

(* The bytes the writes have dropped so far. *)
LostBytes == Cardinality({b \in Conns \X (1..MaxBytes) : b[2] \in lost[b[1]]})

(* The first n bytes reach the output.  The result of write is not looked  *)
(* at: the others, all of them after an error, are dropped with the        *)
(* buffer.                                                                 *)
Write(w) ==
  /\ At(w, "write")
  /\ \E n \in 0..Len(buf[w]) :
       /\ LostBytes + Len(buf[w]) - n <= MaxLost
       /\ out' = [out EXCEPT ![Current(w)] = @ \o SubSeq(buf[w], 1, n)]
       /\ lost' = [lost EXCEPT ![Current(w)] = @ \cup {buf[w][j] : j \in (n + 1)..Len(buf[w])}]
  /\ buf' = [buf EXCEPT ![w] = <<>>]
  /\ event' = [event EXCEPT ![w] = Tail(@)]
  /\ Goes(w, IF event'[w] = <<>> THEN "wait" ELSE "read")
  /\ UNCHANGED <<stage, sent, end, taken, mainVars, epfds, kernelVars>>

(* close takes the descriptor out of every instance. *)
Close(w) ==
  /\ At(w, "close")
  /\ stage' = [stage EXCEPT ![Current(w)] = "closed"]
  /\ interest' = [v \in Workers |-> interest[v] \ {Current(w)}]
  /\ ready' = [v \in Workers |-> ready[v] \ {Current(w)}]
  /\ event' = [event EXCEPT ![w] = <<>>]
  /\ Goes(w, "wait")
  /\ UNCHANGED <<sent, end, taken, out, lost, mainVars, epfds, buf>>

WorkerStep(w) ==
  \/ Create(w) \/ Wait(w) \/ ReadData(w) \/ ReadEnd(w) \/ ReadNothing(w) \/ Write(w)
  \/ Close(w)

-----------------------------------------------------------------------------
Next ==
  \/ MainStep
  \/ \E w \in Workers : WorkerStep(w)
  \/ \E c \in Conns : Connect(c) \/ Send(c) \/ HangUp(c)

(* main and the workers are scheduled again and again; clients do as they  *)
(* like.                                                                   *)
Spec ==
  /\ Init /\ [][Next]_vars
  /\ WF_vars(MainStep)
  /\ \A w \in Workers : WF_vars(WorkerStep(w))

-----------------------------------------------------------------------------
TypeOK ==
  /\ stage \in [Conns -> {"new", "backlog", "accepted", "closed"}]
  /\ sent \in [Conns -> Nat] /\ taken \in [Conns -> Nat] /\ lost \in [Conns -> SUBSET Nat]
  /\ end \in [Conns -> {"open", "fin", "reset"}]
  /\ mpc \in {"setup", "wait", "accept", "register", "exited"}
  /\ accp_fd \in Conns \cup {NoConn} /\ accept_cnt \in Workers /\ epfds \subseteq Workers
  /\ interest \in [Workers -> SUBSET Conns] /\ ready \in [Workers -> SUBSET Conns]
  /\ wpc \in [Workers -> {"none", "start", "dead", "wait", "read", "write", "close"}]

(* A worker never reads or closes a descriptor that has been closed (and   *)
(* may be another connection's by then): its events are those of its own   *)
(* connections, and it forgets the rest of them when it closes one.        *)
HandlesOpenOnly ==
  /\ TypeOK
  /\ \A w \in Workers : \A c \in Range(event[w]) : stage[c] = "accepted" /\ c \in interest[w]

(* The bytes of a connection a worker has handed to write. *)
Handed(c) == Range(out[c]) \cup lost[c]

(* The output of a connection is what the client sent, in order, nothing   *)
(* twice, and nothing is left out but what a write of the worker that      *)
(* serves it has dropped: no two workers share a connection, and a worker  *)
(* that comes back to it goes on where it stopped.                         *)
OutputInOrder ==
  \A c \in Conns :
    /\ \A i, j \in DOMAIN out[c] : i < j => out[c][i] < out[c][j]
    /\ Range(out[c]) \cap lost[c] = {}
    /\ \E n \in 0..sent[c] : Handed(c) = 1..n

(* A connection is closed on an error, or after the client has closed it   *)
(* and everything it sent has been handed to write; what a write dropped   *)
(* is lost for good then.                                                  *)
ClosedComplete ==
  \A c \in Conns :
    stage[c] = "closed" /\ end[c] # "reset" => end[c] = "fin" /\ Handed(c) = 1..sent[c]

(* The accept loop (the comment on line 196: edge-triggered mode requires  *)
(* a loop here) leaves nobody in the backlog, whenever connections arrive  *)
(* during the loop, as long as accept does not fail and main does not      *)
(* return because a call fails.                                            *)
AcceptsAll ==
  \A c \in Conns :
    stage[c] = "backlog" ~> (stage[c] # "backlog" \/ refused \/ mpc = "exited")

(* Another connection is registered with the same instance, if at all. *)
Shares(c) == \E b \in Conns \ {c} : stage[b] # "new" /\ b % EPOLL_INS_CNT = c % EPOLL_INS_CNT

(* One read per event takes all there is, if nothing is left behind by     *)
(* what the code does not handle: the client sends no more than one read   *)
(* takes, no other connection of the worker ends the batch, nobody resets, *)
(* and main neither misses the connection nor returns.  All of it reaches  *)
(* the output then, but for what a write of the worker drops.              *)
DeliveredWhenAlone ==
  \A c \in Conns :
    Handed(c) # 1..sent[c] ~>
      \/ Handed(c) = 1..sent[c]
      \/ sent[c] > READ_BUF_LEN \/ Shares(c)
      \/ end[c] = "reset" \/ refused \/ mpc = "exited"

=============================================================================
