--------------------------- MODULE EpollServerProofs ---------------------------
(***************************************************************************)
(* For any number of connections, instances, bytes and events: a worker    *)
(* handles open connections of its own only, and hands what the clients    *)
(* sent to write in order, each byte once, and all of it before it closes  *)
(* a connection: the output lacks what a write has dropped, and no more.   *)
(* All of it rests on a connection being registered with one instance.     *)
(***************************************************************************)
EXTENDS EpollServer, FiniteSetTheorems, SequenceTheorems, TLAPS

Busy == {"read", "write", "close"}

Types ==
  /\ TypeOK
  /\ out \in [Conns -> Seq(Nat)]
  /\ backlog \in Seq(Conns)
  /\ event \in [Workers -> Seq(Conns)]
  /\ buf \in [Workers -> Seq(Nat)]

(* A connection is in the kernel's hands for one instance at most, from    *)
(* its registration to its close.                                          *)
Registered ==
  /\ \A w \in Workers : ready[w] \subseteq interest[w]
  /\ \A w \in Workers : \A c \in interest[w] : stage[c] = "accepted"
  /\ \A v, w \in Workers : v # w => interest[v] \cap interest[w] = {}

(* What waits in the backlog, and the connection main is registering.      *)
Accepting ==
  /\ \A i \in 1..Len(backlog) : stage[backlog[i]] = "backlog"
  /\ \A i, j \in 1..Len(backlog) : i # j => backlog[i] # backlog[j]
  /\ mpc = "register" => /\ accp_fd \in Conns /\ stage[accp_fd] = "accepted"
                         /\ \A w \in Workers : accp_fd \notin interest[w]
  /\ mpc = "setup" => \A w \in Workers : wpc[w] = "none"

(* A worker's events are of its own connections.                           *)
Handling ==
  \A w \in Workers :
    /\ wpc[w] \in Busy <=> event[w] # <<>>
    /\ \A i \in 1..Len(event[w]) : event[w][i] \in interest[w]

Writing(w, c) == wpc[w] = "write" /\ Current(w) = c

(* The output s and the dropped bytes L are the first n bytes between      *)
(* them, and s is in order.                                                *)
Account(s, L, n) ==
  /\ \A i, j \in 1..Len(s) : i < j => s[i] < s[j]
  /\ \A i \in 1..Len(s) : s[i] \in 1..n /\ s[i] \notin L
  /\ L \subseteq 1..n
  /\ \A b \in 1..n : b \in L \/ \E i \in 1..Len(s) : s[i] = b

(* The bytes after the first m. *)
NextBytes(b, m) == \A j \in 1..Len(b) : b[j] = m + j

(* What a write drops that takes the first n bytes of b. *)
Dropped(b, n) == {b[j] : j \in (n + 1)..Len(b)}

(* A worker that is about to write has the next bytes in hand. *)
InHand(w) ==
  /\ Len(buf[w]) <= taken[Current(w)]
  /\ Account(out[Current(w)], lost[Current(w)], taken[Current(w)] - Len(buf[w]))
  /\ NextBytes(buf[w], taken[Current(w)] - Len(buf[w]))

(* What has been read of a connection has been written or dropped, but for *)
(* what its worker has in hand.                                            *)
Bytes ==
  /\ \A c \in Conns : taken[c] <= sent[c]
  /\ \A c \in Conns : (\A w \in Workers : ~Writing(w, c)) => Account(out[c], lost[c], taken[c])
  /\ \A w \in Workers : wpc[w] = "write" => InHand(w)

Closing ==
  /\ \A w \in Workers : wpc[w] = "close" => Ended(Current(w))
  /\ \A c \in Conns : stage[c] = "closed" => Ended(c) /\ Account(out[c], lost[c], taken[c])

(* The inductive invariant. *)
ServerInv == Types /\ Registered /\ Accepting /\ Handling /\ Bytes /\ Closing

-----------------------------------------------------------------------------
LEMMA Constants ==
  /\ EPOLL_INS_CNT \in Nat \ {0} /\ MAX_EVENT \in Nat \ {0} /\ READ_BUF_LEN \in Nat \ {0}
  /\ MaxConns \in Nat /\ MaxBytes \in Nat /\ MaxHangUps \in Nat /\ MaxLost \in Nat
BY EpollAssumption

(* A busy worker's current connection is one of its own, so that no other  *)
(* worker has it, and it is open.                                          *)
LEMMA CurrentIsOwn ==
  ASSUME ServerInv, NEW w \in Workers, wpc[w] \in Busy
  PROVE  /\ Current(w) \in Conns /\ Current(w) \in interest[w]
         /\ event[w] \in Seq(Conns) /\ event[w] # <<>> /\ Current(w) = event[w][1]
         /\ Tail(event[w]) \in Seq(Conns) /\ Len(Tail(event[w])) = Len(event[w]) - 1
         /\ \A i \in 1..(Len(event[w]) - 1) : Tail(event[w])[i] = event[w][i + 1]
         /\ Len(event[w]) \in Nat \ {0}
         /\ stage[Current(w)] = "accepted"
         /\ \A v \in Workers \ {w} : Current(w) \notin interest[v]
         /\ \A v \in Workers \ {w} : wpc[v] \in Busy => Current(v) # Current(w)
<1>1. ASSUME NEW v \in Workers, wpc[v] \in Busy
      PROVE  /\ event[v] \in Seq(Conns) /\ event[v] # <<>> /\ Current(v) = event[v][1]
             /\ Current(v) \in Conns /\ Current(v) \in interest[v]
             /\ Len(event[v]) \in Nat \ {0}
  <2>1. event[v] \in Seq(Conns) /\ event[v] # <<>>
    BY <1>1 DEF ServerInv, Types, Handling
  <2>2. /\ Len(event[v]) \in Nat \ {0} /\ 1 \in 1..Len(event[v])
        /\ Head(event[v]) = event[v][1] /\ event[v][1] \in Conns
    BY <2>1
  <2>3. event[v][1] \in interest[v]
    BY <2>2 DEF ServerInv, Handling
  <2>4. QED
    BY <2>1, <2>2, <2>3 DEF Current
<1>2. /\ Tail(event[w]) \in Seq(Conns) /\ Len(Tail(event[w])) = Len(event[w]) - 1
      /\ \A i \in 1..(Len(event[w]) - 1) : Tail(event[w])[i] = event[w][i + 1]
  <2>1. event[w] \in Seq(Conns) /\ event[w] # <<>>
    BY <1>1
  <2>2. QED
    BY <2>1, HeadTailProperties
<1>3. /\ stage[Current(w)] = "accepted"
      /\ \A v \in Workers \ {w} : Current(w) \notin interest[v]
  BY <1>1 DEF ServerInv, Registered
<1>4. \A v \in Workers \ {w} : wpc[v] \in Busy => Current(v) # Current(w)
  BY <1>1, <1>3
<1>5. QED
  BY <1>1, <1>2, <1>3, <1>4

(* What is left alone by the steps that neither read nor write: the byte   *)
(* counts, and the connection and the buffer of each writing worker.       *)
LEMMA BytesStay ==
  ASSUME ServerInv, UNCHANGED <<taken, out, lost, buf>>,
         \A b \in Conns : taken[b] <= sent'[b],
         \A v \in Workers : wpc'[v] = "write" <=> wpc[v] = "write",
         \A v \in Workers : wpc[v] = "write" => event'[v] = event[v]
  PROVE  Bytes'
<1>1. ASSUME NEW v \in Workers, wpc'[v] = "write"
      PROVE  InHand(v)'
  <2>1. PICK c : c = Current(v) /\ c = Current(v)'
    BY <1>1 DEF Current
  <2>2. InHand(v)
    BY <1>1 DEF ServerInv, Bytes
  <2>3. QED
    BY <2>1, <2>2 DEF InHand
<1>2. \A v \in Workers : \A b \in Conns : Writing(v, b)' <=> Writing(v, b)
  BY DEF Writing, Current
<1>3. ASSUME NEW b \in Conns, \A v \in Workers : ~Writing(v, b)'
      PROVE  Account(out'[b], lost'[b], taken'[b])
  <2>1. \A v \in Workers : ~Writing(v, b)
    BY <1>2, <1>3
  <2>2. QED
    BY <2>1 DEF ServerInv, Bytes
<1>4. \A b \in Conns : taken'[b] <= sent'[b]
  OBVIOUS
<1>5. QED
  BY <1>1, <1>3, <1>4 DEF Bytes

-----------------------------------------------------------------------------
(* The clients. *)

(* Another connection in the backlog. *)
LEMMA ConnectKeeps ==
  ASSUME ServerInv, NEW c \in Conns, Connect(c)
  PROVE  ServerInv'
<1> USE DEF ServerInv
<1>1. /\ stage[c] = "new" /\ stage' = [stage EXCEPT ![c] = "backlog"]
      /\ backlog' = Append(backlog, c)
      /\ UNCHANGED <<sent, end, taken, out, lost, mpc, accp_fd, accept_cnt, refused, epfds, interest,
                     ready, wpc, event, buf>>
  BY DEF Connect, kernelVars, workVars
<1>2. /\ stage \in [Conns -> {"new", "backlog", "accepted", "closed"}]
      /\ backlog \in Seq(Conns) /\ Len(backlog) \in Nat
  BY DEF Types, TypeOK
<1>3. /\ backlog' \in Seq(Conns) /\ Len(backlog') = Len(backlog) + 1
      /\ \A i \in 1..Len(backlog) : backlog'[i] = backlog[i] /\ backlog[i] \in Conns
      /\ backlog'[Len(backlog) + 1] = c
  BY <1>1, <1>2
<1>4. Types'
  BY <1>1, <1>2, <1>3 DEF Types, TypeOK
<1>5. Registered'
  BY <1>1, <1>2 DEF Registered, Types, TypeOK
<1>6. Accepting'
  <2>1. \A i \in 1..Len(backlog') : i \in 1..Len(backlog) \/ i = Len(backlog) + 1
    BY <1>2, <1>3
  <2>2. \A i \in 1..Len(backlog) : stage[backlog[i]] = "backlog" /\ backlog[i] # c
    BY <1>1 DEF Accepting
  <2>3. \A i \in 1..Len(backlog') : stage'[backlog'[i]] = "backlog"
    BY <1>1, <1>2, <1>3, <2>1, <2>2
  <2>4. \A i, j \in 1..Len(backlog') : i # j => backlog'[i] # backlog'[j]
    BY <1>3, <2>1, <2>2 DEF Accepting
  <2>5. mpc' = "register" => accp_fd' \in Conns /\ stage'[accp_fd'] = "accepted"
    BY <1>1, <1>2 DEF Accepting
  <2>6. QED
    BY <1>1, <2>3, <2>4, <2>5 DEF Accepting
<1>7. Handling'
  BY <1>1 DEF Handling
<1>8. Bytes'
  BY <1>1, BytesStay DEF Bytes
<1>9. Closing'
  BY <1>1, <1>2 DEF Closing, Ended, Unread, Current
<1>10. QED
  BY <1>4, <1>5, <1>6, <1>7, <1>8, <1>9

(* Send and HangUp. *)
LEMMA ArrivalKeeps ==
  ASSUME ServerInv, NEW c \in Conns, Send(c) \/ HangUp(c)
  PROVE  ServerInv'
<1> USE DEF ServerInv
<1>1. /\ stage[c] \in {"backlog", "accepted"} /\ end[c] = "open" /\ Edge(c)
      /\ UNCHANGED <<stage, taken, out, lost, backlog, mpc, accp_fd, accept_cnt, refused, epfds,
                     interest, wpc, event, buf>>
  BY DEF Send, HangUp, Connected, mainVars, workVars
<1>2. /\ sent \in [Conns -> Nat] /\ taken \in [Conns -> Nat]
      /\ end \in [Conns -> {"open", "fin", "reset"}]
      /\ ready \in [Workers -> SUBSET Conns] /\ interest \in [Workers -> SUBSET Conns]
  BY DEF Types, TypeOK
<1>3. /\ sent' \in [Conns -> Nat] /\ end' \in [Conns -> {"open", "fin", "reset"}]
      /\ sent'[c] >= sent[c]
      /\ \A b \in Conns \ {c} : sent'[b] = sent[b] /\ end'[b] = end[b]
  <2>1. CASE Send(c)
    <3>1. PICK n \in 1..MaxBytes : sent' = [sent EXCEPT ![c] = @ + n]
      BY <2>1 DEF Send
    <3>2. end' = end /\ n \in Nat
      BY <2>1, Constants DEF Send
    <3>3. QED
      BY <1>2, <3>1, <3>2
  <2>2. CASE HangUp(c)
    BY <1>2, <2>2 DEF HangUp
  <2>3. QED
    BY <2>1, <2>2
<1>4. /\ ready' \in [Workers -> SUBSET Conns]
      /\ \A w \in Workers : ready'[w] \subseteq interest[w]
  BY <1>1, <1>2 DEF Edge, Registered
<1>5. Types'
  BY <1>1, <1>3, <1>4 DEF Types, TypeOK
<1>6. Registered' /\ Accepting' /\ Handling'
  BY <1>1, <1>4 DEF Registered, Accepting, Handling
<1>7. Bytes'
  <2>1. \A b \in Conns : taken'[b] <= sent'[b]
    <3>1. \A b \in Conns : taken[b] <= sent[b]
      BY DEF Bytes
    <3>2. \A b \in Conns : sent[b] <= sent'[b]
      BY <1>2, <1>3
    <3>3. QED
      BY <1>1, <1>2, <1>3, <3>1, <3>2
  <2>2. QED
    BY <1>1, <2>1, BytesStay
<1>8. Closing'
  <2>1. \A b \in Conns : Ended(b) => b # c
    BY <1>1, <1>2, <1>3 DEF Ended
  <2>2. \A b \in Conns : Ended(b) => Ended(b)'
    BY <1>1, <1>3, <2>1 DEF Ended, Unread
  <2>3. \A w \in Workers : wpc[w] = "close" => Current(w) \in Conns
    BY CurrentIsOwn DEF Busy
  <2>4. \A w \in Workers : Current(w)' = Current(w)
    BY <1>1 DEF Current
  <2>5. \A w \in Workers : wpc'[w] = "close" => Ended(Current(w))'
    BY <1>1, <2>2, <2>3, <2>4 DEF Closing
  <2>6. \A b \in Conns : stage'[b] = "closed" => Ended(b)' /\ Account(out'[b], lost'[b], taken'[b])
    BY <1>1, <2>2 DEF Closing
  <2>7. QED
    BY <2>5, <2>6 DEF Closing
<1>9. QED
  BY <1>5, <1>6, <1>7, <1>8

-----------------------------------------------------------------------------
(* main. *)

LEMMA NextInstance == (accept_cnt \in Workers) => (accept_cnt + 1) % EPOLL_INS_CNT \in Workers
<1> SUFFICES ASSUME accept_cnt \in Workers
             PROVE  (accept_cnt + 1) % EPOLL_INS_CNT \in 0..(EPOLL_INS_CNT - 1)
  BY DEF Workers
<1>1. accept_cnt + 1 \in Int
  BY Constants DEF Workers
<1>2. QED
  BY <1>1, Constants

LEMMA MainWaitsKeep ==
  ASSUME ServerInv, MainSetup \/ MainWait \/ AcceptNothing \/ MainReturns
  PROVE  ServerInv'
<1> USE DEF ServerInv
<1>1. /\ UNCHANGED <<connVars, backlog, accp_fd, accept_cnt, epfds, kernelVars, event, buf>>
      /\ mpc' \in {"wait", "accept", "exited"}
      /\ wpc' = wpc \/ (mpc = "setup" /\ wpc' = [w \in Workers |-> "start"])
  BY DEF MainSetup, MainWait, AcceptNothing, MainReturns, workVars
<1>2. \A w \in Workers : wpc'[w] = wpc[w] \/ (wpc[w] = "none" /\ wpc'[w] = "start")
  BY <1>1 DEF Accepting
<1>3. Types'
  BY <1>1 DEF Types, TypeOK, connVars, kernelVars
<1>4. Registered' /\ Accepting' /\ Handling'
  BY <1>1, <1>2 DEF Registered, Accepting, Handling, Busy, connVars, kernelVars
<1>5. Bytes'
  <2>1. UNCHANGED <<sent, taken, out, lost, buf, event>>
    BY <1>1 DEF connVars
  <2>2. \A b \in Conns : taken[b] <= sent'[b]
    BY <2>1 DEF Bytes
  <2>3. QED
    BY <1>2, <2>1, <2>2, BytesStay
<1>6. Closing'
  BY <1>1, <1>2 DEF Closing, Ended, Unread, Current, connVars
<1>7. QED
  BY <1>3, <1>4, <1>5, <1>6

LEMMA AcceptKeeps ==
  ASSUME ServerInv, Accept
  PROVE  ServerInv'
<1> USE DEF ServerInv
<1> DEFINE c == Head(backlog)
<1>1. /\ backlog # <<>> /\ backlog \in Seq(Conns)
      /\ stage \in [Conns -> {"new", "backlog", "accepted", "closed"}]
  BY DEF Types, TypeOK, Accept
<1>2. /\ accp_fd' = c /\ backlog' = Tail(backlog) /\ stage' = [stage EXCEPT ![c] = "accepted"]
      /\ mpc' = "register"
      /\ UNCHANGED <<sent, end, taken, out, lost, accept_cnt, epfds, interest, ready, wpc, event, buf>>
  BY DEF Accept, kernelVars, workVars
<1>3. /\ c \in Conns /\ c = backlog[1] /\ Len(backlog) \in Nat \ {0}
      /\ backlog' \in Seq(Conns) /\ Len(backlog') = Len(backlog) - 1
      /\ \A i \in 1..(Len(backlog) - 1) : backlog'[i] = backlog[i + 1]
      /\ \A i \in 1..Len(backlog) : backlog[i] \in Conns
  BY <1>1, <1>2, HeadTailProperties
<1> HIDE DEF c
<1>4. stage[c] = "backlog" /\ \A i \in 2..Len(backlog) : backlog[i] # c
  BY <1>3 DEF Accepting
<1>5. Types'
  BY <1>1, <1>2, <1>3 DEF Types, TypeOK
<1>6. \A w \in Workers : c \notin interest[w]
  BY <1>4 DEF Registered
<1>7. Registered'
  BY <1>1, <1>2, <1>6 DEF Registered, Types, TypeOK
<1>8. Accepting'
  <2>1. \A i \in 1..(Len(backlog) - 1) : i + 1 \in 2..Len(backlog) /\ i + 1 \in 1..Len(backlog)
    BY <1>3
  <2>2. \A i \in 1..Len(backlog') : stage'[backlog'[i]] = "backlog"
    BY <1>1, <1>2, <1>3, <1>4, <2>1 DEF Accepting
  <2>3. \A i, j \in 1..Len(backlog') : i # j => backlog'[i] # backlog'[j]
    <3>1. ASSUME NEW i \in 1..(Len(backlog) - 1), NEW j \in 1..(Len(backlog) - 1), i # j
          PROVE  backlog'[i] # backlog'[j]
      <4>1. PICK g \in 1..Len(backlog), h \in 1..Len(backlog) : g = i + 1 /\ h = j + 1 /\ g # h
        BY <1>3, <2>1, <3>1
      <4>2. backlog[g] # backlog[h]
        BY <4>1 DEF Accepting
      <4>3. QED
        BY <1>3, <4>1, <4>2
    <3>2. Len(backlog') = Len(backlog) - 1
      BY <1>3
    <3>3. QED
      BY <3>1, <3>2
  <2>4. accp_fd' \in Conns /\ stage'[accp_fd'] = "accepted"
        /\ \A w \in Workers : accp_fd' \notin interest'[w]
    BY <1>1, <1>2, <1>3, <1>6
  <2>5. QED
    BY <1>2, <2>2, <2>3, <2>4 DEF Accepting
<1>9. Handling' /\ Bytes'
  <2>1. \A b \in Conns : taken[b] <= sent'[b]
    BY <1>2 DEF Bytes
  <2>2. QED
    BY <1>2, <2>1, BytesStay DEF Handling
<1>10. Closing'
  <2>1. \A b \in Conns : stage'[b] = "closed" => stage[b] = "closed"
    BY <1>1, <1>2, <1>3
  <2>2. QED
    BY <1>2, <2>1 DEF Closing, Ended, Unread, Current
<1>11. QED
  BY <1>5, <1>7, <1>8, <1>9, <1>10

(* The connection main registers is in no interest list before.            *)
LEMMA RegisterKeeps ==
  ASSUME ServerInv, Register
  PROVE  ServerInv'
<1> USE DEF ServerInv
<1>1. /\ mpc = "register" /\ accept_cnt \in Workers /\ accp_fd \in Conns
      /\ stage[accp_fd] = "accepted" /\ \A w \in Workers : accp_fd \notin interest[w]
      /\ interest \in [Workers -> SUBSET Conns] /\ ready \in [Workers -> SUBSET Conns]
  BY DEF Register, Accepting, Types, TypeOK
<1>2. /\ Add({accept_cnt}, accp_fd) /\ accp_fd' = NoConn /\ mpc' = "accept"
      /\ accept_cnt' = (accept_cnt + 1) % EPOLL_INS_CNT
      /\ UNCHANGED <<stage, sent, end, taken, out, lost, backlog, epfds, wpc, event, buf>>
  BY DEF Register, Target, AfterRegister, connVars, workVars
<1>3. /\ interest' \in [Workers -> SUBSET Conns] /\ ready' \in [Workers -> SUBSET Conns]
      /\ \A w \in Workers : interest[w] \subseteq interest'[w]
      /\ \A w \in Workers :
           interest'[w] = IF w = accept_cnt THEN interest[w] \cup {accp_fd} ELSE interest[w]
      /\ \A w \in Workers : ready'[w] \subseteq interest'[w]
  BY <1>1, <1>2 DEF Add, Registered
<1>4. Types'
  BY <1>1, <1>2, <1>3, NextInstance DEF Types, TypeOK
<1>5. Registered'
  BY <1>1, <1>2, <1>3 DEF Registered
<1>6. Accepting' /\ Handling'
  BY <1>2, <1>3 DEF Accepting, Handling
<1>7. Bytes'
  <2>1. \A b \in Conns : taken[b] <= sent'[b]
    BY <1>2 DEF Bytes
  <2>2. QED
    BY <1>2, <2>1, BytesStay
<1>8. Closing'
  BY <1>2 DEF Closing, Ended, Unread, Current
<1>9. QED
  BY <1>4, <1>5, <1>6, <1>7, <1>8

-----------------------------------------------------------------------------
(* The workers. *)

LEMMA MinOfPair ==
  ASSUME NEW a \in Int, NEW b \in Int
  PROVE  Min({a, b}) = IF a <= b THEN a ELSE b
BY DEF Min

LEMMA CreateKeeps ==
  ASSUME ServerInv, NEW w \in Workers, Create(w)
  PROVE  ServerInv'
<1> USE DEF ServerInv
<1>1. /\ wpc[w] = "start"
      /\ wpc' = [wpc EXCEPT ![w] = "wait"] \/ wpc' = [wpc EXCEPT ![w] = "dead"]
      /\ epfds' = epfds \/ epfds' = epfds \cup {w}
      /\ UNCHANGED <<connVars, mainVars, kernelVars, event, buf>>
  BY DEF Create, At, Goes
<1>2. /\ wpc \in [Workers -> {"none", "start", "dead", "wait", "read", "write", "close"}]
      /\ epfds \subseteq Workers /\ mpc # "exited" /\ mpc # "setup"
  BY <1>1 DEF Types, TypeOK, Create, At, Accepting
<1>3. Types'
  BY <1>1, <1>2 DEF Types, TypeOK, connVars, mainVars, kernelVars
<1>4. Registered' /\ Accepting' /\ Handling'
  BY <1>1, <1>2 DEF Registered, Accepting, Handling, Busy, connVars, mainVars, kernelVars
<1>5. Bytes'
  <2>1. UNCHANGED <<sent, taken, out, lost, buf, event>>
    BY <1>1 DEF connVars
  <2>2. \A b \in Conns : taken[b] <= sent'[b]
    BY <2>1 DEF Bytes
  <2>3. \A v \in Workers : wpc'[v] = "write" <=> wpc[v] = "write"
    BY <1>1, <1>2
  <2>4. QED
    BY <2>1, <2>2, <2>3, BytesStay
<1>6. Closing'
  BY <1>1, <1>2 DEF Closing, Ended, Unread, Current, connVars
<1>7. QED
  BY <1>3, <1>4, <1>5, <1>6

(* What epoll_wait reports: some connections of the instance, not none.    *)
LEMMA Reported ==
  ASSUME ServerInv, NEW w \in Workers, Wait(w)
  PROVE  /\ event' \in [Workers -> Seq(Conns)] /\ event'[w] # <<>>
         /\ \A i \in 1..Len(event'[w]) : event'[w][i] \in interest[w]
         /\ \A v \in Workers \ {w} : event'[v] = event[v]
         /\ ready' \in [Workers -> SUBSET Conns]
         /\ \A v \in Workers : ready'[v] \subseteq ready[v]
<1>1. /\ ready \in [Workers -> SUBSET Conns] /\ event \in [Workers -> Seq(Conns)]
      /\ ready[w] # {} /\ ready[w] \subseteq interest[w]
  BY DEF ServerInv, Types, TypeOK, Registered, Wait
<1> DEFINE k == Min({MAX_EVENT, Cardinality(ready[w])})
<1>2. PICK S \in kSubset(k, ready[w]) :
        /\ \E events \in SetToSeqs(S) : event' = [event EXCEPT ![w] = events]
        /\ ready' = [ready EXCEPT ![w] = @ \ S]
  BY DEF Wait
<1>3. IsFiniteSet(Conns)
  <2>1. 1 \in Int /\ MaxConns \in Int
    BY Constants
  <2>2. QED
    BY <2>1, FS_Interval DEF Conns
<1>4. IsFiniteSet(ready[w]) /\ Cardinality(ready[w]) \in Nat /\ Cardinality(ready[w]) # 0
  <2>1. IsFiniteSet(ready[w])
    BY <1>1, <1>3, FS_Subset
  <2>2. QED
    BY <1>1, <2>1, FS_EmptySet, FS_CardinalityType
<1>5. k \in Nat \ {0}
  <2>1. k = IF MAX_EVENT <= Cardinality(ready[w]) THEN MAX_EVENT ELSE Cardinality(ready[w])
    BY <1>4, Constants, MinOfPair
  <2>2. QED
    BY <1>4, <2>1, Constants
<1>6. S \subseteq ready[w] /\ Cardinality(S) = k
  BY <1>2 DEF kSubset
<1> HIDE DEF k
<1>7. PICK events \in [1..Cardinality(S) -> S] : event' = [event EXCEPT ![w] = events]
  BY <1>2 DEF SetToSeqs
<1>8. /\ events \in Seq(Conns) /\ Len(events) = k
      /\ \A i \in 1..Len(events) : events[i] \in S
  <2>1. events \in [1..k -> S] /\ S \subseteq Conns
    BY <1>1, <1>6, <1>7
  <2>2. events \in [1..k -> Conns]
    BY <2>1
  <2>3. events \in Seq(Conns) /\ Len(events) = k
    BY <1>5, <2>2
  <2>4. QED
    BY <2>1, <2>3
<1>9. events # <<>>
  BY <1>5, <1>8
<1>10. /\ event'[w] = events /\ event' \in [Workers -> Seq(Conns)]
       /\ \A v \in Workers \ {w} : event'[v] = event[v]
  BY <1>1, <1>7, <1>8
<1>11. ready' \in [Workers -> SUBSET Conns] /\ \A v \in Workers : ready'[v] \subseteq ready[v]
  BY <1>1, <1>2
<1>12. QED
  BY <1>1, <1>6, <1>8, <1>9, <1>10, <1>11

LEMMA WaitKeeps ==
  ASSUME ServerInv, NEW w \in Workers, Wait(w)
  PROVE  ServerInv'
<1> USE DEF ServerInv
<1>1. /\ wpc[w] = "wait" /\ wpc' = [wpc EXCEPT ![w] = "read"] /\ mpc # "exited"
      /\ UNCHANGED <<connVars, mainVars, epfds, interest, buf>>
  BY DEF Wait, At, Goes
<1>2. wpc \in [Workers -> {"none", "start", "dead", "wait", "read", "write", "close"}]
  BY DEF Types, TypeOK
<1>3. Types'
  BY <1>1, <1>2, Reported DEF Types, TypeOK, connVars, mainVars
<1>4. Registered' /\ Accepting'
  BY <1>1, <1>2, Reported DEF Registered, Accepting, connVars, mainVars
<1>5. Handling'
  BY <1>1, <1>2, Reported DEF Handling, Busy
<1>6. /\ \A v \in Workers \ {w} : wpc'[v] = wpc[v] /\ Current(v)' = Current(v)
      /\ wpc'[w] = "read"
  BY <1>1, <1>2, Reported DEF Current
<1>7. Bytes'
  <2>1. UNCHANGED <<sent, taken, out, lost, buf>>
    BY <1>1 DEF connVars
  <2>2. \A b \in Conns : taken[b] <= sent'[b]
    BY <2>1 DEF Bytes
  <2>3. \A v \in Workers : wpc'[v] = "write" <=> wpc[v] = "write"
    BY <1>1, <1>6
  <2>4. \A v \in Workers : wpc[v] = "write" => event'[v] = event[v]
    BY <1>1, Reported
  <2>5. QED
    BY <2>1, <2>2, <2>3, <2>4, BytesStay
<1>8. Closing'
  BY <1>1, <1>6 DEF Closing, Ended, Unread, connVars
<1>9. QED
  BY <1>3, <1>4, <1>5, <1>7, <1>8

(* Nobody else has read anything of the connection in hand.                *)
LEMMA AllWritten ==
  ASSUME ServerInv, NEW w \in Workers, wpc[w] \in {"read", "close"}
  PROVE  Account(out[Current(w)], lost[Current(w)], taken[Current(w)])
<1>1. \A v \in Workers : ~Writing(v, Current(w))
  BY CurrentIsOwn DEF Writing, Busy
<1>2. QED
  BY <1>1, CurrentIsOwn DEF ServerInv, Bytes, Busy

LEMMA ReadDataKeeps ==
  ASSUME ServerInv, NEW w \in Workers, ReadData(w)
  PROVE  ServerInv'
<1> USE DEF ServerInv
<1> DEFINE c == Current(w)
           n == Min({ReadLen, Unread(c)})
<1>1. /\ wpc[w] = "read" /\ wpc' = [wpc EXCEPT ![w] = "write"] /\ n > 0
      /\ buf' = [buf EXCEPT ![w] = [j \in 1..n |-> taken[c] + j]]
      /\ taken' = [taken EXCEPT ![c] = @ + n]
      /\ UNCHANGED <<stage, sent, end, out, lost, backlog, mpc, accp_fd, accept_cnt, epfds, interest,
                     ready, event>>
  BY DEF ReadData, At, Goes, mainVars, kernelVars
<1>2. /\ wpc \in [Workers -> {"none", "start", "dead", "wait", "read", "write", "close"}]
      /\ taken \in [Conns -> Nat] /\ sent \in [Conns -> Nat] /\ buf \in [Workers -> Seq(Nat)]
      /\ mpc # "setup"
  BY <1>1 DEF Types, TypeOK, Accepting
<1>3. /\ c \in Conns /\ \A v \in Workers \ {w} : wpc[v] \in Busy => Current(v) # c
      /\ stage[c] = "accepted" /\ Account(out[c], lost[c], taken[c])
  BY <1>1, CurrentIsOwn, AllWritten DEF Busy
<1>4. n \in Nat \ {0} /\ taken[c] + n <= sent[c]
  <2>1. Unread(c) \in Int /\ ReadLen \in Int /\ Unread(c) = sent[c] - taken[c]
    BY <1>2, <1>3, Constants DEF Unread, ReadLen
  <2>2. n = IF ReadLen <= Unread(c) THEN ReadLen ELSE Unread(c)
    BY <2>1, MinOfPair
  <2>3. QED
    BY <1>1, <1>2, <1>3, <2>1, <2>2
<1> DEFINE bytes == [j \in 1..n |-> taken[c] + j]
<1>5. bytes \in Seq(Nat) /\ Len(bytes) = n /\ \A j \in 1..n : bytes[j] = taken[c] + j
  <2> HIDE DEF n
  <2>1. taken[c] \in Nat /\ n \in Nat
    BY <1>2, <1>3, <1>4
  <2>2. QED
    BY <2>1
<1> HIDE DEF c, n, bytes
<1>6. /\ taken' \in [Conns -> Nat] /\ taken'[c] = taken[c] + n
      /\ \A b \in Conns \ {c} : taken'[b] = taken[b]
      /\ buf' \in [Workers -> Seq(Nat)] /\ buf'[w] = bytes
      /\ \A v \in Workers \ {w} : buf'[v] = buf[v]
  BY <1>1, <1>2, <1>3, <1>4, <1>5 DEF bytes
<1>7. /\ wpc'[w] = "write" /\ \A v \in Workers \ {w} : wpc'[v] = wpc[v]
      /\ wpc' \in [Workers -> {"none", "start", "dead", "wait", "read", "write", "close"}]
      /\ \A v \in Workers : Current(v)' = Current(v)
  BY <1>1, <1>2 DEF Current
<1>8. Types'
  BY <1>1, <1>6, <1>7 DEF Types, TypeOK
<1>9. Registered' /\ Accepting' /\ Handling'
  BY <1>1, <1>2, <1>7 DEF Registered, Accepting, Handling, Busy
<1>10. Bytes'
  <2>1. \A b \in Conns : taken'[b] <= sent'[b]
    <3>1. taken'[c] <= sent'[c]
      BY <1>1, <1>4, <1>6
    <3>2. QED
      BY <1>1, <1>6, <3>1 DEF Bytes
  <2>2. ASSUME NEW b \in Conns, \A v \in Workers : ~Writing(v, b)'
        PROVE  Account(out'[b], lost'[b], taken'[b])
    <3>1. b # c
      BY <1>7, <2>2 DEF Writing, c
    <3>2. \A v \in Workers : ~Writing(v, b)
      BY <1>1, <1>7, <2>2 DEF Writing
    <3>3. QED
      BY <1>1, <1>6, <3>1, <3>2 DEF Bytes
  <2>3. ASSUME NEW v \in Workers, wpc'[v] = "write"
        PROVE  InHand(v)'
    <3>1. CASE v = w
      <4>1. /\ Len(buf'[v]) = n /\ taken'[c] - n = taken[c] /\ n <= taken'[c]
            /\ \A j \in 1..n : buf'[v][j] = taken[c] + j
        BY <1>2, <1>3, <1>4, <1>5, <1>6, <3>1
      <4>2. Current(v)' = c
        BY <1>7, <3>1 DEF c
      <4>3. QED
        BY <1>1, <1>3, <4>1, <4>2 DEF InHand, NextBytes
    <3>2. CASE v # w
      <4>1. wpc[v] = "write" /\ Current(v) \in Conns \ {c}
        BY <1>3, <1>7, <2>3, <3>2, CurrentIsOwn DEF Busy
      <4>2. InHand(v)
        BY <4>1 DEF Bytes
      <4>3. Current(v)' = Current(v) /\ taken'[Current(v)] = taken[Current(v)] /\ buf'[v] = buf[v]
        BY <1>6, <1>7, <3>2, <4>1
      <4>4. QED
        BY <1>1, <4>2, <4>3 DEF InHand
    <3>3. QED
      BY <3>1, <3>2
  <2>4. QED
    BY <2>1, <2>2, <2>3 DEF Bytes
<1>11. Closing'
  <2>1. \A b \in Conns \ {c} : Ended(b) => Ended(b)'
    BY <1>1, <1>6 DEF Ended, Unread
  <2>2. ASSUME NEW v \in Workers, wpc'[v] = "close"
        PROVE  Ended(Current(v))'
    <3>1. v # w /\ wpc[v] = "close" /\ Current(v) \in Conns \ {c}
      BY <1>3, <1>7, <2>2, CurrentIsOwn DEF Busy
    <3>2. QED
      BY <1>1, <1>6, <1>7, <3>1 DEF Closing, Ended, Unread
  <2>3. \A b \in Conns : stage'[b] = "closed" => Ended(b)' /\ Account(out'[b], lost'[b], taken'[b])
    BY <1>1, <1>3, <1>6, <2>1 DEF Closing
  <2>4. QED
    BY <2>2, <2>3 DEF Closing
<1>12. QED
  BY <1>8, <1>9, <1>10, <1>11

(* ReadEnd and ReadNothing. *)
LEMMA ReadKeeps ==
  ASSUME ServerInv, NEW w \in Workers, ReadEnd(w) \/ ReadNothing(w)
  PROVE  ServerInv'
<1> USE DEF ServerInv
<1>1. /\ wpc[w] = "read" /\ UNCHANGED <<connVars, mainVars, epfds, kernelVars, buf>>
      /\ \/ wpc' = [wpc EXCEPT ![w] = "close"] /\ event' = event /\ Ended(Current(w))
         \/ wpc' = [wpc EXCEPT ![w] = "wait"] /\ event' = [event EXCEPT ![w] = <<>>]
  BY DEF ReadEnd, ReadNothing, At, Goes
<1>2. /\ wpc \in [Workers -> {"none", "start", "dead", "wait", "read", "write", "close"}]
      /\ event \in [Workers -> Seq(Conns)] /\ mpc # "setup"
  BY <1>1 DEF Types, TypeOK, Accepting
<1>3. /\ wpc' \in [Workers -> {"none", "start", "dead", "wait", "read", "write", "close"}]
      /\ event' \in [Workers -> Seq(Conns)] /\ wpc'[w] \in {"close", "wait"}
      /\ \A v \in Workers \ {w} : wpc'[v] = wpc[v] /\ event'[v] = event[v]
      /\ event'[w] = IF wpc'[w] = "close" THEN event[w] ELSE <<>>
  <2>1. CASE wpc' = [wpc EXCEPT ![w] = "close"] /\ event' = event
    BY <1>2, <2>1
  <2>2. CASE wpc' = [wpc EXCEPT ![w] = "wait"] /\ event' = [event EXCEPT ![w] = <<>>]
    BY <1>2, <2>2
  <2>3. QED
    BY <1>1, <2>1, <2>2
<1>4. Types'
  BY <1>1, <1>3 DEF Types, TypeOK, connVars, mainVars, kernelVars
<1>5. Registered' /\ Accepting'
  BY <1>1, <1>2 DEF Registered, Accepting, connVars, mainVars, kernelVars
<1>6. Handling'
  <2>1. interest' = interest
    BY <1>1 DEF kernelVars
  <2>2. event[w] # <<>>
    BY <1>1 DEF Handling, Busy
  <2>3. wpc'[w] \in Busy <=> event'[w] # <<>>
    BY <1>3, <2>2 DEF Busy
  <2>4. \A i \in 1..Len(event'[w]) : event'[w][i] \in interest[w]
    <3>1. CASE wpc'[w] = "close"
      BY <1>3, <3>1 DEF Handling
    <3>2. CASE wpc'[w] # "close"
      BY <1>3, <3>2
    <3>3. QED
      BY <3>1, <3>2
  <2>5. ASSUME NEW v \in Workers \ {w}
        PROVE  /\ wpc'[v] \in Busy <=> event'[v] # <<>>
               /\ \A i \in 1..Len(event'[v]) : event'[v][i] \in interest[v]
    BY <1>3, <2>5 DEF Handling
  <2>6. QED
    BY <2>1, <2>3, <2>4, <2>5 DEF Handling
<1>7. /\ \A v \in Workers \ {w} : Current(v)' = Current(v)
      /\ wpc'[w] = "close" => Current(w)' = Current(w) /\ Ended(Current(w))
  BY <1>1, <1>2, <1>3 DEF Current
<1>8. Bytes'
  <2>1. UNCHANGED <<sent, taken, out, lost, buf>>
    BY <1>1 DEF connVars
  <2>2. \A b \in Conns : taken[b] <= sent'[b]
    BY <2>1 DEF Bytes
  <2>3. /\ \A v \in Workers : wpc'[v] = "write" <=> wpc[v] = "write"
        /\ \A v \in Workers : wpc[v] = "write" => event'[v] = event[v]
    BY <1>1, <1>3
  <2>4. QED
    BY <2>1, <2>2, <2>3, BytesStay
<1>9. Closing'
  BY <1>1, <1>3, <1>7 DEF Closing, Ended, Unread, connVars
<1>10. QED
  BY <1>4, <1>5, <1>6, <1>8, <1>9

(* The first n of the next bytes are appended, the others dropped. *)
LEMMA Accounted ==
  ASSUME NEW s \in Seq(Nat), NEW L \in SUBSET Nat, NEW m \in Nat, Account(s, L, m),
         NEW b \in Seq(Nat), NextBytes(b, m), NEW n \in 0..Len(b)
  PROVE  /\ s \o SubSeq(b, 1, n) \in Seq(Nat) /\ L \cup Dropped(b, n) \in SUBSET Nat
         /\ Account(s \o SubSeq(b, 1, n), L \cup Dropped(b, n), m + Len(b))
<1> DEFINE t == s \o SubSeq(b, 1, n)
           K == L \cup Dropped(b, n)
<1>1. PICK p \in Nat, q \in Nat : p = Len(s) /\ q = Len(b) /\ n \in 0..q
  BY LenProperties
<1>2. PICK a : a = SubSeq(b, 1, n)
  OBVIOUS
<1>3. a \in Seq(Nat) /\ Len(a) = n /\ \A j \in 1..n : a[j] = m + j
  <2>1. \A j \in 1..q : b[j] \in Nat /\ b[j] = m + j
    BY <1>1, LenProperties DEF NextBytes
  <2>2. 1 \in Int /\ n \in Int /\ \A j \in 1..n : b[j] \in Nat
    BY <1>1, <2>1
  <2>3. /\ a \in Seq(Nat) /\ Len(a) = IF 1 <= n THEN n - 1 + 1 ELSE 0
        /\ \A j \in 1..(n - 1 + 1) : a[j] = b[1 + j - 1]
    BY <1>2, <2>2, SubSeqProperties
  <2>4. n \in Nat
    BY <1>1
  <2>5. Len(a) = n
    BY <2>3, <2>4
  <2>6. ASSUME NEW j \in 1..n
        PROVE  a[j] = m + j
    <3>1. j \in 1..(n - 1 + 1) /\ 1 + j - 1 = j /\ j \in 1..q
      BY <1>1, <2>4
    <3>2. QED
      BY <2>1, <2>3, <3>1
  <2>7. QED
    BY <2>3, <2>5, <2>6
<1>4. /\ t \in Seq(Nat) /\ Len(t) = p + n
      /\ \A j \in 1..(p + n) : t[j] = IF j <= p THEN s[j] ELSE a[j - p]
  BY <1>1, <1>2, <1>3, ConcatProperties
<1>5. \A j \in 1..(p + n) : t[j] = IF j <= p THEN s[j] ELSE m + (j - p)
  <2>1. ASSUME NEW j \in 1..(p + n), ~(j <= p)
        PROVE  a[j - p] = m + (j - p)
    <3>1. j - p \in 1..n
      BY <1>1, <2>1
    <3>2. QED
      BY <1>3, <3>1
  <2>2. QED
    BY <1>4, <2>1
<1>6. K = L \cup {m + j : j \in (n + 1)..q}
  <2>1. \A j \in (n + 1)..q : b[j] = m + j
    BY <1>1 DEF NextBytes
  <2>2. QED
    BY <1>1, <2>1 DEF Dropped
<1> HIDE DEF t, K
<1>7. /\ \A i, j \in 1..p : i < j => s[i] < s[j]
      /\ \A i \in 1..p : s[i] \in 1..m /\ s[i] \notin L
      /\ L \subseteq 1..m
      /\ \A x \in 1..m : x \in L \/ \E i \in 1..p : s[i] = x
  BY <1>1 DEF Account
<1>8. n \in Nat /\ n <= q
  BY <1>1
<1>9. ASSUME NEW i \in 1..(p + n), NEW j \in 1..(p + n), i < j
      PROVE  t[i] < t[j]
  <2>1. CASE j <= p
    <3>1. i \in 1..p /\ j \in 1..p /\ i <= p
      BY <1>1, <1>8, <1>9, <2>1
    <3>2. t[i] = s[i] /\ t[j] = s[j]
      BY <1>5, <2>1, <3>1
    <3>3. QED
      BY <1>7, <1>9, <3>1, <3>2
  <2>2. CASE ~(j <= p) /\ i <= p
    <3>1. i \in 1..p
      BY <1>1, <2>2
    <3>2. t[i] = s[i] /\ t[j] = m + (j - p) /\ s[i] \in 1..m
      BY <1>5, <1>7, <2>2, <3>1
    <3>3. PICK x \in Nat : x = j - p /\ x # 0
      BY <1>1, <1>8, <2>2
    <3>4. QED
      BY <3>2, <3>3
  <2>3. CASE ~(i <= p)
    <3>1. ~(j <= p)
      BY <1>1, <1>8, <1>9, <2>3
    <3>2. t[i] = m + (i - p) /\ t[j] = m + (j - p)
      BY <1>5, <2>3, <3>1
    <3>3. m + (i - p) < m + (j - p)
      BY <1>1, <1>8, <1>9
    <3>4. QED
      BY <3>2, <3>3
  <2>4. QED
    BY <2>1, <2>2, <2>3
<1>10. K \subseteq 1..(m + q)
  <2>1. 1..m \subseteq 1..(m + q)
    BY <1>1
  <2>2. \A j \in (n + 1)..q : m + j \in 1..(m + q)
    BY <1>8
  <2>3. QED
    BY <1>6, <1>7, <2>1, <2>2
<1>11. ASSUME NEW i \in 1..(p + n)
       PROVE  t[i] \in 1..(m + q) /\ t[i] \notin K
  <2>1. CASE i <= p
    <3>1. t[i] = s[i] /\ i \in 1..p
      BY <1>1, <1>5, <2>1
    <3>2. s[i] \in 1..m /\ s[i] \notin L
      BY <1>7, <3>1
    <3>3. \A j \in (n + 1)..q : s[i] # m + j
      BY <1>8, <3>2
    <3>4. QED
      BY <1>1, <1>6, <3>1, <3>2, <3>3
  <2>2. CASE ~(i <= p)
    <3>1. PICK x : x = i - p
      OBVIOUS
    <3>2. x \in Nat /\ x \in 1..n
      BY <1>1, <1>8, <2>2, <3>1
    <3>3. t[i] = m + x
      BY <1>5, <2>2, <3>1
    <3>4. m + x \in 1..(m + q) /\ m + x \notin 1..m
      BY <1>1, <1>8, <3>2
    <3>5. \A j \in (n + 1)..q : m + x # m + j
      BY <1>1, <1>8, <3>2
    <3>6. QED
      BY <1>6, <1>7, <3>3, <3>4, <3>5
  <2>3. QED
    BY <2>1, <2>2
<1>12. ASSUME NEW x \in 1..(m + q)
       PROVE  x \in K \/ \E i \in 1..(p + n) : t[i] = x
  <2>1. CASE x <= m
    <3>1. x \in 1..m
      BY <2>1
    <3>2. CASE x \in L
      BY <1>6, <3>2
    <3>3. CASE x \notin L
      <4>1. PICK i \in 1..p : s[i] = x
        BY <1>7, <3>1, <3>3
      <4>2. i \in 1..(p + n) /\ i <= p
        BY <1>1, <1>8
      <4>3. QED
        BY <1>5, <4>1, <4>2
    <3>4. QED
      BY <3>2, <3>3
  <2>2. CASE ~(x <= m)
    <3>1. PICK j \in Nat : j = x - m /\ j \in 1..q /\ x = m + j
      BY <1>1, <2>2
    <3>2. CASE j <= n
      <4>1. p + j \in 1..(p + n) /\ ~(p + j <= p) /\ (p + j) - p = j
        BY <1>1, <1>8, <3>1, <3>2
      <4>2. QED
        BY <1>5, <3>1, <4>1
    <3>3. CASE ~(j <= n)
      <4>1. j \in (n + 1)..q
        BY <1>8, <3>1, <3>3
      <4>2. QED
        BY <1>6, <3>1, <4>1
    <3>4. QED
      BY <3>2, <3>3
  <2>3. QED
    BY <2>1, <2>2
<1>13. Account(t, K, m + q)
  BY <1>4, <1>9, <1>10, <1>11, <1>12 DEF Account
<1>14. K \in SUBSET Nat
  BY <1>1, <1>10
<1>15. QED
  BY <1>1, <1>4, <1>13, <1>14 DEF t, K

LEMMA WriteKeeps ==
  ASSUME ServerInv, NEW w \in Workers, Write(w)
  PROVE  ServerInv'
<1> USE DEF ServerInv
<1> DEFINE c == Current(w)
<1>1. /\ wpc[w] = "write" /\ mpc # "exited"
      /\ wpc' = [wpc EXCEPT ![w] = IF event'[w] = <<>> THEN "wait" ELSE "read"]
      /\ buf' = [buf EXCEPT ![w] = <<>>]
      /\ event' = [event EXCEPT ![w] = Tail(@)]
      /\ UNCHANGED <<stage, sent, end, taken, backlog, mpc, accp_fd, accept_cnt, epfds, interest,
                     ready>>
  BY DEF Write, At, Goes, mainVars, kernelVars
<1>2. /\ wpc \in [Workers -> {"none", "start", "dead", "wait", "read", "write", "close"}]
      /\ taken \in [Conns -> Nat] /\ sent \in [Conns -> Nat] /\ buf \in [Workers -> Seq(Nat)]
      /\ out \in [Conns -> Seq(Nat)] /\ event \in [Workers -> Seq(Conns)]
      /\ lost \in [Conns -> SUBSET Nat]
      /\ mpc # "setup"
  BY <1>1 DEF Types, TypeOK, Accepting
<1>3. /\ c \in Conns /\ \A v \in Workers \ {w} : wpc[v] \in Busy => Current(v) # c
      /\ stage[c] = "accepted"
      /\ Tail(event[w]) \in Seq(Conns) /\ Len(Tail(event[w])) = Len(event[w]) - 1
      /\ \A i \in 1..(Len(event[w]) - 1) : Tail(event[w])[i] = event[w][i + 1]
      /\ Len(event[w]) \in Nat \ {0}
  BY <1>1, CurrentIsOwn DEF Busy
<1>4. PICK n \in 0..Len(buf[w]) :
        /\ out' = [out EXCEPT ![c] = @ \o SubSeq(buf[w], 1, n)]
        /\ lost' = [lost EXCEPT ![c] = @ \cup Dropped(buf[w], n)]
  BY DEF Write, Dropped
<1>5. InHand(w)
  BY <1>1 DEF Bytes
<1>6. PICK m \in Nat : /\ m = taken[c] - Len(buf[w]) /\ m + Len(buf[w]) = taken[c]
                       /\ Account(out[c], lost[c], m)
                       /\ NextBytes(buf[w], m)
  <2>1. /\ Len(buf[w]) <= taken[c] /\ Account(out[c], lost[c], taken[c] - Len(buf[w]))
        /\ NextBytes(buf[w], taken[c] - Len(buf[w]))
    BY <1>5 DEF InHand
  <2>2. taken[c] \in Nat /\ Len(buf[w]) \in Nat
    BY <1>2, <1>3
  <2>3. PICK m : m = taken[c] - Len(buf[w])
    OBVIOUS
  <2>4. m \in Nat /\ m + Len(buf[w]) = taken[c]
    BY <2>1, <2>2, <2>3
  <2>5. Account(out[c], lost[c], m) /\ NextBytes(buf[w], m)
    BY <2>1, <2>3
  <2>6. QED
    BY <2>3, <2>4, <2>5
<1> HIDE DEF c
<1>7. /\ out' \in [Conns -> Seq(Nat)] /\ lost' \in [Conns -> SUBSET Nat]
      /\ Account(out'[c], lost'[c], taken[c])
      /\ \A b \in Conns \ {c} : out'[b] = out[b] /\ lost'[b] = lost[b]
      /\ buf' \in [Workers -> Seq(Nat)] /\ \A v \in Workers \ {w} : buf'[v] = buf[v]
      /\ event' \in [Workers -> Seq(Conns)] /\ event'[w] = Tail(event[w])
      /\ \A v \in Workers \ {w} : event'[v] = event[v]
  <2>1. PICK t, K : t = out[c] \o SubSeq(buf[w], 1, n) /\ K = lost[c] \cup Dropped(buf[w], n)
    OBVIOUS
  <2>2. out[c] \in Seq(Nat) /\ lost[c] \in SUBSET Nat /\ buf[w] \in Seq(Nat)
    BY <1>2, <1>3
  <2>3. t \in Seq(Nat) /\ K \in SUBSET Nat /\ Account(t, K, m + Len(buf[w]))
    BY <1>6, <2>1, <2>2, Accounted
  <2>4. out' = [out EXCEPT ![c] = t] /\ lost' = [lost EXCEPT ![c] = K]
    BY <1>4, <2>1
  <2>5. out'[c] = t /\ lost'[c] = K
    BY <1>2, <1>3, <2>4
  <2>6. out' \in [Conns -> Seq(Nat)] /\ lost' \in [Conns -> SUBSET Nat]
    BY <1>2, <2>3, <2>4
  <2>7. \A b \in Conns \ {c} : out'[b] = out[b] /\ lost'[b] = lost[b]
    BY <1>2, <2>4
  <2>8. Account(out'[c], lost'[c], taken[c])
    BY <1>6, <2>3, <2>5
  <2>9. buf' \in [Workers -> Seq(Nat)] /\ \A v \in Workers \ {w} : buf'[v] = buf[v]
    BY <1>1, <1>2
  <2>10. /\ event' \in [Workers -> Seq(Conns)] /\ event'[w] = Tail(event[w])
         /\ \A v \in Workers \ {w} : event'[v] = event[v]
    BY <1>1, <1>2, <1>3
  <2>11. QED
    BY <2>6, <2>7, <2>8, <2>9, <2>10
<1>8. /\ wpc' \in [Workers -> {"none", "start", "dead", "wait", "read", "write", "close"}]
      /\ \A v \in Workers \ {w} : wpc'[v] = wpc[v]
      /\ wpc'[w] = IF event'[w] = <<>> THEN "wait" ELSE "read"
  BY <1>1, <1>2
<1>9. \A v \in Workers \ {w} : Current(v)' = Current(v)
  BY <1>7 DEF Current
<1>10. Types'
  BY <1>1, <1>7, <1>8 DEF Types, TypeOK
<1>11. Registered' /\ Accepting'
  BY <1>1, <1>2, <1>8 DEF Registered, Accepting
<1>12. Handling'
  <2>1. \A i \in 1..(Len(event[w]) - 1) : i + 1 \in 1..Len(event[w])
    BY <1>3
  <2>2. \A i \in 1..Len(event'[w]) : event'[w][i] \in interest[w]
    BY <1>3, <1>7, <2>1 DEF Handling
  <2>3. \A v \in Workers \ {w} :
          /\ wpc'[v] \in Busy <=> event'[v] # <<>>
          /\ \A i \in 1..Len(event'[v]) : event'[v][i] \in interest'[v]
    BY <1>1, <1>7, <1>8 DEF Handling
  <2>4. QED
    BY <1>1, <1>8, <2>2, <2>3 DEF Handling, Busy
<1>13. Bytes'
  <2>1. \A b \in Conns : taken'[b] <= sent'[b]
    BY <1>1 DEF Bytes
  <2>2. ASSUME NEW b \in Conns, \A v \in Workers : ~Writing(v, b)'
        PROVE  Account(out'[b], lost'[b], taken'[b])
    <3>1. CASE b = c
      BY <1>1, <1>7, <3>1
    <3>2. CASE b # c
      <4>1. \A v \in Workers : ~Writing(v, b)
        BY <1>8, <1>9, <2>2, <3>2 DEF Writing, c
      <4>2. QED
        BY <1>1, <1>7, <3>2, <4>1 DEF Bytes
    <3>3. QED
      BY <3>1, <3>2
  <2>3. ASSUME NEW v \in Workers, wpc'[v] = "write"
        PROVE  InHand(v)'
    <3>1. v # w /\ wpc[v] = "write" /\ Current(v) \in Conns \ {c}
      BY <1>3, <1>8, <2>3, CurrentIsOwn DEF Busy
    <3>2. InHand(v)
      BY <3>1 DEF Bytes
    <3>3. PICK b \in Conns \ {c} : b = Current(v) /\ b = Current(v)'
      BY <1>9, <3>1
    <3>4. out'[b] = out[b] /\ lost'[b] = lost[b] /\ taken'[b] = taken[b] /\ buf'[v] = buf[v]
      BY <1>1, <1>7, <3>1
    <3>5. QED
      BY <3>2, <3>3, <3>4 DEF InHand
  <2>4. QED
    BY <2>1, <2>2, <2>3 DEF Bytes
<1>14. Closing'
  <2>1. \A b \in Conns : Ended(b)' <=> Ended(b)
    BY <1>1 DEF Ended, Unread
  <2>2. ASSUME NEW v \in Workers, wpc'[v] = "close"
        PROVE  Ended(Current(v))'
    <3>1. v # w /\ wpc[v] = "close"
      BY <1>8, <2>2
    <3>2. QED
      BY <1>1, <1>9, <3>1 DEF Closing, Ended, Unread
  <2>3. \A b \in Conns : stage'[b] = "closed" => Ended(b)' /\ Account(out'[b], lost'[b], taken'[b])
    BY <1>1, <1>3, <1>7, <2>1 DEF Closing
  <2>4. QED
    BY <2>2, <2>3 DEF Closing
<1>15. QED
  BY <1>10, <1>11, <1>12, <1>13, <1>14

LEMMA CloseKeeps ==
  ASSUME ServerInv, NEW w \in Workers, Close(w)
  PROVE  ServerInv'
<1> USE DEF ServerInv
<1> DEFINE c == Current(w)
<1>1. /\ wpc[w] = "close" /\ wpc' = [wpc EXCEPT ![w] = "wait"] /\ mpc # "exited"
      /\ stage' = [stage EXCEPT ![c] = "closed"]
      /\ interest' = [v \in Workers |-> interest[v] \ {c}]
      /\ ready' = [v \in Workers |-> ready[v] \ {c}]
      /\ event' = [event EXCEPT ![w] = <<>>]
      /\ UNCHANGED <<sent, end, taken, out, lost, backlog, mpc, accp_fd, accept_cnt, epfds, buf>>
  BY DEF Close, At, Goes, mainVars
<1>2. /\ wpc \in [Workers -> {"none", "start", "dead", "wait", "read", "write", "close"}]
      /\ stage \in [Conns -> {"new", "backlog", "accepted", "closed"}]
      /\ event \in [Workers -> Seq(Conns)]
      /\ interest \in [Workers -> SUBSET Conns] /\ ready \in [Workers -> SUBSET Conns]
      /\ mpc # "setup"
  BY <1>1 DEF Types, TypeOK, Accepting
<1>3. /\ c \in Conns /\ c \in interest[w] /\ stage[c] = "accepted"
      /\ \A v \in Workers \ {w} : c \notin interest[v]
      /\ Ended(c) /\ Account(out[c], lost[c], taken[c])
  BY <1>1, CurrentIsOwn, AllWritten DEF Busy, Closing
<1> HIDE DEF c
<1>4. /\ stage' \in [Conns -> {"new", "backlog", "accepted", "closed"}]
      /\ \A b \in Conns \ {c} : stage'[b] = stage[b]
      /\ stage'[c] = "closed"
  BY <1>1, <1>2, <1>3
<1>5. /\ interest' \in [Workers -> SUBSET Conns] /\ ready' \in [Workers -> SUBSET Conns]
      /\ \A v \in Workers : interest'[v] = interest[v] \ {c} /\ ready'[v] = ready[v] \ {c}
  BY <1>1, <1>2
<1>6. /\ event' \in [Workers -> Seq(Conns)] /\ event'[w] = <<>> /\ wpc'[w] = "wait"
      /\ \A v \in Workers \ {w} : event'[v] = event[v] /\ wpc'[v] = wpc[v]
      /\ wpc' \in [Workers -> {"none", "start", "dead", "wait", "read", "write", "close"}]
  BY <1>1, <1>2
<1>7. \A v \in Workers \ {w} : Current(v)' = Current(v)
  BY <1>6 DEF Current
<1>8. Types'
  BY <1>1, <1>4, <1>5, <1>6 DEF Types, TypeOK
<1>9. Registered'
  BY <1>2, <1>4, <1>5 DEF Registered
<1>10. Accepting'
  <2>1. \A i \in 1..Len(backlog) : backlog[i] \in Conns \ {c}
    <3>1. backlog \in Seq(Conns)
      BY DEF Types
    <3>2. QED
      BY <1>3, <3>1 DEF Accepting
  <2>2. mpc = "register" => accp_fd \in Conns \ {c}
    BY <1>3 DEF Accepting
  <2>3. QED
    BY <1>1, <1>2, <1>4, <1>5, <2>1, <2>2 DEF Accepting
<1>11. Handling'
  <2>1. ASSUME NEW v \in Workers \ {w}
        PROVE  /\ wpc'[v] \in Busy <=> event'[v] # <<>>
               /\ \A i \in 1..Len(event'[v]) : event'[v][i] \in interest'[v]
    <3>1. /\ wpc[v] \in Busy <=> event[v] # <<>>
          /\ \A i \in 1..Len(event[v]) : event[v][i] \in interest[v]
      BY DEF Handling
    <3>2. interest'[v] = interest[v] /\ event'[v] = event[v] /\ wpc'[v] = wpc[v]
      <4>1. c \notin interest[v] /\ interest'[v] = interest[v] \ {c}
        BY <1>3, <1>5
      <4>2. interest[v] \ {c} = interest[v]
        BY <4>1
      <4>3. event'[v] = event[v] /\ wpc'[v] = wpc[v]
        BY <1>6
      <4>4. QED
        BY <4>1, <4>2, <4>3
    <3>3. QED
      BY <3>1, <3>2
  <2>2. QED
    BY <1>6, <2>1 DEF Handling, Busy
<1>12. Bytes'
  <2>1. \A b \in Conns : taken[b] <= sent'[b]
    BY <1>1 DEF Bytes
  <2>2. /\ \A v \in Workers : wpc'[v] = "write" <=> wpc[v] = "write"
        /\ \A v \in Workers : wpc[v] = "write" => event'[v] = event[v]
    BY <1>1, <1>6
  <2>3. QED
    BY <1>1, <2>1, <2>2, BytesStay
<1>13. Closing'
  <2>1. \A b \in Conns : Ended(b)' <=> Ended(b)
    BY <1>1 DEF Ended, Unread
  <2>2. ASSUME NEW v \in Workers, wpc'[v] = "close"
        PROVE  Ended(Current(v))'
    <3>1. v # w /\ wpc[v] = "close"
      BY <1>6, <2>2
    <3>2. QED
      BY <1>1, <1>7, <3>1 DEF Closing, Ended, Unread
  <2>3. \A b \in Conns : stage'[b] = "closed" => Ended(b)' /\ Account(out'[b], lost'[b], taken'[b])
    BY <1>1, <1>3, <1>4, <2>1 DEF Closing
  <2>4. QED
    BY <2>2, <2>3 DEF Closing
<1>14. QED
  BY <1>8, <1>9, <1>10, <1>11, <1>12, <1>13

-----------------------------------------------------------------------------
(* ServerInv is an inductive invariant of the server.                      *)
THEOREM ServerInvariant == Spec => []ServerInv
<1>1. Init => ServerInv
  <2> SUFFICES ASSUME Init PROVE ServerInv
    OBVIOUS
  <2>1. Types
    BY Constants DEF Init, Types, TypeOK, Workers
  <2>2. Registered /\ Accepting
    BY DEF Init, Registered, Accepting
  <2>3. Handling
    BY DEF Init, Handling, Busy
  <2>4. \A c \in Conns : out[c] = <<>> /\ lost[c] = {} /\ taken[c] = 0 /\ sent[c] = 0
    BY DEF Init
  <2>5. \A c \in Conns : Account(out[c], lost[c], taken[c])
    BY <2>4 DEF Account
  <2>6. Bytes /\ Closing
    BY <2>4, <2>5 DEF Init, Bytes, Closing
  <2>7. QED
    BY <2>1, <2>2, <2>3, <2>6 DEF ServerInv
<1>2. ServerInv /\ [Next]_vars => ServerInv'
  <2> SUFFICES ASSUME ServerInv, [Next]_vars PROVE ServerInv'
    OBVIOUS
  <2>1. CASE UNCHANGED vars
    <3>1. UNCHANGED <<stage, sent, end, taken, out, lost, backlog, mpc, accp_fd, accept_cnt, epfds,
                      interest, ready, wpc, event, buf>>
      BY <2>1 DEF vars, connVars, mainVars, kernelVars, workVars
    <3>2. Types' /\ Registered' /\ Accepting' /\ Handling'
      BY <3>1 DEF ServerInv, Types, TypeOK, Registered, Accepting, Handling
    <3>3. \A b \in Conns : taken[b] <= sent'[b]
      BY <3>1 DEF ServerInv, Bytes
    <3>4. Bytes'
      BY <3>1, <3>3, BytesStay
    <3>5. Closing'
      BY <3>1 DEF ServerInv, Closing, Current, Ended, Unread
    <3>6. QED
      BY <3>2, <3>4, <3>5 DEF ServerInv
  <2>2. CASE MainStep
    BY <2>2, MainWaitsKeep, AcceptKeeps, RegisterKeeps DEF MainStep
  <2>3. ASSUME NEW w \in Workers, WorkerStep(w)
        PROVE  ServerInv'
    BY <2>3, CreateKeeps, WaitKeeps, ReadDataKeeps, ReadKeeps, WriteKeeps, CloseKeeps
       DEF WorkerStep
  <2>4. ASSUME NEW c \in Conns, Connect(c) \/ Send(c) \/ HangUp(c)
        PROVE  ServerInv'
    BY <2>4, ConnectKeeps, ArrivalKeeps
  <2>5. QED
    BY <2>1, <2>2, <2>3, <2>4 DEF Next
<1>3. QED
  BY <1>1, <1>2, PTL DEF Spec

(* What Account says of the bytes handed to write. *)
LEMMA AccountMeans ==
  ASSUME NEW c \in Conns, NEW n, Account(out[c], lost[c], n), DOMAIN out[c] = 1..Len(out[c])
  PROVE  Range(out[c]) \cap lost[c] = {} /\ Handed(c) = 1..n
<1>1. Range(out[c]) = {out[c][i] : i \in 1..Len(out[c])}
  BY DEF Range
<1>2. QED
  BY <1>1 DEF Account, Handed

(* A worker reads and closes open descriptors of its own connections only. *)
THEOREM OnlyOpenHandled == Spec => []HandlesOpenOnly
<1>1. ServerInv => HandlesOpenOnly
  <2> SUFFICES ASSUME ServerInv, NEW w \in Workers, NEW c \in Range(event[w])
               PROVE  stage[c] = "accepted" /\ c \in interest[w]
    BY DEF HandlesOpenOnly, ServerInv, Types
  <2>1. event[w] \in Seq(Conns)
    BY DEF ServerInv, Types
  <2>2. PICK i \in 1..Len(event[w]) : c = event[w][i]
    BY <2>1 DEF Range
  <2>3. QED
    BY <2>2 DEF ServerInv, Handling, Registered
<1>2. QED
  BY <1>1, ServerInvariant, PTL

(* The output of a connection is in order, without a byte twice, and what  *)
(* it lacks of the bytes handed to write is what a write has dropped.      *)
THEOREM OutputAccounted == Spec => []OutputInOrder
<1>1. ServerInv => OutputInOrder
  <2> SUFFICES ASSUME ServerInv, NEW c \in Conns
               PROVE  /\ \A i, j \in DOMAIN out[c] : i < j => out[c][i] < out[c][j]
                      /\ Range(out[c]) \cap lost[c] = {}
                      /\ \E n \in 0..sent[c] : Handed(c) = 1..n
    BY DEF OutputInOrder
  <2>1. sent[c] \in Nat /\ taken[c] \in Nat /\ taken[c] <= sent[c]
    BY DEF ServerInv, Types, TypeOK, Bytes
  <2>2. PICK n \in 0..sent[c] : Account(out[c], lost[c], n)
    <3>1. CASE \A w \in Workers : ~Writing(w, c)
      <4>1. Account(out[c], lost[c], taken[c]) /\ taken[c] \in 0..sent[c]
        BY <2>1, <3>1 DEF ServerInv, Bytes
      <4>2. QED
        BY <4>1
    <3>2. ASSUME NEW w \in Workers, Writing(w, c)
          PROVE  \E n \in 0..sent[c] : Account(out[c], lost[c], n)
      <4>1. InHand(w) /\ Current(w) = c /\ buf[w] \in Seq(Nat)
        BY <3>2 DEF ServerInv, Types, Bytes, Writing
      <4>2. Account(out[c], lost[c], taken[c] - Len(buf[w])) /\ Len(buf[w]) <= taken[c]
        BY <4>1 DEF InHand
      <4>3. Len(buf[w]) \in Nat
        BY <4>1
      <4>4. taken[c] - Len(buf[w]) \in 0..sent[c]
        BY <2>1, <4>2, <4>3
      <4>5. QED
        BY <4>2, <4>4
    <3>3. QED
      BY <3>1, <3>2
  <2>3. DOMAIN out[c] = 1..Len(out[c])
    BY DEF ServerInv, Types
  <2>4. Range(out[c]) \cap lost[c] = {} /\ Handed(c) = 1..n
    BY <2>2, <2>3, AccountMeans
  <2>5. QED
    BY <2>2, <2>3, <2>4 DEF Account
<1>2. QED
  BY <1>1, ServerInvariant, PTL

(* A connection that was not reset is closed after the client has closed   *)
(* it and a worker has handed all it sent to write.                        *)
THEOREM ClosedAfterAll == Spec => []ClosedComplete
<1>1. ServerInv => ClosedComplete
  <2> SUFFICES ASSUME ServerInv, NEW c \in Conns, stage[c] = "closed", end[c] # "reset"
               PROVE  end[c] = "fin" /\ Handed(c) = 1..sent[c]
    BY DEF ClosedComplete
  <2>1. end[c] = "fin" /\ Unread(c) = 0 /\ Account(out[c], lost[c], taken[c])
    BY DEF ServerInv, Closing, Ended
  <2>2. sent[c] \in Nat /\ taken[c] \in Nat /\ DOMAIN out[c] = 1..Len(out[c])
    BY DEF ServerInv, Types, TypeOK
  <2>3. sent[c] = taken[c]
    BY <2>1, <2>2 DEF Unread
  <2>4. Handed(c) = 1..taken[c]
    BY <2>1, <2>2, AccountMeans
  <2>5. QED
    BY <2>1, <2>3, <2>4
<1>2. QED
  BY <1>1, ServerInvariant, PTL

=============================================================================
