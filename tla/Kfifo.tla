------------------------------- MODULE Kfifo --------------------------------
(***************************************************************************)
(* src/clib/kfifo.c: a ring buffer of a power-of-two size between one      *)
(* producer in kfifo_put and one consumer in kfifo_get, without a lock.    *)
(* The counters in and out grow for ever and wrap at 2^32, M here.         *)
(*                                                                         *)
(* The barriers of util.h are compiler barriers (CONFIG_SMP is not set)    *)
(* and the asm is that of x86: a processor's stores become visible in      *)
(* order, and late.  So each thread reads its own counter as it last wrote *)
(* it (in, out), and the other's as it is in memory (inMem, outMem);       *)
(* stores on their way are in inStores and outStores.  The bytes of a put  *)
(* are in memory before the counter that covers them, hence before anyone  *)
(* reads them: they are written straight to buf.                           *)
(***************************************************************************)
EXTENDS PowerOfTwo

CONSTANTS Request,   \* kfifo_init's argument
          M,         \* the range of unsigned int: less than 2^W, so that counters wrap
          MaxWant,   \* bound: the largest length asked of kfifo_put or kfifo_get
          MaxBytes,  \* bound: bytes put in one behaviour
          Requests,  \* other arguments of kfifo_init to compute the size for
          Indices    \* values of the counters to index such a buffer with

(* fifo->size *)
Size == NextPowerOfTwo(Request)

ASSUME KfifoAssumption ==
  /\ M \in Nat /\ MaxWant \in Nat \ {0} /\ MaxBytes \in Nat
  /\ Size \in 1..(M - 1) /\ M % Size = 0
  /\ \A n \in Requests \cup {Request} : n \in 0..2^(W - 2)
  /\ Indices \subseteq Nat

VARIABLES buf,                  \* each slot: the number of the byte in it, 0 at first
          in, inMem, inStores,  \* fifo->in
          out, outMem, outStores, \* fifo->out
          ppc, plen, ptodo,     \* kfifo_put: position, len, offsets not copied yet
          gpc, glen, gtodo,     \* kfifo_get: likewise
          dest,                 \* the bytes kfifo_get has copied
          sent, received        \* history: bytes put and got in finished calls

inVars  == <<in, inMem, inStores>>
outVars == <<out, outMem, outStores>>
putVars == <<ppc, plen, ptodo, sent>>
getVars == <<gpc, glen, gtodo, dest, received>>
vars    == <<buf, inVars, outVars, putVars, getVars>>

Slots == 0..(Size - 1)

(* Mutant: the second memcpy starts where the first one did. *)
SlotWithoutWrap(c, len, j) ==
  LET off == c % Size
      l   == Min({len, Size - off})
  IN  IF j < l THEN off + j ELSE off + ((j - l) % (Size - off))

(* The slot of the j-th byte of a transfer of len bytes from counter c: a  *)
(* first memcpy up to the end of the buffer, a second one from its start.  *)
(* The code masks the counter with Size - 1 (see SizesArePowers).          *)
Slot(c, len, j) ==
  LET off == c % Size
      l   == Min({len, Size - off})
  IN  IF j < l THEN off + j ELSE j - l

(* kfifo_init, when both allocations succeed *)
Init ==
  /\ buf = [s \in Slots |-> 0]
  /\ in = 0 /\ inMem = 0 /\ inStores = <<>>
  /\ out = 0 /\ outMem = 0 /\ outStores = <<>>
  /\ ppc = "idle" /\ plen = 0 /\ ptodo = {}
  /\ gpc = "idle" /\ glen = 0 /\ gtodo = {}
  /\ dest = <<>>
  /\ sent = 0 /\ received = 0

-----------------------------------------------------------------------------
(* Mutant: one byte more than there is room for. *)
RoomOneMore == (Size - in + outMem + 1) % M

(* What the producer has room for: one read of out. *)
Room == (Size - in + outMem) % M

(* kfifo_put *)
PutStart(want) ==
  /\ ppc = "idle"
  /\ sent + want <= MaxBytes
  /\ LET len == Min({want, Room})
     IN  plen' = len /\ ptodo' = 0..(len - 1)
  /\ ppc' = "copy"
  /\ UNCHANGED <<buf, inVars, outVars, sent, getVars>>

(* One byte of the two memcpys, which copy in an order of their own.       *)
PutByte ==
  /\ ppc = "copy"
  /\ \E j \in ptodo :
       /\ buf' = [buf EXCEPT ![Slot(in, plen, j)] = sent + j + 1]
       /\ ptodo' = ptodo \ {j}
  /\ UNCHANGED <<inVars, outVars, ppc, plen, sent, getVars>>

(* Mutant: the counter is published before the bytes are all copied. *)
CopiedOrNot == TRUE

Copied == ptodo = {}

(* fifo->in += len, after the barrier; adding 0 shows nothing to anyone.   *)
PutPublish ==
  /\ ppc = "copy"
  /\ Copied
  /\ ppc' = "idle"
  /\ in' = (in + plen) % M
  /\ inStores' = IF plen = 0 THEN inStores ELSE Append(inStores, in')
  /\ sent' = sent + plen
  /\ plen' = 0 /\ ptodo' = {}
  /\ UNCHANGED <<buf, inMem, outVars, getVars>>

(* The store to in reaches memory. *)
FlushIn ==
  /\ inStores # <<>>
  /\ inMem' = Head(inStores)
  /\ inStores' = Tail(inStores)
  /\ UNCHANGED <<buf, in, outVars, putVars, getVars>>

-----------------------------------------------------------------------------
(* Mutant: the bytes there are do not limit the length. *)
AvailableUnlimited == Size

(* What the consumer can take: one read of in. *)
Available == (inMem - out) % M

(* kfifo_get *)
GetStart(want) ==
  /\ gpc = "idle"
  /\ LET len == Min({want, Available})
     IN  glen' = len /\ gtodo' = 0..(len - 1) /\ dest' = [j \in 0..(len - 1) |-> 0]
  /\ gpc' = "copy"
  /\ UNCHANGED <<buf, inVars, outVars, putVars, received>>

GetByte ==
  /\ gpc = "copy"
  /\ \E j \in gtodo :
       /\ dest' = [dest EXCEPT ![j] = buf[Slot(out, glen, j)]]
       /\ gtodo' = gtodo \ {j}
  /\ UNCHANGED <<buf, inVars, outVars, putVars, gpc, glen, received>>

GetPublish ==
  /\ gpc = "copy"
  /\ gtodo = {}
  /\ gpc' = "idle"
  /\ out' = (out + glen) % M
  /\ outStores' = IF glen = 0 THEN outStores ELSE Append(outStores, out')
  /\ received' = received + glen
  /\ glen' = 0
  /\ dest' = <<>>
  /\ UNCHANGED <<buf, inVars, outMem, putVars, gtodo>>

FlushOut ==
  /\ outStores # <<>>
  /\ outMem' = Head(outStores)
  /\ outStores' = Tail(outStores)
  /\ UNCHANGED <<buf, inVars, out, putVars, getVars>>

-----------------------------------------------------------------------------
Next ==
  \/ \E want \in 1..MaxWant : PutStart(want) \/ GetStart(want)
  \/ PutByte \/ PutPublish \/ FlushIn
  \/ GetByte \/ GetPublish \/ FlushOut

Spec == Init /\ [][Next]_vars

-----------------------------------------------------------------------------
Counter == 0..(M - 1)

TypeOK ==
  /\ buf \in [Slots -> 0..MaxBytes]
  /\ {in, inMem, out, outMem} \subseteq Counter
  /\ inStores \in Seq(Counter) /\ outStores \in Seq(Counter)
  /\ ppc \in {"idle", "copy"} /\ gpc \in {"idle", "copy"}
  /\ plen \in 0..Size /\ glen \in 0..Size
  /\ ptodo \subseteq 0..(plen - 1) /\ gtodo \subseteq 0..(glen - 1)
  /\ sent \in 0..MaxBytes /\ received \in 0..sent

(* When kfifo_init returns, the size is the least power of two that holds  *)
(* what was asked for, and "in & (size - 1)" will be in modulo size (the   *)
(* comment above kfifo_put, point 2), for all requests of up to 2^(W - 2): *)
(* the result for a larger one is not an int.                              *)
SizesArePowers ==
  sent = 0 /\ ppc = "idle" /\ gpc = "idle" =>
    \A n \in Requests :
      LET size == NextPowerOfTwo(n)
      IN  /\ IsLeastPower(size, n)
          /\ \A i \in Indices : Masked(i, size - 1) = i % size

(* What is in the buffer is at most Size, even when in has wrapped and out *)
(* has not (the comment above kfifo_put, point 1): the producer may see    *)
(* less room than there is and the consumer fewer bytes, never more.       *)
Occupancy ==
  LET count == sent - received
  IN  /\ TypeOK
      /\ count <= Size
      /\ (in - out) % M = count
      /\ (in - outMem) % M \in count..Size
      /\ (inMem - out) % M \in 0..count

(* The producer and the consumer never have the same slot to copy: no lock *)
(* is needed.                                                              *)
NoSlotRace ==
  \A j \in ptodo, k \in gtodo : Slot(in, plen, j) # Slot(out, glen, k)

(* The consumer copies the bytes of the stream in order, none twice, none  *)
(* skipped, none before it was written.                                    *)
InOrder ==
  \A j \in (0..(glen - 1)) \ gtodo : dest[j] = received + j + 1

(* The ring is a bounded queue: the bytes between out and in are those of  *)
(* the stream not got yet, and no step of the other side disturbs them.    *)
Fifo == INSTANCE BoundedFifo
          WITH held <- [i \in 1..((in - out) % M) |-> buf[(out + i - 1) % Size]]

ImplementsFifo == Fifo!FifoSpec

=============================================================================
