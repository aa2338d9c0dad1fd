------------------------------ MODULE ShmRing -------------------------------
(***************************************************************************)
(* One direction of a shm_channel: the ring in shared memory               *)
(* (shm_buffer.cpp) with a process that writes into it by try_write and    *)
(* one that reads from it by try_read (shm_channel.cpp).  The counters are *)
(* plain size_t that both processes access; a step is one store by one of  *)
(* them, or one load with the decision it feeds.  The build is for x64     *)
(* only (CMakeLists.txt:7), whose stores become visible in program order.  *)
(*                                                                         *)
(* A byte of the ring is the position it has in a message: <<n, k>> is     *)
(* byte k of the prefix that says n, <<m, k>> byte k of the payload of m.  *)
(***************************************************************************)
EXTENDS Naturals, Sequences

CONSTANTS
    Messages,       \* what is sent
    LenOf,          \* payload length of each message
    Prefix,         \* sizeof(uint32_t), the length prefix
    Size,           \* bytes of the ring
    CounterMod,     \* 2^64: the counters wrap there
    BufSizes,       \* sizes of the reader's buffer
    None,           \* no message, no byte
    Crashes         \* where a process may die and be restarted

\* Messages without a payload are all the same message.
ASSUME ShmRingAssumption ==
    /\ LenOf \in [Messages -> Nat] /\ Prefix \in Nat \ {0}
    /\ \A m, n \in Messages : LenOf[m] = 0 /\ LenOf[n] = 0 => m = n
    /\ Size \in Nat \ {0} /\ CounterMod \in Nat /\ Size < CounterMod
    /\ BufSizes \subseteq Nat /\ None \notin Messages
    /\ Crashes \in {"outside commits", "anywhere"}

VARIABLES
    data, read, write, read_index, write_index,     \* shm_data
    msg,        \* the message try_write is storing, or None
    wpc,        \* its next store
    rpc,        \* where try_read is
    size,       \* its argument: the size of the buffer
    len,        \* the length it decoded
    buf,        \* the bytes it copied
    ret,        \* what it returned last
    chan,       \* history: messages written and not read
    got         \* history: the last message returned to the reader

shared == <<data, read, write, read_index, write_index>>
writer == <<msg, wpc>>
reader == <<rpc, size, len, buf, ret>>
vars == <<shared, writer, reader, chan, got>>

-----------------------------------------------------------------------------
(* shm_buffer                                                              *)

\* size_t arithmetic; TLA+'s % is never negative.
readable == (write + CounterMod - read) % CounterMod
writable == (Size + read + CounterMod - write) % CounterMod

\* The index n bytes on, as both write_impl and read_impl compute it.
Advance(i, n) ==
    IF n > Size - i THEN n - (Size - i)
    ELSE IF i + n = Size THEN 0 ELSE i + n

\* The index at an offset from write_index or read_index.
AtOffset(i, offset) == IF i + offset >= Size THEN i + offset - Size ELSE i + offset

\* Byte k of a run that starts at i; the run goes on at 0 behind the end.
Cell(i, k) == IF k <= Size - i THEN i + k - 1 ELSE k - (Size - i) - 1

\* memmove of bytes to index i, in one or two parts.
Stored(i, bytes) ==
    [c \in 0..Size - 1 |->
        IF \E k \in 1..Len(bytes) : Cell(i, k) = c
        THEN bytes[CHOOSE k \in 1..Len(bytes) : Cell(i, k) = c]
        ELSE data[c]]

\* memcpy of n bytes from index i.
Loaded(i, n) == [k \in 1..n |-> data[Cell(i, k)]]

PrefixBytes(n) == [k \in 1..Prefix |-> <<n, k>>]
PayloadBytes(m) == [k \in 1..LenOf[m] |-> <<m, k>>]

Init ==
    /\ data = [c \in 0..Size - 1 |-> None]
    /\ read = 0 /\ write = 0 /\ read_index = 0 /\ write_index = 0
    /\ msg = None /\ wpc = "idle"
    /\ rpc = "idle" /\ size = 0 /\ len = 0 /\ buf = <<>> /\ ret = 0
    /\ chan = <<>> /\ got = None

-----------------------------------------------------------------------------
(* The writing process: try_write                                          *)

Needs(m) == Prefix + LenOf[m]

\* Without room nothing changes and try_write returns false.  The checks that
\* fill and write(len) make again pass, since only this process lowers
\* writable.
TryWrite(m) ==
    /\ wpc = "idle"
    /\ writable >= Needs(m)
    /\ msg' = m /\ wpc' = "prefix"
    /\ UNCHANGED <<shared, reader, chan, got>>

StorePrefix ==
    /\ wpc = "prefix" /\ wpc' = "payload"
    /\ data' = Stored(write_index, PrefixBytes(LenOf[msg]))
    /\ UNCHANGED <<read, write, read_index, write_index, msg, reader, chan, got>>

\* Mutant: fill without the offset.
StorePayloadAtFront ==
    /\ wpc = "payload" /\ wpc' = "index"
    /\ data' = Stored(write_index, PayloadBytes(msg))
    /\ UNCHANGED <<read, write, read_index, write_index, msg, reader, chan, got>>

StorePayload ==
    /\ wpc = "payload" /\ wpc' = "index"
    /\ data' = Stored(AtOffset(write_index, Prefix), PayloadBytes(msg))
    /\ UNCHANGED <<read, write, read_index, write_index, msg, reader, chan, got>>

\* shm_buffer::write(len): the index first,
StoreIndex ==
    /\ wpc = "index" /\ wpc' = "count"
    /\ write_index' = Advance(write_index, Needs(msg))
    /\ UNCHANGED <<data, read, write, read_index, msg, reader, chan, got>>

\* Mutant: the counter leaves out the prefix.
StoreCountPayload ==
    /\ wpc = "count" /\ wpc' = "idle"
    /\ write' = (write + LenOf[msg]) % CounterMod
    /\ chan' = Append(chan, msg)
    /\ msg' = None
    /\ UNCHANGED <<data, read, read_index, write_index, reader, got>>

\* then the counter, which shows the message to the reader.
StoreCount ==
    /\ wpc = "count" /\ wpc' = "idle"
    /\ write' = (write + Needs(msg)) % CounterMod
    /\ chan' = Append(chan, msg)
    /\ msg' = None
    /\ UNCHANGED <<data, read, read_index, write_index, reader, got>>

\* The process is restarted and attaches to the segment as it is.
WriterCrash ==
    /\ wpc # "idle" /\ (wpc = "count" => Crashes = "anywhere")
    /\ wpc' = "idle" /\ msg' = None
    /\ UNCHANGED <<shared, reader, chan, got>>

-----------------------------------------------------------------------------
(* The reading process: try_read                                           *)

Lengths == {LenOf[m] : m \in Messages}

\* What Prefix bytes may say when they are read as a uint32_t.
Decoded(bytes) ==
    IF \E n \in Lengths : bytes = PrefixBytes(n)
    THEN {n \in Lengths : bytes = PrefixBytes(n)}
    ELSE 0..Size

\* peek(&len); with fewer bytes than the prefix try_read returns 0.
TryRead(s) ==
    /\ rpc = "idle"
    /\ readable >= Prefix
    /\ size' = s
    /\ len' \in Decoded(Loaded(read_index, Prefix))
    /\ rpc' = "check"
    /\ UNCHANGED <<shared, writer, buf, ret, chan, got>>

\* Both early returns give 0, also the one for a buffer that is too small.
CheckLength ==
    /\ rpc = "check"
    /\ \/ /\ readable < Prefix + len \/ size < len
          /\ rpc' = "idle" /\ ret' = 0
       \/ /\ readable >= Prefix + len /\ size >= len
          /\ rpc' = "payload" /\ UNCHANGED ret
    /\ UNCHANGED <<shared, writer, size, len, buf, chan, got>>

CopyPayload ==
    /\ rpc = "payload"
    /\ buf' = Loaded(AtOffset(read_index, Prefix), len)
    /\ rpc' = "index"
    /\ UNCHANGED <<shared, writer, size, len, ret, chan, got>>

\* shm_buffer::read(len): the index first,
ReadIndex ==
    /\ rpc = "index"
    /\ read_index' = Advance(read_index, Prefix + len)
    /\ rpc' = "count"
    /\ UNCHANGED <<data, read, write, write_index, writer, size, len, buf, ret,
                   chan, got>>

\* The message whose bytes these are.
Message(bytes) ==
    IF \E m \in Messages : bytes = PayloadBytes(m)
    THEN CHOOSE m \in Messages : bytes = PayloadBytes(m) ELSE None

\* then the counter, which gives the room back.
ReadCount ==
    /\ rpc = "count"
    /\ read' = (read + Prefix + len) % CounterMod
    /\ got' = Message(buf)
    /\ chan' = IF chan = <<>> THEN chan ELSE Tail(chan)
    /\ ret' = len
    /\ rpc' = "idle" /\ buf' = <<>>
    /\ UNCHANGED <<data, write, read_index, write_index, writer, size, len>>

ReaderCrash ==
    /\ rpc # "idle" /\ (rpc = "count" => Crashes = "anywhere")
    /\ rpc' = "idle" /\ buf' = <<>>
    /\ UNCHANGED <<shared, writer, size, len, ret, chan, got>>

-----------------------------------------------------------------------------
WriterStep ==
    \/ \E m \in Messages : TryWrite(m)
    \/ StorePrefix \/ StorePayload \/ StoreIndex \/ StoreCount \/ WriterCrash

ReaderStep ==
    \/ \E s \in BufSizes : TryRead(s)
    \/ CheckLength \/ CopyPayload \/ ReadIndex \/ ReadCount \/ ReaderCrash

Next == WriterStep \/ ReaderStep

Spec == Init /\ [][Next]_vars

-----------------------------------------------------------------------------
\* TYPE: the indices stay inside data[] after every wrap of write(len) and
\* read(len), and the sequences hold messages.
TypeOK ==
    /\ read \in 0..CounterMod - 1 /\ write \in 0..CounterMod - 1
    /\ read_index \in 0..Size - 1 /\ write_index \in 0..Size - 1
    /\ DOMAIN data = 0..Size - 1
    /\ msg \in Messages \cup {None}
    /\ wpc \in {"idle", "prefix", "payload", "index", "count"}
    /\ rpc \in {"idle", "check", "payload", "index", "count"}
    /\ size \in {0} \cup BufSizes /\ len \in Nat /\ ret \in Nat
    /\ chan \in Seq(Messages) /\ got \in Messages \cup {None}

\* Outside the two stores of a commit the counters and the indices describe
\* the same bytes, also when a counter has wrapped.
CountersAgree ==
    /\ TypeOK
    /\ readable <= Size
    /\ wpc # "count" /\ rpc # "count"
          => (read_index + readable) % Size = write_index

\* Messages arrive whole, once and in the order in which they were written,
\* also over a restart of either process (the shm_channel stays usable when
\* its other end dies, as the design notes say of the gate) that does not
\* fall between the two stores of a commit.
Fifo == INSTANCE ShmFifo
ImplementsFifo == Fifo!Spec
=============================================================================
