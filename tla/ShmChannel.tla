----------------------------- MODULE ShmChannel -----------------------------
(***************************************************************************)
(* One shared memory segment and the processes that use it: shm_attach,      *)
(* shm_init, shm_close and the attaching and initialising below them          *)
(* (mem_attach, mem_init), as connection::listen and connection::connect      *)
(* call them.  A call of one process interleaves with those of the others,    *)
(* and processes die at any point of it; a segment outlives them all.         *)
(* What happens inside the ring is in MemChannel: here a send and a receive    *)
(* are one step each.                                                       *)
(***************************************************************************)
EXTENDS Naturals

CONSTANTS
  Procs,
  Conns,      \* the connections a process may have to the segment
  Size,       \* node::conf_t::recv_buffer_size of each process, in pages
  Listeners,  \* the processes that listen, and receive; the others connect, and send
  NodeSize,   \* ATBUS_MACRO_DATA_NODE_SIZE: a build option, 128 unless it is given
  Mortal,     \* bound: the processes that may die
  MaxSends,   \* bound: messages
  MaxDeaths   \* bound: deaths

Parameters ==
  /\ Size \in [Procs -> Nat \ {0}] /\ Conns # {}
  /\ NodeSize \in Nat \ {0}

VARIABLES
  size,     \* pages of the segment, 0 while there is none
  magic,    \* node_magic is that of a memory channel
  ring,     \* the messages in the ring
  mapped,   \* the processes with an entry in shm_mapped_records
  at,       \* p -> where its call stands: [pc, conn]
  open,     \* <<p, c>>: the connections that have a channel
  valid,    \* those of them whose channel is still mapped
  sent, got, deaths,
  left,     \* history: the messages a listener left unread in the ring when it died
  hz        \* history: the windows this behaviour has hit

vars    == <<size, magic, ring, mapped, at, open, valid, sent, got, deaths, left, hz>>
segment == <<size, magic, ring>>
users   == <<open, valid>>
traffic == <<sent, got>>
faults  == <<deaths, left>>

Idle == [pc |-> "idle", conn |-> CHOOSE c \in Conns : TRUE]
Making == {p \in Procs : at[p].pc \in {"create", "wipe", "write"}}
Of(p) == {p} \X Conns

-----------------------------------------------------------------------------
\* shm_get_buffer without leave to create: a segment that is mapped already is used as
\* it is; shmget finds none, or refuses one that is too small.
Found(p) == p \in mapped \/ (size > 0 /\ Size[p] <= size)

\* The process has the segment: mapped as before, or by a shmat, which may well choose the
\* address again that connections still hold from an earlier mapping.
Map(p) ==
  /\ mapped' = mapped \cup {p}
  /\ \/ valid' = valid
     \/ p \notin mapped /\ valid' = valid \cup (open \cap Of(p))

\* connection::listen, connection::connect: shm_attach first, and shm_init when that fails.
Open(p, c) ==
  /\ at[p].pc = "idle" /\ <<p, c>> \notin open
  /\ at' = [at EXCEPT ![p] = [pc |-> IF Found(p) THEN "check" ELSE "create", conn |-> c]]
  /\ IF Found(p) THEN Map(p) ELSE UNCHANGED <<mapped, valid>>
  /\ hz' = IF size = 0 /\ Making # {} THEN hz \cup {"overlap"} ELSE hz
  /\ UNCHANGED <<segment, open, traffic, faults>>

\* The call returns a channel.
Opened(p) ==
  /\ open' = open \cup {<<p, at[p].conn>>} /\ valid' = valid \cup {<<p, at[p].conn>>}
  /\ at' = [at EXCEPT ![p] = Idle]

\* shm_close_buffer: there is one mapping for all connections of the process.
Unmap(p) == mapped' = mapped \ {p}

\* shm_attach, when mem_attach fails; the caller goes on to shm_init.
NoChannel(p) ==
  /\ Unmap(p) /\ valid' = valid \ Of(p)
  /\ at' = [at EXCEPT ![p].pc = "create"]
  /\ hz' = IF Making # {} THEN hz \cup {"overlap"} ELSE hz
  /\ UNCHANGED open

\* node_magic has no room for the NUL of a string: the comparison of mem_attach goes on to the
\* first byte of the node_size behind it, the lowest on a little-endian machine.
Terminated == NodeSize % 256 = 0

\* mem_attach compares node_magic with the name of a memory channel, as strings.
Attach(p) ==
  /\ at[p].pc = "check"
  /\ IF magic /\ Terminated THEN Opened(p) /\ UNCHANGED <<mapped, hz>> ELSE NoChannel(p)
  /\ UNCHANGED <<segment, traffic, faults>>

\* shm_init: shmget makes the segment, filled with zeros, or takes what is there.
\* It may fail, and does for a segment that is too small.
Create(p) ==
  /\ at[p].pc = "create"
  /\ \/ /\ size = 0 \/ Size[p] <= size
        /\ size' = IF size = 0 THEN Size[p] ELSE size
        /\ Map(p) /\ at' = [at EXCEPT ![p].pc = "wipe"]
     \/ at' = [at EXCEPT ![p] = Idle] /\ UNCHANGED <<size, mapped, valid>>
  /\ UNCHANGED <<magic, ring, open, traffic, faults, hz>>

\* mem_init: everything is set to zero, ...
Wipe(p) ==
  /\ at[p].pc = "wipe"
  /\ magic' = FALSE /\ ring' = {} /\ at' = [at EXCEPT ![p].pc = "write"]
  /\ UNCHANGED <<size, mapped, users, traffic, faults, hz>>

\* ... the head is filled in, the same by everybody, and at last node_magic.
WriteHead(p) ==
  /\ at[p].pc = "write"
  /\ magic' = TRUE /\ Opened(p)
  /\ UNCHANGED <<size, ring, mapped, traffic, faults, hz>>

\* connection::disconnect, which calls shm_close for the key.
Close(p, c) ==
  /\ at[p].pc = "idle" /\ <<p, c>> \in open
  /\ open' = open \ {<<p, c>>} /\ valid' = valid \ Of(p) /\ Unmap(p)
  /\ UNCHANGED <<segment, at, traffic, faults, hz>>

\* shm_send.  While mem_init is at the head the number of tries may read zero: then the loop of
\* mem_send is not entered, and it reports a success.  Through a channel that is no longer
\* mapped the process faults.
Send(p, c) ==
  /\ at[p].pc = "idle" /\ <<p, c>> \in valid /\ p \notin Listeners /\ sent < MaxSends
  /\ sent' = sent + 1
  /\ \/ ring' = ring \cup {sent'}
     \/ ~magic /\ ring' = ring
  /\ UNCHANGED <<size, magic, mapped, at, users, got, faults, hz>>

\* shm_recv.
Receive(p, c) ==
  /\ at[p].pc = "idle" /\ <<p, c>> \in valid /\ p \in Listeners
  /\ \E m \in ring : ring' = ring \ {m} /\ got' = got \cup {m}
  /\ UNCHANGED <<size, magic, mapped, at, users, sent, faults, hz>>

\* The process dies, for this or another reason, and is started again.
Die(p) ==
  /\ p \in Mortal /\ deaths < MaxDeaths /\ deaths' = deaths + 1
  /\ left' = IF p \in Listeners /\ open \cap Of(p) # {} THEN left \cup ring ELSE left
  /\ Unmap(p) /\ open' = open \ Of(p) /\ valid' = valid \ Of(p)
  /\ at' = [at EXCEPT ![p] = Idle]
  /\ UNCHANGED <<segment, traffic, hz>>

Init ==
  /\ size = 0 /\ magic = FALSE /\ ring = {} /\ mapped = {}
  /\ at = [p \in Procs |-> Idle] /\ open = {} /\ valid = {}
  /\ sent = 0 /\ got = {} /\ deaths = 0 /\ left = {} /\ hz = {}

Next ==
  \E p \in Procs :
    \/ Attach(p) \/ Create(p) \/ Wipe(p) \/ WriteHead(p) \/ Die(p)
    \/ \E c \in Conns : Open(p, c) \/ Close(p, c) \/ Send(p, c) \/ Receive(p, c)

Spec == Init /\ [][Next]_vars

-----------------------------------------------------------------------------
\* What doc/README.md says of a crashed reader: it goes on at the next start, and no data is
\* lost.  What a listener left unread when it died stays in the ring until it is received,
\* two processes that make the channel at the same time apart.
ReaderResumes == "overlap" \notin hz => left \subseteq ring \cup got

\* Who opens the channel when others use it, left it or died while making it never
\* wipes a message that was sent, and gets a ring that is whole; unless two processes
\* found none at the same time, which both then make one.
RingKept ==
  "overlap" \notin hz =>
    /\ ring \cup got = 1 .. sent
    /\ open # {} => magic
=============================================================================
