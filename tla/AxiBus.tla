-------------------------------- MODULE AxiBus ---------------------------------
(* What the AXI and the AXI-Lite bus models of lib/axi/tb share: the process
   that drives one channel, and the record of what was written and read.  One
   step of the models is one clock edge: a signal is read as it was before the
   edge.  `pause` and the five `*pause` inputs of the two ends become, at every
   edge, a set dp of channels whose driver is paused and a set rp of channels
   whose receiver is paused. *)
EXTENDS Integers, Sequences

CONSTANTS
    Bw,        \* bw: bytes in a word
    RamSize,   \* AXIRam.size: bytes of memory
    Pauses     \* the pauses of one edge: records of dp (driver) and rp (receiver)

Free == [valid |-> FALSE, item |-> <<>>]

(* The driver of a channel: it takes an item from its queue, holds it until it
   has been valid with the receiver ready at an edge, and then takes the next.
   A pause delays `valid`, it never withdraws it. *)
Drive(ch, queue, ready, paused) ==
    IF ch.item = <<>> \/ (ch.valid /\ ready)
    THEN IF queue = <<>>
         THEN [ch |-> Free, queue |-> queue]
         ELSE [ch |-> [valid |-> ~paused, item |-> <<Head(queue)>>], queue |-> Tail(queue)]
    ELSE [ch |-> [ch EXCEPT !.valid = ch.valid \/ ~paused], queue |-> queue]

\* The items that cross a channel at an edge: none or one.
Taken(ch, ready) == IF ch.valid /\ ready THEN ch.item ELSE <<>>

\* The word of memory that holds an address, and a word as it is on the bus.
WordAddr(a) == a - (a % Bw)
WordOf(mem, a) == [j \in 0..Bw - 1 |-> mem[(WordAddr(a) + j) % RamSize]]

\* A word written under its strobes, the lanes in the domain of val.
WriteWord(mem, a, val) ==
    [b \in 0..RamSize - 1 |->
        LET js == {j \in DOMAIN val : (WordAddr(a) + j) % RamSize = b}
        IN  IF js = {} THEN mem[b] ELSE val[CHOOSE j \in js : TRUE]]

--------------------------------------------------------------------------------
(* What happened: hist[a] holds the values address a was given, in the order in
   which the writes were issued; marks[i] is how long each hist was after i
   writes; done counts the responses delivered; reads are the reads returned. *)
NoHistory ==
    [hist |-> [a \in 0..RamSize - 1 |-> <<0>>], marks |-> <<[a \in 0..RamSize - 1 |-> 1]>>,
     done |-> 0, reads |-> <<>>, issued |-> 0]

\* Byte i of the n-th write: every byte is different.
Byte(n, i) == 100 * n + i + 1

RECURSIVE Append2(_, _, _, _)
Append2(hist, where, n, i) ==
    IF i = Len(where) THEN hist
    ELSE Append2([hist EXCEPT ![where[i + 1]] = Append(@, Byte(n, i))], where, n, i + 1)

LogWrite(log, where) ==
    LET h == Append2(log.hist, where, Len(log.marks), 0)
    IN  [log EXCEPT !.hist = h, !.issued = @ + 1,
                    !.marks = Append(@, [a \in DOMAIN h |-> Len(h[a])])]

LogRead(log, rd) ==
    [log EXCEPT !.reads = Append(@, [where |-> rd.where, data |-> rd.data, from |-> rd.from,
                                     upto |-> Len(log.marks)])]

(* A read returned, byte by byte, a value its address held at some time between
   the moment the read was issued and the moment it returned. *)
Fresh(log) ==
    \A i \in 1..Len(log.reads) :
        LET r == log.reads[i]
        IN  /\ Len(r.data) = Len(r.where)
            /\ \A k \in 1..Len(r.where) :
                   \E v \in log.marks[r.from][r.where[k]]..log.marks[r.upto][r.where[k]] :
                       r.data[k] = log.hist[r.where[k]][v]

\* Every write issued is in memory, the later over the earlier.
AllLanded(log, mem) == \A a \in DOMAIN mem : mem[a] = log.hist[a][Len(log.hist[a])]
================================================================================
