--------------------------- MODULE Upcase1Proofs ---------------------------
(***************************************************************************)
(* What the run of Upcase1 checks on a small instance, for all clients,    *)
(* lines and sizes.  Most of it follows what belongs to one client through *)
(* the system: a piece of its line is in one place at a time, as a message *)
(* in the public FIFO, with the server, in the private FIFO of the client, *)
(* or in what the client has printed.                                      *)
(***************************************************************************)
EXTENDS Upcase1, SequenceTheorems, TLAPS

\* The pieces that clients send.
Pieces == [client : Clients,
           text : {Chunk(len, n) : len \in 1 .. MaxLine,
                                   n \in 0 .. MaxLine - 1}]

\* The variables of the server and of the clients.
Types ==
    /\ public \in {0, generation}
    /\ generation \in Nat
    /\ starts \in 0 .. MaxStarts
    /\ queue \in Seq(Pieces)
    /\ Len(queue) <= PublicCapacity
    /\ msg \in Pieces \union {NoMessage}
    /\ tries \in 0 .. MaxTries
    /\ server \in {"down", "mkfifo", "open", "read", "try", "write", "close"}
    /\ pc \in [Clients -> {"mkfifo", "connect", "prompt", "fgets", "send",
                           "openPrivate", "opening", "reading", "gone"}]
    /\ line \in [Clients -> 0 .. MaxLine]
    /\ n_chunk \in [Clients -> Nat]
    /\ public_fd \in [Clients -> 0 .. generation]
    /\ private \in [Clients -> Seq(Nat)]
    /\ out \in [Clients -> Seq(Nat)]
    /\ restart \in [Clients -> BOOLEAN]

\* A server that reads has the FIFO open for writing as well, the name is that
\* of its FIFO, and each start makes one FIFO at most.
ServerControl ==
    /\ server \in {"read", "try", "write", "close"} => dummy
    /\ server \notin {"down", "mkfifo"} => public = generation /\ public # 0
    /\ server \in {"try", "write"} => tries < MaxTries
    /\ server \in {"try", "write", "close"} => msg.client \in Clients
    /\ generation <= starts
    /\ server = "mkfifo" => generation < starts
    /\ starts = 0 => server = "down"

\* A client that waits for a reply is not at the end of its line, and no
\* client gets anywhere before a server has started.
ClientControl ==
    \A c \in Clients :
        /\ pc[c] \in {"send", "openPrivate", "opening", "reading"}
              => n_chunk[c] < line[c]
        /\ n_chunk[c] % HalfPipeBuf = 0
        /\ starts = 0 => /\ pc[c] \in {"mkfifo", "connect", "gone"}
                         /\ n_chunk[c] = 0 /\ out[c] = <<>>
        /\ pc[c] \in {"mkfifo", "connect"} => n_chunk[c] = 0 /\ out[c] = <<>>

\* The piece of the line that c is at.
Piece(c) == Chunk(line[c], n_chunk[c])

\* One message of an undisturbed client is in the public FIFO or in the hands
\* of the server at most, and only while the client waits for the reply.
Outstanding(c) ==
    /\ \A j \in 1 .. Len(queue) :
          queue[j].client = c =>
              /\ pc[c] \in {"openPrivate", "opening"}
              /\ queue[j].text = Piece(c)
              /\ ~(server = "try" /\ msg.client = c)
    /\ \A j, l \in 1 .. Len(queue) :
          queue[j].client = c /\ queue[l].client = c => j = l
    /\ server = "try" /\ msg.client = c =>
          pc[c] \in {"openPrivate", "opening"} /\ msg.text = Piece(c)

\* What the private FIFO of an undisturbed client holds is the piece it waits
\* for, and the client stays until the server has closed it.
InPrivate(c) ==
    /\ ServerWritesTo(c) => pc[c] = "reading"
    /\ server = "write" /\ msg.client = c =>
          msg.text = Piece(c) /\ private[c] = <<>>
    /\ private[c] # <<>> => pc[c] = "reading" /\ private[c] = Piece(c)

\* The client may have printed the piece it waits for.
Ahead(c) ==
    /\ pc[c] = "reading" /\ private[c] = <<>>
    /\ ~(server = "write" /\ msg.client = c)

Due(c) == IF Ahead(c) THEN Expected(c) \union ToSet(Piece(c)) ELSE Expected(c)

\* The server has been there all the time.
Undisturbed == starts = 1 /\ server # "down"
\* What c has printed is due, is in order, and is all of it if the server was
\* never stopped.
Printed(c) ==
    /\ ToSet(out[c]) \subseteq Due(c)
    /\ \A j \in 1 .. Len(out[c]) - 1 : out[c][j] < out[c][j + 1]
    /\ Undisturbed => ToSet(out[c]) = Due(c)

\* What an undisturbed client can rely on.
Replies(c) == Outstanding(c) /\ InPrivate(c) /\ Printed(c)

\* The invariant.
IInv ==
    /\ Types
    /\ ServerControl
    /\ ClientControl
    /\ \A c \in Clients : restart[c] => Replies(c)

-----------------------------------------------------------------------------
(* Pieces of a line *)

\* A piece that begins within the line is the characters from there on.
LEMMA ChunkFacts ==
    ASSUME NEW len \in Nat, NEW n \in Nat, n < len
    PROVE  /\ Chunk(len, n) \in Seq(Nat)
           /\ Chunk(len, n) # <<>>
           /\ \A j \in 1 .. Len(Chunk(len, n)) : Chunk(len, n)[j] = n + j
  <1> DEFINE end == IF n + HalfPipeBuf - 1 < len THEN n + HalfPipeBuf - 1
                                                 ELSE len
             m == end - n
             s == [j \in 1 .. m |-> n + j]
  <1>1. m \in Nat /\ m > 0 /\ m < HalfPipeBuf BY SizesAssumption
  <1>2. Chunk(len, n) = s BY DEF Chunk
  <1> HIDE DEF m
  <1>3. s \in Seq(Nat) /\ Len(s) = m BY <1>1
  <1>4. s # <<>> BY <1>1, <1>3
  <1> QED BY <1>2, <1>3, <1>4

\* What a message carries is text.
LEMMA PieceText ==
    ASSUME NEW m \in Pieces
    PROVE  m.text \in Seq(Nat)
  <1>1. PICK len \in 1 .. MaxLine, n \in 0 .. MaxLine - 1 :
            m.text = Chunk(len, n)
    BY DEF Pieces
  <1>2. len \in Nat /\ n \in Nat /\ len - n \in Int BY SizesAssumption
  <1>3. CASE n < len BY <1>1, <1>2, <1>3, ChunkFacts
  <1>4. CASE n >= len
    <2>1. Chunk(len, n) = [j \in 1 .. len - n |-> n + j]
      BY <1>2, <1>4, SizesAssumption DEF Chunk
    <2>2. 1 .. len - n = {} BY <1>2, <1>4
    <2>3. Chunk(len, n) \in [1 .. 0 -> Nat] BY <2>1, <2>2
    <2> QED BY <1>1, <2>3
  <1> QED BY <1>2, <1>3, <1>4

\* A piece is shorter than HALF_PIPE_BUF.
LEMMA ChunkRange ==
    ASSUME NEW len \in Nat, NEW n \in Nat
    PROVE  \A k \in ToSet(Chunk(len, n)) :
               k \in Nat /\ n < k /\ k < n + HalfPipeBuf
  <1> DEFINE end == IF n + HalfPipeBuf - 1 < len THEN n + HalfPipeBuf - 1
                                                 ELSE len
             m == end - n
             s == [j \in 1 .. m |-> n + j]
  <1>1. m \in Int /\ m < HalfPipeBuf BY SizesAssumption
  <1>2. Chunk(len, n) = s BY DEF Chunk
  <1> HIDE DEF m
  <1>3. DOMAIN s = 1 .. m /\ \A j \in 1 .. m : s[j] = n + j OBVIOUS
  <1> HIDE DEF s
  <1>4. ASSUME NEW k \in ToSet(s)
        PROVE  k \in Nat /\ n < k /\ k < n + HalfPipeBuf
    <2>1. PICK j \in 1 .. m : k = n + j BY <1>3 DEF ToSet
    <2> QED BY <1>1, <2>1, SizesAssumption
  <1> QED BY <1>2, <1>4

\* The elements of a sequence.
LEMMA ToSetElements ==
    ASSUME NEW s \in Seq(Nat)
    PROVE  ToSet(s) = {s[i] : i \in 1 .. Len(s)}
  <1>1. DOMAIN s = 1 .. Len(s) OBVIOUS
  <1> QED BY <1>1 DEF ToSet

\* What is in one sequence or in another is in both together.
LEMMA ToSetConcatenated ==
    ASSUME NEW s \in Seq(Nat), NEW p \in Seq(Nat)
    PROVE  ToSet(s \o p) = ToSet(s) \union ToSet(p)
  <1>1. /\ Len(s) \in Nat /\ Len(p) \in Nat
        /\ s \o p \in Seq(Nat) /\ Len(s \o p) = Len(s) + Len(p)
        /\ \A j \in 1 .. Len(s) + Len(p) :
              (s \o p)[j] = IF j <= Len(s) THEN s[j] ELSE p[j - Len(s)]
    OBVIOUS
  <1>2. /\ ToSet(s) = {s[i] : i \in 1 .. Len(s)}
        /\ ToSet(p) = {p[i] : i \in 1 .. Len(p)}
        /\ ToSet(s \o p) = {(s \o p)[i] : i \in 1 .. Len(s) + Len(p)}
    BY <1>1, ToSetElements
  <1>3. ASSUME NEW j \in 1 .. Len(s) + Len(p)
        PROVE  (s \o p)[j] \in ToSet(s) \union ToSet(p)
    <2>1. CASE j <= Len(s) BY <1>1, <1>2, <2>1
    <2>2. CASE j > Len(s)
      <3>1. j - Len(s) \in 1 .. Len(p) BY <1>1, <2>2
      <3> QED BY <1>1, <1>2, <2>2, <3>1
    <2> QED BY <1>1, <2>1, <2>2
  <1>4. ASSUME NEW j \in 1 .. Len(s) PROVE s[j] \in ToSet(s \o p)
    BY <1>1, <1>2
  <1>5. ASSUME NEW j \in 1 .. Len(p) PROVE p[j] \in ToSet(s \o p)
    <2>1. PICK i \in 1 .. Len(s) + Len(p) : i = Len(s) + j BY <1>1
    <2>2. (s \o p)[i] = p[j] BY <1>1, <2>1
    <2>3. (s \o p)[i] \in ToSet(s \o p) BY <1>2
    <2> QED BY <2>2, <2>3
  <1> QED BY <1>2, <1>3, <1>4, <1>5

\* Two multiples of HALF_PIPE_BUF are as far apart at least.
LEMMA Multiples ==
    ASSUME NEW a \in Nat, NEW b \in Nat,
           a % HalfPipeBuf = 0, b % HalfPipeBuf = 0, a < b
    PROVE  a + HalfPipeBuf <= b
  <1> DEFINE h == HalfPipeBuf
             p == a \div h
             q == b \div h
  <1>1. h \in Nat /\ h > 0 BY SizesAssumption
  <1> HIDE DEF h
  <1>2. p \in Int /\ q \in Int BY <1>1
  <1>3. a = h * p BY <1>1 DEF h
  <1>4. b = h * q BY <1>1 DEF h
  <1> HIDE DEF p, q
  <1>5. p < q
    <2> SUFFICES ASSUME q <= p PROVE FALSE BY <1>2
    <2>1. h * (p - q) >= 0 BY <1>1, <1>2
    <2> QED BY <1>1, <1>2, <1>3, <1>4, <2>1
  <1>6. h * (q - p - 1) >= 0 BY <1>1, <1>2, <1>5
  <1>7. h * (q - p - 1) = b - a - h BY <1>1, <1>2, <1>3, <1>4
  <1> QED BY <1>1, <1>6, <1>7 DEF h

\* HALF_PIPE_BUF on, the next piece begins.
LEMMA NextMultiple ==
    ASSUME NEW a \in Nat, a % HalfPipeBuf = 0
    PROVE  (a + HalfPipeBuf) % HalfPipeBuf = 0
  <1> DEFINE h == HalfPipeBuf
             b == a + h
             p == a \div h
             q == b \div h
             r == b % h
  <1>1. h \in Nat /\ h > 0 BY SizesAssumption
  <1> HIDE DEF h
  <1>2. b \in Nat /\ p \in Int /\ q \in Int /\ r \in Int BY <1>1
  <1>3. a = h * p BY <1>1 DEF h
  <1>4. b = h * q + r /\ 0 <= r /\ r < h BY <1>1
  <1>5. b = a + h OBVIOUS
  <1> HIDE DEF p, q, r, b
  <1>6. r = h * (p + 1 - q) BY <1>1, <1>2, <1>3, <1>4, <1>5
  <1>7. p + 1 - q < 1
    <2> SUFFICES ASSUME p + 1 - q >= 1 PROVE FALSE BY <1>2
    <2>1. h * (p + 1 - q) >= h BY <1>1, <1>2
    <2> QED BY <1>1, <1>2, <1>4, <1>6, <2>1
  <1>8. p + 1 - q > -1
    <2> SUFFICES ASSUME p + 1 - q <= -1 PROVE FALSE BY <1>2
    <2>1. h * (p + 1 - q) <= -h BY <1>1, <1>2
    <2> QED BY <1>1, <1>2, <1>4, <1>6, <2>1
  <1>9. p + 1 - q = 0 BY <1>2, <1>7, <1>8
  <1>10. r = 0 BY <1>1, <1>6, <1>9
  <1> QED BY <1>10 DEF r, b, h

\* The piece in turn of a client that works on one.
LEMMA PieceFacts ==
    ASSUME Types, ClientControl, NEW c \in Clients,
           pc[c] \in {"send", "openPrivate", "opening", "reading"}
    PROVE  /\ Piece(c) \in Seq(Nat)
           /\ Piece(c) # <<>>
           /\ \A j \in 1 .. Len(Piece(c)) : Piece(c)[j] = n_chunk[c] + j
           /\ line[c] \in 1 .. MaxLine /\ n_chunk[c] \in 0 .. MaxLine - 1
  <1>1. /\ n_chunk[c] \in Nat /\ line[c] \in 0 .. MaxLine
        /\ n_chunk[c] < line[c]
    BY DEF Types, ClientControl
  <1>2. line[c] \in Nat BY <1>1, SizesAssumption
  <1>3. Piece(c) = Chunk(line[c], n_chunk[c]) BY DEF Piece
  <1>4. line[c] \in 1 .. MaxLine /\ n_chunk[c] \in 0 .. MaxLine - 1
    BY <1>1, SizesAssumption
  <1>5. /\ Chunk(line[c], n_chunk[c]) \in Seq(Nat)
        /\ Chunk(line[c], n_chunk[c]) # <<>>
        /\ \A j \in 1 .. Len(Chunk(line[c], n_chunk[c])) :
              Chunk(line[c], n_chunk[c])[j] = n_chunk[c] + j
    BY <1>1, <1>2, ChunkFacts
  <1> QED BY <1>3, <1>4, <1>5

\* What is due so far lies below the piece in turn.
LEMMA ExpectedRange ==
    ASSUME Types, ClientControl, NEW c \in Clients
    PROVE  \A k \in Expected(c) : k \in Nat /\ k <= n_chunk[c]
  <1> SUFFICES ASSUME NEW k \in Expected(c)
               PROVE  k \in Nat /\ k <= n_chunk[c]
    OBVIOUS
  <1>1. PICK n \in Sent(c) : k \in ToSet(Chunk(line[c], n))
    BY DEF Expected
  <1>2. /\ n \in Nat /\ n < n_chunk[c] /\ n % HalfPipeBuf = 0
        /\ n_chunk[c] \in Nat /\ line[c] \in Nat
    BY SizesAssumption DEF Sent, Types
  <1>3. n + HalfPipeBuf <= n_chunk[c]
    BY <1>2, Multiples DEF ClientControl
  <1>4. k \in Nat /\ k < n + HalfPipeBuf BY <1>1, <1>2, ChunkRange
  <1> QED BY <1>2, <1>3, <1>4, SizesAssumption

\* With the next piece in turn, the piece is due.
LEMMA ExpectedNext ==
    ASSUME Types, ClientControl, NEW c \in Clients,
           n_chunk'[c] = n_chunk[c] + HalfPipeBuf, line'[c] = line[c]
    PROVE  Expected(c)' = Expected(c) \union ToSet(Piece(c))
  <1> DEFINE n == n_chunk[c]
  <1>1. n \in Nat /\ n % HalfPipeBuf = 0 BY DEF Types, ClientControl
  <1>2. Sent(c)' = Sent(c) \union {n}
    <2>1. Sent(c)' = {m \in 0 .. n + HalfPipeBuf - 1 : m % HalfPipeBuf = 0}
      <3>1. Sent(c)' = {m \in 0 .. n_chunk'[c] - 1 : m % HalfPipeBuf = 0}
        BY DEF Sent
      <3>2. n_chunk'[c] - 1 = n + HalfPipeBuf - 1 BY <1>1, SizesAssumption
      <3> QED BY <3>1, <3>2
    <2>2. Sent(c) = {m \in 0 .. n - 1 : m % HalfPipeBuf = 0}
      BY DEF Sent
    <2> HIDE DEF n
    <2>3. ASSUME NEW m \in 0 .. n + HalfPipeBuf - 1, m % HalfPipeBuf = 0
          PROVE  m \in 0 .. n - 1 \/ m = n
      <3>1. CASE m > n
        <4>1. n + HalfPipeBuf <= m BY <1>1, <2>3, <3>1, Multiples
        <4> QED BY <1>1, <4>1, SizesAssumption
      <3>2. CASE m <= n BY <1>1, <3>2
      <3> QED BY <1>1, <3>1, <3>2, SizesAssumption
    <2>4. \A m \in 0 .. n - 1 : m \in 0 .. n + HalfPipeBuf - 1
      BY <1>1, SizesAssumption
    <2>5. n \in 0 .. n + HalfPipeBuf - 1
      BY <1>1, SizesAssumption
    <2> QED BY <1>1, <2>1, <2>2, <2>3, <2>4, <2>5
  <1>3. Piece(c) = Chunk(line[c], n) BY DEF Piece
  <1>4. Expected(c)' = UNION {ToSet(Chunk(line[c], m)) : m \in Sent(c)'}
    BY DEF Expected, Chunk
  <1>5. Expected(c) = UNION {ToSet(Chunk(line[c], m)) : m \in Sent(c)}
    BY DEF Expected
  <1> HIDE DEF n
  <1> QED BY <1>2, <1>3, <1>4, <1>5

-----------------------------------------------------------------------------
(* What leaves the parts of the invariant alone *)

USE DEF fifos, serverVars, clientVars, Goto

\* A step by which a client prints nothing and gets no further keeps what it
\* has printed.
LEMMA PrintedFrame ==
    ASSUME NEW c \in Clients, Printed(c),
           line'[c] = line[c], n_chunk'[c] = n_chunk[c], out'[c] = out[c],
           Ahead(c)' <=> Ahead(c),
           Undisturbed' => Undisturbed
    PROVE  Printed(c)'
  <1>1. Piece(c)' = Piece(c) BY DEF Piece, Chunk
  <1>2. Expected(c)' = Expected(c) BY DEF Expected, Sent, Chunk
  <1>3. Due(c)' = Due(c) BY <1>1, <1>2 DEF Due
  <1> QED BY <1>3 DEF Printed

\* A step that leaves one client and the server alone, apart from a message of
\* another client.
LEMMA OthersFrame ==
    ASSUME Types, NEW c \in Clients, Replies(c),
           pc'[c] = pc[c], line'[c] = line[c], n_chunk'[c] = n_chunk[c],
           out'[c] = out[c], private'[c] = private[c],
           server' = server, msg' = msg, starts' = starts,
           \/ queue' = queue
           \/ \E m \in Pieces : m.client # c /\ queue' = Append(queue, m)
    PROVE  Replies(c)'
  <1>1. Piece(c)' = Piece(c) BY DEF Piece, Chunk
  <1>2. ASSUME NEW j \in 1 .. Len(queue'), queue'[j].client = c
        PROVE  j \in 1 .. Len(queue) /\ queue'[j] = queue[j]
    <2>1. CASE queue' = queue BY <2>1
    <2>2. ASSUME NEW m \in Pieces, m.client # c, queue' = Append(queue, m)
          PROVE  j \in 1 .. Len(queue) /\ queue'[j] = queue[j]
      <3>1. /\ queue \in Seq(Pieces) /\ Len(queue') = Len(queue) + 1
            /\ queue'[Len(queue) + 1] = m
            /\ \A l \in 1 .. Len(queue) : queue'[l] = queue[l]
        BY <2>2 DEF Types
      <3> QED BY <1>2, <2>2, <3>1
    <2> QED BY <2>1, <2>2
  <1>3. Outstanding(c)' BY <1>1, <1>2 DEF Replies, Outstanding
  <1>4. InPrivate(c)' BY <1>1 DEF Replies, InPrivate, ServerWritesTo
  <1>5. Printed(c)'
    BY PrintedFrame DEF Replies, Ahead, Undisturbed
  <1> QED BY <1>3, <1>4, <1>5 DEF Replies

\* A step of the server from where it has no message in hand to where it has
\* none, or not.
LEMMA IdleFrame ==
    ASSUME Types, NEW c \in Clients, Replies(c),
           pc' = pc, line' = line, n_chunk' = n_chunk, out' = out,
           private'[c] = private[c],
           server \notin {"write", "close"},
           server' \notin {"try", "write", "close"},
           Undisturbed' => Undisturbed,
           queue' = queue \/ queue' = <<>>
    PROVE  Replies(c)'
  <1>1. Piece(c)' = Piece(c) BY DEF Piece, Chunk
  <1>2. \A j \in 1 .. Len(queue') :
            j \in 1 .. Len(queue) /\ queue'[j] = queue[j]
    BY DEF Types
  <1>3. Outstanding(c)' BY <1>1, <1>2 DEF Replies, Outstanding
  <1>4. InPrivate(c)' BY <1>1 DEF Replies, InPrivate, ServerWritesTo
  <1>5. Ahead(c)' <=> Ahead(c) BY DEF Ahead
  <1>6. Printed(c)' BY <1>5, PrintedFrame DEF Replies
  <1> QED BY <1>3, <1>4, <1>6 DEF Replies

\* Control does not depend on more than this.
LEMMA ClientsFrame ==
    ASSUME ClientControl, line' = line, n_chunk' = n_chunk, out' = out,
           starts' = starts,
           \A c \in Clients :
              /\ pc'[c] \in {"send", "openPrivate", "opening", "reading"}
                    => pc[c] \in {"send", "openPrivate", "opening", "reading"}
              /\ pc'[c] \in {"mkfifo", "connect"}
                    => pc[c] \in {"mkfifo", "connect"}
              /\ starts = 0 /\ pc[c] \in {"mkfifo", "connect", "gone"}
                    => pc'[c] \in {"mkfifo", "connect", "gone"}
    PROVE  ClientControl'
  BY DEF ClientControl

-----------------------------------------------------------------------------
(* The steps of the server *)

\* A server that starts for a second time has been stopped.
LEMMA StartServerStep ==
    ASSUME IInv, StartServer
    PROVE  IInv'
  <1> USE SizesAssumption DEF IInv, StartServer
  <1>1. Types' BY DEF Types
  <1>2. ServerControl' BY DEF ServerControl, Types
  <1>3. ClientControl' BY DEF ClientControl, Types
  <1>4. ASSUME NEW c \in Clients, restart[c] PROVE Replies(c)'
    <2>1. CASE starts # 0
      <3>1. ~Undisturbed' BY <2>1 DEF Undisturbed, Types
      <3> QED BY <1>4, <3>1, IdleFrame
    <2>2. CASE starts = 0
      <3>1. /\ out[c] = <<>> /\ n_chunk[c] = 0
            /\ pc[c] \in {"mkfifo", "connect", "gone"}
        BY <2>2 DEF ClientControl
      <3>p. Piece(c)' = Piece(c) BY DEF Piece, Chunk
      <3>o. Outstanding(c)' BY <1>4, <3>p DEF Replies, Outstanding
      <3>i. InPrivate(c)'
        BY <1>4, <3>p DEF Replies, InPrivate, ServerWritesTo
      <3>3. Expected(c)' = {} BY <3>1 DEF Expected, Sent
      <3>4. ~Ahead(c)' BY <3>1 DEF Ahead
      <3>5. ToSet(out[c]) = {} /\ Len(out[c]) = 0 BY <3>1 DEF ToSet
      <3>6. Printed(c)'
        BY <3>3, <3>4, <3>5 DEF Printed, Due, ToSet
      <3> QED BY <3>o, <3>i, <3>6 DEF Replies
    <2> QED BY <2>1, <2>2
  <1> QED BY <1>1, <1>2, <1>3, <1>4

\* The FIFO that a server makes is empty.
LEMMA MakePublicStep ==
    ASSUME IInv, MakePublic
    PROVE  IInv'
  <1> USE SizesAssumption DEF IInv, MakePublic
  <1>1. Types'
    <2>1. CASE public = 0
      <3>1. <<>> \in Seq(Pieces) /\ Len(<<>>) = 0 OBVIOUS
      <3>2. public_fd \in [Clients -> 0 .. generation'] BY <2>1 DEF Types
      <3> QED BY <2>1, <3>1, <3>2 DEF Types
    <2>2. CASE public # 0 BY <2>2 DEF Types
    <2> QED BY <2>1, <2>2
  <1>2. ServerControl' BY DEF ServerControl, Types
  <1>3. ClientControl' BY ClientsFrame
  <1>4. ASSUME NEW c \in Clients, restart[c] PROVE Replies(c)'
    <2>1. Undisturbed' => Undisturbed BY DEF Undisturbed
    <2> QED BY <1>4, <2>1, IdleFrame
  <1> QED BY <1>1, <1>2, <1>3, <1>4

\* The server opens the write end as well.
LEMMA OpenPublicStep ==
    ASSUME IInv, OpenPublic
    PROVE  IInv'
  <1> USE SizesAssumption DEF IInv, OpenPublic
  <1>1. Types' BY DEF Types
  <1>2. ServerControl' BY DEF ServerControl, Types
  <1>3. ClientControl' BY ClientsFrame
  <1>4. ASSUME NEW c \in Clients, restart[c] PROVE Replies(c)'
    <2>1. Undisturbed' => Undisturbed BY DEF Undisturbed
    <2> QED BY <1>4, <2>1, IdleFrame
  <1> QED BY <1>1, <1>2, <1>3, <1>4

\* Taking the message of a client from the FIFO leaves none of its there.
LEMMA ReadMessageStep ==
    ASSUME IInv, ReadMessage
    PROVE  IInv'
  <1> USE SizesAssumption DEF IInv, ReadMessage
  <1>1. /\ queue # <<>> /\ queue \in Seq(Pieces)
        /\ msg' = Head(queue) /\ queue' = Tail(queue)
        /\ server = "read" /\ server' = "try" /\ tries' = 0
        /\ UNCHANGED <<public, generation, opened, private_name, private,
                       dummy, starts, abandoned, pc, public_fd, line, n_chunk,
                       out, sig_received, restart>>
    BY DEF ServerControl, Types
  <1>2. /\ Head(queue) \in Pieces /\ Tail(queue) \in Seq(Pieces)
        /\ Head(queue) = queue[1] /\ Len(Tail(queue)) = Len(queue) - 1
        /\ \A j \in 1 .. Len(Tail(queue)) :
              /\ Tail(queue)[j] = queue[j + 1]
              /\ j + 1 \in 1 .. Len(queue) /\ j + 1 # 1
        /\ 1 \in 1 .. Len(queue) /\ Len(queue) \in Nat
    BY <1>1
  <1>3. Head(queue).client \in Clients BY <1>2 DEF Pieces
  <1> HIDE DEF ReadMessage
  <1>4. Types' BY <1>1, <1>2 DEF Types
  <1>5. ServerControl' BY <1>1, <1>3 DEF ServerControl, Types
  <1>6. ClientControl' BY <1>1, ClientsFrame
  <1>7. ASSUME NEW c \in Clients, restart[c] PROVE Replies(c)'
    <2>1. Piece(c)' = Piece(c) BY <1>1 DEF Piece, Chunk
    <2>2. Outstanding(c) BY <1>7 DEF Replies
    <2>3. Outstanding(c)'
      <3>1. ASSUME NEW j \in 1 .. Len(queue'), queue'[j].client = c
            PROVE  /\ pc[c] \in {"openPrivate", "opening"}
                   /\ queue'[j].text = Piece(c)
                   /\ queue[1].client # c
        BY <1>1, <1>2, <2>2, <3>1 DEF Outstanding
      <3>2. ASSUME NEW j \in 1 .. Len(queue'), NEW l \in 1 .. Len(queue'),
                   queue'[j].client = c, queue'[l].client = c
            PROVE  j = l
        <4>1. /\ queue[j + 1].client = c /\ queue[l + 1].client = c
              /\ j + 1 \in 1 .. Len(queue) /\ l + 1 \in 1 .. Len(queue)
          BY <1>1, <1>2, <3>2
        <4>2. j + 1 = l + 1 BY <2>2, <4>1 DEF Outstanding
        <4> QED BY <4>2
      <3>3. msg'.client = c
               => pc[c] \in {"openPrivate", "opening"} /\ msg'.text = Piece(c)
        BY <1>1, <1>2, <2>2 DEF Outstanding
      <3> QED BY <1>1, <1>2, <2>1, <3>1, <3>2, <3>3 DEF Outstanding
    <2>4. InPrivate(c)'
      BY <1>1, <1>7, <2>1 DEF Replies, InPrivate, ServerWritesTo
    <2>5. Printed(c)'
      BY <1>1, <1>7, PrintedFrame DEF Replies, Ahead, Undisturbed
    <2> QED BY <2>3, <2>4, <2>5 DEF Replies
  <1> QED BY <1>1, <1>4, <1>5, <1>6, <1>7

\* The server finds an undisturbed client waiting, if it finds it at all.
LEMMA OpenPrivateStep ==
    ASSUME IInv, OpenPrivate
    PROVE  IInv'
  <1> USE SizesAssumption DEF IInv
  <1> DEFINE d == msg.client
  <1>1. /\ server = "try" /\ d \in Clients
        /\ UNCHANGED <<public, generation, queue, opened, private_name,
                       private, dummy, msg, starts, public_fd, line, n_chunk,
                       out, sig_received, restart>>
    BY DEF OpenPrivate, ServerControl
  <1>2. CASE d \in private_name /\ ClientReads(d)
    <2>1. /\ server' = "write" /\ pc' = [pc EXCEPT ![d] = "reading"]
          /\ UNCHANGED <<tries, abandoned>> /\ pc[d] \in {"opening", "reading"}
      BY <1>2 DEF OpenPrivate, ClientReads
    <2> HIDE DEF d
    <2>2. Types' BY <1>1, <2>1 DEF Types
    <2>3. ServerControl' BY <1>1, <2>1 DEF ServerControl
    <2>4. ClientControl' BY <1>1, <2>1, ClientsFrame DEF Types
    <2>5. ASSUME NEW c \in Clients, restart[c] PROVE Replies(c)'
      <3>1. Piece(c)' = Piece(c) BY <1>1 DEF Piece, Chunk
      <3>2. CASE c = d
        <4>1. pc[c] = "opening" /\ msg.text = Piece(c) /\ msg.client = c
          BY <1>1, <2>1, <2>5, <3>2 DEF Replies, Outstanding, d
        <4>2. Outstanding(c)'
          BY <1>1, <2>1, <2>5, <3>1, <3>2, <4>1 DEF Replies, Outstanding, Types
        <4>3. private[c] = <<>> BY <2>5, <4>1 DEF Replies, InPrivate
        <4>4. InPrivate(c)'
          BY <1>1, <2>1, <3>1, <3>2, <4>1, <4>3
             DEF InPrivate, ServerWritesTo, Types
        <4>5. ~Ahead(c)' /\ ~Ahead(c)
          BY <1>1, <2>1, <4>1 DEF Ahead
        <4>6. Printed(c)'
          BY <1>1, <2>1, <2>5, <4>5, PrintedFrame DEF Replies, Undisturbed
        <4> QED BY <4>2, <4>4, <4>6 DEF Replies
      <3>3. CASE c # d
        <4>1. pc'[c] = pc[c] BY <2>1, <3>3 DEF Types
        <4>2. Outstanding(c)'
          BY <1>1, <2>1, <2>5, <3>1, <3>3, <4>1
             DEF Replies, Outstanding, Types, d
        <4>3. InPrivate(c)'
          BY <1>1, <2>1, <2>5, <3>1, <3>3, <4>1
             DEF Replies, InPrivate, ServerWritesTo, d
        <4>4. Ahead(c)' <=> Ahead(c)
          BY <1>1, <2>1, <3>3, <4>1 DEF Ahead, d
        <4>5. Printed(c)'
          BY <1>1, <2>1, <2>5, <4>4, PrintedFrame DEF Replies, Undisturbed
        <4> QED BY <4>2, <4>3, <4>5 DEF Replies
      <3> QED BY <3>2, <3>3
    <2> QED BY <1>1, <2>2, <2>3, <2>4, <2>5
  <1>3. CASE ~(d \in private_name /\ ClientReads(d))
    <2>1. /\ tries' = tries + 1 /\ pc' = pc
          /\ server' = IF tries + 1 < MaxTries THEN "try" ELSE "read"
          /\ abandoned' = IF tries' < MaxTries THEN abandoned
                          ELSE abandoned \union {d}
      BY <1>3 DEF OpenPrivate
    <2> HIDE DEF d
    <2>2. Types'
      <3>1. server' \in {"try", "read"} BY <2>1
      <3>2. tries' \in 0 .. MaxTries
        BY <1>1, <2>1 DEF Types, ServerControl
      <3> QED BY <1>1, <2>1, <3>1, <3>2 DEF Types
    <2>3. ServerControl' BY <1>1, <2>1 DEF ServerControl, Types
    <2>4. ClientControl' BY <1>1, <2>1, ClientsFrame
    <2>5. ASSUME NEW c \in Clients, restart[c] PROVE Replies(c)'
      <3>1. CASE server' = "read"
        BY <1>1, <2>1, <2>5, <3>1, IdleFrame DEF Undisturbed
      <3>2. CASE server' = "try"
        BY <1>1, <2>1, <2>5, <3>2, OthersFrame
      <3> QED BY <2>1, <3>1, <3>2
    <2> QED BY <1>1, <2>2, <2>3, <2>4, <2>5
  <1> QED BY <1>2, <1>3

\* The piece goes from the hands of the server into the private FIFO, which is
\* empty.
LEMMA WritePrivateStep ==
    ASSUME IInv, WritePrivate
    PROVE  IInv'
  <1> USE SizesAssumption DEF IInv
  <1> DEFINE d == msg.client
  <1>1. /\ server = "write" /\ server' = "close" /\ d \in Clients
        /\ private' = IF ClientReads(d)
                      THEN [private EXCEPT ![d] = private[d] \o msg.text]
                      ELSE private
        /\ UNCHANGED <<public, generation, queue, opened, private_name, dummy,
                       msg, tries, starts, abandoned, pc, public_fd, line,
                       n_chunk, out, sig_received, restart>>
    BY DEF WritePrivate, ServerControl
  <1>2. msg.text \in Seq(Nat)
    <2>1. msg \in Pieces BY <1>1 DEF Types, NoMessage
    <2> QED BY <2>1, PieceText
  <1> HIDE DEF d
  <1>3. Types' BY <1>1, <1>2 DEF Types
  <1>4. ServerControl' BY <1>1 DEF ServerControl, d
  <1>5. ClientControl' BY <1>1, ClientsFrame
  <1>6. ASSUME NEW c \in Clients, restart[c] PROVE Replies(c)'
    <2>1. Piece(c)' = Piece(c) BY <1>1 DEF Piece, Chunk
    <2>2. Outstanding(c)' BY <1>1, <1>6, <2>1 DEF Replies, Outstanding
    <2>3. CASE c = d
      <3>1. /\ pc[c] = "reading" /\ private[c] = <<>> /\ msg.text = Piece(c)
            /\ msg.client = c
        BY <1>1, <1>6, <2>3 DEF Replies, InPrivate, ServerWritesTo, d
      <3>p. Piece(c) \in Seq(Nat) /\ Piece(c) # <<>>
        BY <3>1, PieceFacts
      <3>2. private'[c] = Piece(c)
        BY <1>1, <2>3, <3>1, <3>p DEF ClientReads, Types
      <3>3. InPrivate(c)'
        BY <1>1, <2>1, <3>1, <3>2 DEF InPrivate, ServerWritesTo
      <3>5. ~Ahead(c)' /\ ~Ahead(c)
        BY <1>1, <3>1, <3>2, <3>p DEF Ahead
      <3>6. Printed(c)'
        BY <1>1, <1>6, <3>5, PrintedFrame DEF Replies, Undisturbed
      <3> QED BY <2>2, <3>3, <3>6 DEF Replies
    <2>4. CASE c # d
      <3>1. private'[c] = private[c] BY <1>1, <2>4 DEF Types
      <3>2. InPrivate(c)'
        BY <1>1, <1>6, <2>1, <2>4, <3>1
           DEF Replies, InPrivate, ServerWritesTo, d
      <3>3. Ahead(c)' <=> Ahead(c)
        BY <1>1, <2>4, <3>1 DEF Ahead, d
      <3>4. Printed(c)'
        BY <1>1, <1>6, <3>3, PrintedFrame DEF Replies, Undisturbed
      <3> QED BY <2>2, <3>2, <3>4 DEF Replies
    <2> QED BY <2>3, <2>4
  <1> QED BY <1>1, <1>3, <1>4, <1>5, <1>6

\* The client still has its private FIFO open, and with it what is in there.
LEMMA ClosePrivateStep ==
    ASSUME IInv, ClosePrivate
    PROVE  IInv'
  <1> USE SizesAssumption DEF IInv
  <1> DEFINE d == msg.client
  <1>1. /\ server = "close" /\ server' = "read" /\ d \in Clients
        /\ private' = [private EXCEPT ![d] = AfterServer(d)]
        /\ UNCHANGED <<public, generation, queue, opened, private_name, dummy,
                       msg, tries, starts, abandoned, pc, public_fd, line,
                       n_chunk, out, sig_received, restart>>
    BY DEF ClosePrivate, ServerControl
  <1>2. AfterServer(d) \in Seq(Nat)
    <2>1. <<>> \in Seq(Nat) OBVIOUS
    <2> QED BY <1>1, <2>1 DEF AfterServer, Types
  <1> HIDE DEF d
  <1>3. Types' BY <1>1, <1>2 DEF Types
  <1>4. ServerControl' BY <1>1 DEF ServerControl
  <1>5. ClientControl' BY <1>1, ClientsFrame
  <1>6. ASSUME NEW c \in Clients, restart[c] PROVE Replies(c)'
    <2>1. Piece(c)' = Piece(c) BY <1>1 DEF Piece, Chunk
    <2>2. Outstanding(c)' BY <1>1, <1>6, <2>1 DEF Replies, Outstanding
    <2>3. private'[c] = private[c]
      <3>1. CASE c = d
        <4>1. pc[c] = "reading"
          BY <1>1, <1>6, <3>1 DEF Replies, InPrivate, ServerWritesTo, d
        <4> QED BY <1>1, <3>1, <4>1 DEF AfterServer, ClientReads, Types
      <3>2. CASE c # d BY <1>1, <3>2 DEF Types
      <3> QED BY <3>1, <3>2
    <2>4. InPrivate(c)'
      BY <1>1, <1>6, <2>1, <2>3 DEF Replies, InPrivate, ServerWritesTo
    <2>5. Ahead(c)' <=> Ahead(c) BY <1>1, <2>3 DEF Ahead
    <2>6. Printed(c)'
      BY <1>1, <1>6, <2>5, PrintedFrame DEF Replies, Undisturbed
    <2> QED BY <2>2, <2>4, <2>6 DEF Replies
  <1> QED BY <1>1, <1>3, <1>4, <1>5, <1>6

\* When the server goes, what it has in hand and in the FIFO is lost; what is
\* in the private FIFO of a client that reads is not.
LEMMA EndServerStep ==
    ASSUME IInv, NEW cleanup \in BOOLEAN, EndServer(cleanup)
    PROVE  IInv'
  <1> USE SizesAssumption DEF IInv
  <1>1. /\ server # "down" /\ server' = "down" /\ dummy' = FALSE
        /\ queue' = <<>> /\ public' \in {0, public} /\ tries' = 0
        /\ msg' = NoMessage
        /\ private' = [c \in Clients |->
                          IF ServerWritesTo(c) THEN AfterServer(c)
                                               ELSE private[c]]
        /\ UNCHANGED <<generation, opened, private_name, starts, abandoned, pc,
                       public_fd, line, n_chunk, out, sig_received, restart>>
    BY DEF EndServer
  <1>2. <<>> \in Seq(Nat) /\ <<>> \in Seq(Pieces) /\ Len(<<>>) = 0 OBVIOUS
  <1>3. Types'
    <2>1. \A c \in Clients : private'[c] \in Seq(Nat)
      BY <1>1, <1>2 DEF AfterServer, Types
    <2>2. private' \in [Clients -> Seq(Nat)] BY <1>1, <2>1
    <2> QED BY <1>1, <1>2, <2>2 DEF Types
  <1>4. ServerControl' BY <1>1 DEF ServerControl
  <1>5. ClientControl' BY <1>1, ClientsFrame
  <1>6. ASSUME NEW c \in Clients, restart[c] PROVE Replies(c)'
    <2>1. Piece(c)' = Piece(c) BY <1>1 DEF Piece, Chunk
    <2>2. Outstanding(c)' BY <1>1, <1>2, <2>1 DEF Outstanding
    <2>3. private'[c] = private[c]
      BY <1>1, <1>6 DEF Replies, InPrivate, AfterServer, ClientReads
    <2>4. InPrivate(c)'
      BY <1>1, <1>6, <2>1, <2>3 DEF Replies, InPrivate, ServerWritesTo
    <2>5. Expected(c)' = Expected(c) BY <1>1 DEF Expected, Sent, Chunk
    <2>6. Due(c) \subseteq Due(c)' BY <1>1, <2>1, <2>3, <2>5 DEF Due, Ahead
    <2>7. ~Undisturbed' BY <1>1 DEF Undisturbed
    <2>8. Printed(c)' BY <1>1, <1>6, <2>6, <2>7 DEF Replies, Printed
    <2> QED BY <2>2, <2>4, <2>8 DEF Replies
  <1> QED BY <1>1, <1>3, <1>4, <1>5, <1>6

-----------------------------------------------------------------------------
(* The steps of the clients *)

\* Where a client is at work on a piece, where it waits for the server, and
\* where it has not been connected or is no more.
WaitsForPiece == {"send", "openPrivate", "opening", "reading"}
WaitsForServer == {"openPrivate", "opening"}
NotConnected == {"mkfifo", "connect", "gone"}

\* A client goes from one place to another and nothing but its end of the
\* public FIFO changes: an undisturbed client has no message out, or goes on
\* waiting for the server.
LEMMA MoveStep ==
    ASSUME IInv, NEW d \in Clients, NEW to,
           to \in {"mkfifo", "connect", "prompt", "fgets", "send",
                   "openPrivate", "opening", "reading", "gone"},
           pc' = [pc EXCEPT ![d] = to],
           public_fd' \in [Clients -> 0 .. generation],
           UNCHANGED <<public, generation, queue, private, server, dummy, msg,
                       tries, starts, line, n_chunk, out, restart>>,
           to \in WaitsForPiece => pc[d] \in WaitsForPiece,
           to \in {"mkfifo", "connect"} => pc[d] \in {"mkfifo", "connect"},
           starts = 0 /\ pc[d] \in NotConnected => to \in NotConnected,
           restart[d] =>
              \/ /\ pc[d] \notin {"openPrivate", "opening", "reading"}
                 /\ to # "reading"
              \/ pc[d] \in WaitsForServer /\ to \in WaitsForServer
    PROVE  IInv'
  <1> USE SizesAssumption DEF IInv
  <1>1. Types' BY DEF Types
  <1>2. ServerControl' BY DEF ServerControl
  <1>3. \A c \in Clients : pc'[c] = IF c = d THEN to ELSE pc[c]
    BY DEF Types
  <1>4. ClientControl'
    BY <1>3, ClientsFrame DEF WaitsForPiece, NotConnected
  <1>5. ASSUME NEW c \in Clients, restart[c] PROVE Replies(c)'
    <2>1. CASE c # d BY <1>3, <1>5, <2>1, OthersFrame
    <2>2. CASE c = d
      <3>1. Piece(c)' = Piece(c) BY DEF Piece, Chunk
      <3>2. pc'[c] = to BY <1>3, <2>2
      <3>3. Outstanding(c)'
        BY <1>5, <2>2, <3>1, <3>2
           DEF Replies, Outstanding, WaitsForServer
      <3>4. InPrivate(c)'
        BY <1>5, <2>2, <3>1, <3>2
           DEF Replies, InPrivate, ServerWritesTo, WaitsForServer
      <3>5. ~Ahead(c) /\ ~Ahead(c)'
        BY <1>5, <2>2, <3>2 DEF Ahead, WaitsForServer
      <3>6. Printed(c)'
        BY <1>5, <3>5, PrintedFrame DEF Replies, Undisturbed
      <3> QED BY <3>3, <3>4, <3>6 DEF Replies
    <2> QED BY <2>1, <2>2
  <1> QED BY <1>1, <1>2, <1>4, <1>5

\* What the invariant does not speak of changes.
LEMMA SameStep ==
    ASSUME IInv,
           UNCHANGED <<public, generation, queue, private, server, dummy, msg,
                       tries, starts, pc, public_fd, line, n_chunk, out,
                       restart>>
    PROVE  IInv'
  <1> USE DEF IInv
  <1>1. Types' BY DEF Types
  <1>2. ServerControl' BY DEF ServerControl
  <1>3. ClientControl' BY DEF ClientControl
  <1>4. ASSUME NEW c \in Clients, restart[c] PROVE Replies(c)'
    BY <1>4, OthersFrame
  <1> QED BY <1>1, <1>2, <1>3, <1>4

\* Before it is connected a client has nothing out.
LEMMA MakePrivateStep ==
    ASSUME IInv, NEW d \in Clients, MakePrivate(d)
    PROVE  IInv'
  <1>1. public_fd' \in [Clients -> 0 .. generation]
    BY DEF MakePrivate, IInv, Types
  <1> QED
    BY <1>1, MoveStep
       DEF MakePrivate, WaitsForPiece, WaitsForServer, NotConnected

\* Only a server that has been started can be found.
LEMMA ConnectStep ==
    ASSUME IInv, NEW d \in Clients, Connect(d)
    PROVE  IInv'
  <1>1. public_fd' \in [Clients -> 0 .. generation]
    <2>1. /\ public_fd \in [Clients -> 0 .. generation]
          /\ public \in {0, generation} /\ generation \in Nat
      BY DEF IInv, Types
    <2> QED BY <2>1 DEF Connect
  <1>2. CASE public # 0 /\ HasPublicReader(public)
    <2>1. starts # 0
      BY <1>2 DEF HasPublicReader, ServerReads, IInv, ServerControl
    <2>2. pc' = [pc EXCEPT ![d] = "prompt"] BY <1>2 DEF Connect
    <2> QED
      BY <1>1, <2>1, <2>2, MoveStep
         DEF Connect, WaitsForPiece, WaitsForServer, NotConnected
  <1>3. CASE ~(public # 0 /\ HasPublicReader(public))
    <2>1. pc' = [pc EXCEPT ![d] = "gone"] BY <1>3 DEF Connect
    <2> QED
      BY <1>1, <2>1, MoveStep
         DEF Connect, WaitsForPiece, WaitsForServer, NotConnected
  <1> QED BY <1>2, <1>3

\* A client leaves when it waits for no piece.
LEMMA CleanUpStep ==
    ASSUME IInv, NEW d \in Clients, CleanUp(d), pc[d] \in {"prompt", "fgets"}
    PROVE  IInv'
  <1>1. public_fd' \in [Clients -> 0 .. generation]
    BY DEF CleanUp, IInv, Types
  <1> QED
    BY <1>1, MoveStep DEF CleanUp, WaitsForPiece, WaitsForServer, NotConnected

\* A client reads a line when it waits for no piece.
LEMMA PromptStep ==
    ASSUME IInv, NEW d \in Clients, Prompt(d)
    PROVE  IInv'
  <1>1. public_fd' \in [Clients -> 0 .. generation]
    BY DEF Prompt, IInv, Types
  <1> QED
    BY <1>1, MoveStep DEF Prompt, WaitsForPiece, WaitsForServer, NotConnected

\* An undisturbed client is not at work on another piece when it begins a line,
\* so nothing of the last one is left to come.
LEMMA BeginLineStep ==
    ASSUME IInv, NEW d \in Clients, NEW len \in 0 .. MaxLine,
           pc[d] = "fgets", BeginLine(d, len),
           UNCHANGED <<fifos, serverVars, public_fd, restart>>
    PROVE  IInv'
  <1> USE SizesAssumption DEF IInv
  <1> DEFINE to == IF len > 0 THEN "send" ELSE "prompt"
  <1>1. /\ line' = [line EXCEPT ![d] = len]
        /\ n_chunk' = [n_chunk EXCEPT ![d] = 0]
        /\ out' = [out EXCEPT ![d] = <<>>]
        /\ pc' = [pc EXCEPT ![d] = to]
    BY DEF BeginLine
  <1>2. \A c \in Clients :
            /\ pc'[c] = IF c = d THEN to ELSE pc[c]
            /\ line'[c] = IF c = d THEN len ELSE line[c]
            /\ n_chunk'[c] = IF c = d THEN 0 ELSE n_chunk[c]
            /\ out'[c] = IF c = d THEN <<>> ELSE out[c]
    BY <1>1 DEF Types
  <1>3. Types'
    <2>1. <<>> \in Seq(Nat) OBVIOUS
    <2> QED BY <1>1, <2>1 DEF Types
  <1>4. ServerControl' BY DEF ServerControl
  <1>5. ClientControl'
    <2>1. starts # 0 BY DEF ClientControl
    <2>2. 0 % HalfPipeBuf = 0 OBVIOUS
    <2>3. ASSUME NEW c \in Clients
          PROVE  /\ pc'[c] \in {"send", "openPrivate", "opening", "reading"}
                       => n_chunk'[c] < line'[c]
                 /\ n_chunk'[c] % HalfPipeBuf = 0
                 /\ pc'[c] \in {"mkfifo", "connect"}
                       => n_chunk'[c] = 0 /\ out'[c] = <<>>
      <3>1. CASE c = d BY <1>2, <2>2, <3>1
      <3>2. CASE c # d BY <1>2, <3>2 DEF ClientControl
      <3> QED BY <3>1, <3>2
    <2> QED BY <2>1, <2>3 DEF ClientControl
  <1>6. ASSUME NEW c \in Clients, restart[c] PROVE Replies(c)'
    <2>1. CASE c # d BY <1>2, <1>6, <2>1, OthersFrame
    <2>2. CASE c = d
      <3>1. Outstanding(c)'
        BY <1>2, <1>6, <2>2 DEF Replies, Outstanding
      <3>2. InPrivate(c)'
        BY <1>2, <1>6, <2>2 DEF Replies, InPrivate, ServerWritesTo
      <3>3. Due(c)' = {}
        <4>1. ~Ahead(c)' BY <1>2, <2>2 DEF Ahead
        <4>2. Sent(c)' = {} BY <1>2, <2>2 DEF Sent
        <4> QED BY <4>1, <4>2 DEF Due, Expected
      <3>4. out'[c] = <<>> BY <1>2, <2>2
      <3>5. Printed(c)' BY <3>3, <3>4 DEF Printed, ToSet
      <3> QED BY <3>1, <3>2, <3>5 DEF Replies
    <2> QED BY <2>1, <2>2
  <1> QED BY <1>3, <1>4, <1>5, <1>6

\* A client puts a piece into the public FIFO when it has no other one out.
LEMMA SendStep ==
    ASSUME IInv, NEW d \in Clients, Send(d)
    PROVE  IInv'
  <1> USE SizesAssumption DEF IInv
  <1>1. CASE ~HasPublicReader(public_fd[d])
    <2>1. public_fd' \in [Clients -> 0 .. generation]
      <3>1. public_fd' = [public_fd EXCEPT ![d] = 0] BY <1>1 DEF Send
      <3> QED BY <3>1 DEF Types
    <2> QED
      BY <1>1, <2>1, MoveStep
         DEF Send, WaitsForPiece, WaitsForServer, NotConnected
  <1>2. CASE HasPublicReader(public_fd[d])
    <2> DEFINE m == [client |-> d, text |-> Piece(d)]
    <2>1. /\ pc[d] = "send" /\ Len(queue) < PublicCapacity
          /\ queue' = Append(queue, m)
          /\ pc' = [pc EXCEPT ![d] = "openPrivate"]
          /\ UNCHANGED <<public, generation, opened, private_name, private,
                         server, dummy, msg, tries, starts, abandoned,
                         public_fd, line, n_chunk, out, sig_received, restart>>
      BY <1>2 DEF Send, Piece
    <2>2. m \in Pieces
      <3>1. line[d] \in 1 .. MaxLine /\ n_chunk[d] \in 0 .. MaxLine - 1
        BY <2>1, PieceFacts
      <3> QED BY <3>1 DEF Pieces, Piece
    <2>3. m.client = d /\ m.text = Piece(d) OBVIOUS
    <2> HIDE DEF m
    <2>4. /\ queue \in Seq(Pieces) /\ queue' \in Seq(Pieces)
          /\ Len(queue) \in Nat /\ Len(queue') = Len(queue) + 1
          /\ queue'[Len(queue) + 1] = m
          /\ \A j \in 1 .. Len(queue) : queue'[j] = queue[j]
      BY <2>1, <2>2 DEF Types
    <2>5. Types' BY <2>1, <2>4 DEF Types
    <2>6. ServerControl' BY <2>1 DEF ServerControl
    <2>7. \A c \in Clients : pc'[c] = IF c = d THEN "openPrivate" ELSE pc[c]
      BY <2>1 DEF Types
    <2>8. ClientControl' BY <2>1, <2>7, ClientsFrame
    <2>9. ASSUME NEW c \in Clients, restart[c] PROVE Replies(c)'
      <3>1. CASE c # d
        <4>1. \E n \in Pieces : n.client # c /\ queue' = Append(queue, n)
          BY <2>1, <2>2, <2>3, <3>1
        <4> QED BY <2>1, <2>7, <2>9, <3>1, <4>1, OthersFrame
      <3>2. CASE c = d
        <4>1. Piece(c)' = Piece(c) BY <2>1 DEF Piece, Chunk
        <4>2. \A j \in 1 .. Len(queue) : queue[j].client # c
          BY <2>1, <2>9, <3>2 DEF Replies, Outstanding
        <4>3. ~(server = "try" /\ msg.client = c)
          BY <2>1, <2>9, <3>2 DEF Replies, Outstanding
        <4>4. \A j \in 1 .. Len(queue') :
                  queue'[j].client = c => j = Len(queue) + 1
          BY <2>4, <4>2
        <4>5. Outstanding(c)'
          BY <2>1, <2>3, <2>4, <2>7, <3>2, <4>1, <4>3, <4>4 DEF Outstanding
        <4>6. InPrivate(c)'
          BY <2>1, <2>9, <3>2, <4>1 DEF Replies, InPrivate, ServerWritesTo
        <4>7. ~Ahead(c) /\ ~Ahead(c)'
          BY <2>1, <2>7, <3>2 DEF Ahead
        <4>8. Printed(c)'
          BY <2>1, <2>9, <4>7, PrintedFrame DEF Replies, Undisturbed
        <4> QED BY <4>5, <4>6, <4>8 DEF Replies
      <3> QED BY <3>1, <3>2
    <2> QED BY <2>1, <2>5, <2>6, <2>8, <2>9
  <1> QED BY <1>1, <1>2

\* The server cannot have the private FIFO of an undisturbed client open before
\* the client does.
LEMMA OpenForReplyStep ==
    ASSUME IInv, NEW d \in Clients, OpenForReply(d)
    PROVE  IInv'
  <1> DEFINE to == IF ServerWritesTo(d) THEN "reading" ELSE "opening"
  <1>1. public_fd' \in [Clients -> 0 .. generation]
    BY DEF OpenForReply, IInv, Types
  <1>2. pc[d] = "openPrivate" /\ pc' = [pc EXCEPT ![d] = to]
    BY DEF OpenForReply
  <1>3. restart[d] => to = "opening"
    BY <1>2 DEF IInv, Replies, InPrivate
  <1>4. to \in {"reading", "opening"} OBVIOUS
  <1> HIDE DEF to
  <1> QED
    BY <1>1, <1>2, <1>3, <1>4, MoveStep
       DEF OpenForReply, WaitsForPiece, WaitsForServer, NotConnected

\* What the client prints follows what it has printed.
LEMMA ReadReplyStep ==
    ASSUME IInv, NEW d \in Clients, ReadReply(d)
    PROVE  IInv'
  <1> USE SizesAssumption DEF IInv
  <1>1. /\ pc[d] = "reading" /\ private[d] # <<>>
        /\ out' = [out EXCEPT ![d] = out[d] \o private[d]]
        /\ private' = [private EXCEPT ![d] = <<>>]
        /\ UNCHANGED <<public, generation, queue, opened, private_name, server,
                       dummy, msg, tries, starts, abandoned, pc, public_fd,
                       line, n_chunk, sig_received, restart>>
    BY DEF ReadReply
  <1>2. \A c \in Clients :
            /\ out'[c] = IF c = d THEN out[d] \o private[d] ELSE out[c]
            /\ private'[c] = IF c = d THEN <<>> ELSE private[c]
    BY <1>1 DEF Types
  <1>3. out[d] \in Seq(Nat) /\ private[d] \in Seq(Nat) BY DEF Types
  <1>4. Types'
    <2>1. out[d] \o private[d] \in Seq(Nat) /\ <<>> \in Seq(Nat) BY <1>3
    <2> QED BY <1>1, <2>1 DEF Types
  <1>5. ServerControl' BY <1>1 DEF ServerControl
  <1>6. ClientControl'
    <2>1. starts # 0 BY <1>1 DEF ClientControl
    <2>2. \A c \in Clients :
              pc[c] \in {"mkfifo", "connect"} => out'[c] = out[c]
      BY <1>1, <1>2
    <2> QED BY <1>1, <2>1, <2>2 DEF ClientControl
  <1>7. ASSUME NEW c \in Clients, restart[c] PROVE Replies(c)'
    <2>1. CASE c # d BY <1>1, <1>2, <1>7, <2>1, OthersFrame
    <2>2. CASE c = d
      <3>1. Piece(c)' = Piece(c) /\ Expected(c)' = Expected(c)
        BY <1>1 DEF Piece, Chunk, Expected, Sent
      <3>2. /\ private[c] = Piece(c)
            /\ ~(server = "write" /\ msg.client = c)
        BY <1>1, <1>7, <2>2 DEF Replies, InPrivate
      <3>3. Outstanding(c)'
        BY <1>1, <1>7, <3>1 DEF Replies, Outstanding
      <3>4. InPrivate(c)'
        BY <1>1, <1>2, <1>7, <2>2, <3>1, <3>2
           DEF Replies, InPrivate, ServerWritesTo
      <3>5. /\ Due(c) = Expected(c)
            /\ Due(c)' = Expected(c) \union ToSet(Piece(c))
        BY <1>1, <1>2, <2>2, <3>1, <3>2 DEF Due, Ahead
      <3> DEFINE s == out[c]
                 p == Piece(c)
                 n == n_chunk[c]
      <3>6. /\ p \in Seq(Nat) /\ p # <<>> /\ s \in Seq(Nat)
            /\ \A j \in 1 .. Len(p) : p[j] = n + j
            /\ n \in Nat /\ out'[c] = s \o p
        BY <1>1, <1>2, <1>3, <2>2, <3>2, PieceFacts DEF Types
      <3>7. /\ ToSet(s) \subseteq Expected(c)
            /\ \A j \in 1 .. Len(s) - 1 : s[j] < s[j + 1]
            /\ Undisturbed => ToSet(s) = Expected(c)
        BY <1>7, <3>5 DEF Replies, Printed
      <3>8. \A j \in 1 .. Len(s) : s[j] \in Nat /\ s[j] <= n
        <4>1. \A j \in 1 .. Len(s) : s[j] \in Expected(c)
          BY <3>6, <3>7 DEF ToSet
        <4> QED BY <4>1, ExpectedRange
      <3> HIDE DEF s, p, n
      <3>9. /\ Len(s) \in Nat /\ Len(p) \in Nat /\ Len(p) > 0
            /\ s \o p \in Seq(Nat) /\ Len(s \o p) = Len(s) + Len(p)
            /\ \A j \in 1 .. Len(s) + Len(p) :
                  (s \o p)[j] = IF j <= Len(s) THEN s[j] ELSE p[j - Len(s)]
        BY <3>6
      <3>10. ASSUME NEW j \in 1 .. Len(s) + Len(p) - 1
             PROVE  (s \o p)[j] < (s \o p)[j + 1]
        <4>1. CASE j < Len(s)
          <5>1. (s \o p)[j] = s[j] /\ (s \o p)[j + 1] = s[j + 1]
            BY <3>9, <4>1
          <5> QED BY <3>7, <3>9, <4>1, <5>1 DEF s
        <4>2. CASE j = Len(s)
          <5>1. (s \o p)[j] = s[j] /\ (s \o p)[j + 1] = p[1]
            BY <3>9, <4>2
          <5>2. s[j] <= n /\ s[j] \in Nat /\ p[1] = n + 1
            BY <3>6, <3>8, <3>9, <4>2
          <5> QED BY <3>6, <5>1, <5>2
        <4>3. CASE j > Len(s)
          <5>1. /\ (s \o p)[j] = p[j - Len(s)]
                /\ (s \o p)[j + 1] = p[j + 1 - Len(s)]
            BY <3>9, <4>3
          <5>2. /\ p[j - Len(s)] = n + (j - Len(s))
                /\ p[j + 1 - Len(s)] = n + (j + 1 - Len(s))
            BY <3>6, <3>9, <4>3
          <5> QED BY <3>6, <3>9, <5>1, <5>2
        <4> QED BY <3>9, <4>1, <4>2, <4>3
      <3>11. ToSet(s \o p) = ToSet(s) \union ToSet(p)
        BY <3>6, ToSetConcatenated
      <3>12. Undisturbed' <=> Undisturbed BY <1>1 DEF Undisturbed
      <3>13. Printed(c)'
        <4>1. Len(out'[c]) - 1 = Len(s) + Len(p) - 1 BY <3>6, <3>9
        <4>2. /\ ToSet(out'[c]) = ToSet(s) \union ToSet(p)
              /\ Due(c)' = Expected(c) \union ToSet(p)
          BY <3>5, <3>6, <3>11 DEF p
        <4>3. \A j \in 1 .. Len(out'[c]) - 1 : out'[c][j] < out'[c][j + 1]
          BY <3>6, <3>10, <4>1
        <4> QED BY <3>7, <3>12, <4>2, <4>3 DEF Printed, ToSet
      <3> QED BY <3>3, <3>4, <3>13 DEF Replies
    <2> QED BY <2>1, <2>2
  <1> QED BY <1>1, <1>4, <1>5, <1>6, <1>7

\* An undisturbed client has printed its piece when it goes on to the next.
LEMMA NextChunkStep ==
    ASSUME IInv, NEW d \in Clients, NextChunk(d),
           pc[d] = "reading", private[d] = <<>>,
           restart[d] => ~ServerWritesTo(d)
    PROVE  IInv'
  <1> USE SizesAssumption DEF IInv
  <1> DEFINE next == n_chunk[d] + HalfPipeBuf
             to == IF next < line[d] THEN "send" ELSE "prompt"
  <1>1. n_chunk[d] \in Nat /\ next \in Nat /\ line[d] \in Nat
    BY DEF Types
  <1>2. /\ n_chunk' = [n_chunk EXCEPT ![d] = next]
        /\ UNCHANGED <<public, generation, queue, opened, private_name, server,
                       dummy, msg, tries, starts, abandoned, public_fd, line,
                       out, restart>>
    BY DEF NextChunk
  <1>3. n_chunk'[d] = next BY <1>2 DEF Types
  <1>4. pc' = [pc EXCEPT ![d] = to] BY <1>3 DEF NextChunk
  <1>5. private' = private
    <2>1. private' = [private EXCEPT ![d] = <<>>] BY DEF NextChunk
    <2> QED BY <2>1 DEF Types
  <1>6. \A c \in Clients :
            /\ pc'[c] = IF c = d THEN to ELSE pc[c]
            /\ n_chunk'[c] = IF c = d THEN next ELSE n_chunk[c]
    BY <1>2, <1>4 DEF Types
  <1>7. Types' BY <1>1, <1>2, <1>4, <1>5 DEF Types
  <1>8. ServerControl' BY <1>2 DEF ServerControl
  <1>9. ClientControl'
    <2>1. starts # 0 BY DEF ClientControl
    <2>2. next % HalfPipeBuf = 0 BY <1>1, NextMultiple DEF ClientControl
    <2> HIDE DEF next
    <2>3. ASSUME NEW c \in Clients
          PROVE  /\ pc'[c] \in {"send", "openPrivate", "opening", "reading"}
                       => n_chunk'[c] < line'[c]
                 /\ n_chunk'[c] % HalfPipeBuf = 0
                 /\ pc'[c] \in {"mkfifo", "connect"}
                       => n_chunk'[c] = 0 /\ out'[c] = <<>>
      <3>1. CASE c = d BY <1>2, <1>6, <2>2, <3>1
      <3>2. CASE c # d BY <1>2, <1>6, <3>2 DEF ClientControl
      <3> QED BY <3>1, <3>2
    <2> QED BY <1>2, <2>1, <2>3 DEF ClientControl
  <1>10. ASSUME NEW c \in Clients, restart[c] PROVE Replies(c)'
    <2>1. CASE c # d BY <1>2, <1>5, <1>6, <1>10, <2>1, OthersFrame
    <2>2. CASE c = d
      <3>1. /\ ~ServerWritesTo(c)
            /\ \A j \in 1 .. Len(queue) : queue[j].client # c
            /\ ~(server = "try" /\ msg.client = c)
        BY <1>10, <2>2 DEF Replies, Outstanding
      <3>2. Outstanding(c)' BY <1>2, <3>1 DEF Outstanding
      <3>3. InPrivate(c)'
        BY <1>2, <1>5, <2>2, <3>1 DEF InPrivate, ServerWritesTo
      <3>4. Ahead(c) /\ ~Ahead(c)'
        BY <1>6, <2>2, <3>1 DEF Ahead, ServerWritesTo
      <3>5. Expected(c)' = Expected(c) \union ToSet(Piece(c))
        BY <1>2, <1>3, <2>2, ExpectedNext
      <3>6. Due(c)' = Due(c) BY <3>4, <3>5 DEF Due
      <3>7. Printed(c)'
        BY <1>2, <1>10, <3>6 DEF Replies, Printed, Undisturbed
      <3> QED BY <3>2, <3>3, <3>7 DEF Replies
    <2> QED BY <2>1, <2>2
  <1> QED BY <1>2, <1>7, <1>8, <1>9, <1>10

\* A signal disturbs clients whose calls are not restarted, and no others.
LEMMA SignalStep ==
    ASSUME IInv, NEW d \in Clients, Signal(d)
    PROVE  IInv'
  <1>1. CASE UNCHANGED <<fifos, serverVars, pc, public_fd, line, n_chunk, out,
                         restart>>
    BY <1>1, SameStep
  <1>2. CASE /\ pc[d] = "fgets" /\ BeginLine(d, line[d])
             /\ UNCHANGED <<fifos, serverVars, public_fd, restart>>
    <2>1. line[d] \in 0 .. MaxLine BY DEF IInv, Types
    <2> QED BY <1>2, <2>1, BeginLineStep
  <1>3. CASE /\ ~restart[d] /\ pc[d] = "opening" /\ Goto(d, "gone")
             /\ public_fd' = [public_fd EXCEPT ![d] = 0]
             /\ UNCHANGED <<fifos, serverVars, line, n_chunk, out, restart>>
    <2>1. public_fd' \in [Clients -> 0 .. generation]
      BY <1>3 DEF IInv, Types
    <2> QED
      BY <1>3, <2>1, MoveStep DEF WaitsForPiece, WaitsForServer, NotConnected
  <1>4. CASE /\ ~restart[d] /\ pc[d] = "reading" /\ private[d] = <<>>
             /\ NextChunk(d)
    BY <1>4, NextChunkStep
  <1>5. CASE /\ ~restart[d] /\ pc[d] = "send" /\ Goto(d, "openPrivate")
             /\ UNCHANGED <<fifos, serverVars, public_fd, line, n_chunk, out,
                            restart>>
    <2>1. public_fd' \in [Clients -> 0 .. generation]
      BY <1>5 DEF IInv, Types
    <2> QED
      BY <1>5, <2>1, MoveStep DEF WaitsForPiece, WaitsForServer, NotConnected
  <1> QED BY <1>1, <1>2, <1>3, <1>4, <1>5 DEF Signal

\* A step of a client or its user keeps the invariant.
LEMMA ClientStep ==
    ASSUME IInv, NEW d \in Clients, Client(d) \/ User(d) \/ Signal(d)
    PROVE  IInv'
  <1>1. CASE MakePrivate(d) BY <1>1, MakePrivateStep
  <1>2. CASE Connect(d) BY <1>2, ConnectStep
  <1>3. CASE Prompt(d) BY <1>3, PromptStep
  <1>4. CASE QuitOnSignal(d) BY <1>4, CleanUpStep DEF QuitOnSignal
  <1>5. CASE Send(d) BY <1>5, SendStep
  <1>6. CASE OpenForReply(d) BY <1>6, OpenForReplyStep
  <1>7. CASE ReadReply(d) BY <1>7, ReadReplyStep
  <1>8. CASE EndOfReply(d) BY <1>8, NextChunkStep DEF EndOfReply
  <1>9. CASE TypeLine(d)
    <2>1. PICK len \in LineLengths : BeginLine(d, len) BY <1>9 DEF TypeLine
    <2>2. len \in 0 .. MaxLine BY SizesAssumption
    <2> QED BY <1>9, <2>1, <2>2, BeginLineStep DEF TypeLine
  <1>10. CASE EndOfInput(d)
    <2>1. line[d] \in 0 .. MaxLine BY DEF IInv, Types
    <2> QED BY <1>10, <2>1, BeginLineStep DEF EndOfInput
  <1>11. CASE Quit(d) BY <1>11, CleanUpStep DEF Quit
  <1>12. CASE Signal(d) BY <1>12, SignalStep
  <1> QED
    BY <1>1, <1>2, <1>3, <1>4, <1>5, <1>6, <1>7, <1>8, <1>9, <1>10, <1>11,
       <1>12
       DEF Client, User

-----------------------------------------------------------------------------
(* The invariant, and what follows from it *)

\* Before anything has started, the invariant holds.
LEMMA InitIInv == Init => IInv
  <1> SUFFICES ASSUME Init PROVE IInv
    OBVIOUS
  <1> USE SizesAssumption DEF Init, IInv
  <1>1. Types
    <2>1. <<>> \in Seq(Nat) /\ <<>> \in Seq(Pieces) /\ Len(<<>>) = 0 OBVIOUS
    <2> QED BY <2>1 DEF Types
  <1>2. ServerControl BY DEF ServerControl
  <1>3. 0 % HalfPipeBuf = 0 OBVIOUS
  <1>4. ClientControl BY <1>3 DEF ClientControl
  <1>5. ASSUME NEW c \in Clients PROVE Replies(c)
    <2>1. Outstanding(c) BY DEF Outstanding
    <2>2. InPrivate(c) BY DEF InPrivate, ServerWritesTo
    <2>3. ~Undisturbed /\ out[c] = <<>> BY DEF Undisturbed
    <2>4. Printed(c) BY <2>3 DEF Printed, ToSet
    <2> QED BY <2>1, <2>2, <2>4 DEF Replies
  <1> QED BY <1>1, <1>2, <1>4, <1>5

\* Every step keeps the invariant.
LEMMA NextIInv == IInv /\ [Next]_vars => IInv'
  <1> SUFFICES ASSUME IInv, [Next]_vars PROVE IInv'
    OBVIOUS
  <1>1. CASE MakePublic BY <1>1, MakePublicStep
  <1>2. CASE OpenPublic BY <1>2, OpenPublicStep
  <1>3. CASE ReadMessage BY <1>3, ReadMessageStep
  <1>4. CASE OpenPrivate BY <1>4, OpenPrivateStep
  <1>5. CASE WritePrivate BY <1>5, WritePrivateStep
  <1>6. CASE ClosePrivate BY <1>6, ClosePrivateStep
  <1>7. CASE StartServer BY <1>7, StartServerStep
  <1>8. CASE on_signal_server BY <1>8, EndServerStep DEF on_signal_server
  <1>9. CASE ServerKilled BY <1>9, EndServerStep DEF ServerKilled
  <1>10. CASE \E c \in Clients : Client(c) \/ User(c) \/ Signal(c)
    BY <1>10, ClientStep
  <1>11. CASE UNCHANGED vars BY <1>11, SameStep DEF vars
  <1> QED
    BY <1>1, <1>2, <1>3, <1>4, <1>5, <1>6, <1>7, <1>8, <1>9, <1>10, <1>11
       DEF Next, Server

\* The service is always in the invariant.
THEOREM Invariance == Spec => []IInv
  BY InitIInv, NextIInv, PTL DEF Spec

\* Every variable of the two programs keeps its type.
THEOREM TypesAreKept == Spec => []TypeOK
  <1>1. IInv => TypeOK
    <2> SUFFICES ASSUME IInv PROVE TypeOK
      OBVIOUS
    <2> USE SizesAssumption DEF IInv
    <2>1. generation \in 0 .. MaxStarts BY DEF Types, ServerControl
    <2>2. public_fd \in [Clients -> 0 .. MaxStarts]
      BY <2>1 DEF Types
    <2>3. Pieces = Messages BY DEF Pieces, Messages, Texts
    <2>4. \A j \in DOMAIN queue : queue[j] \in Messages
      BY <2>3 DEF Types
    <2> QED BY <2>1, <2>2, <2>3, <2>4 DEF Types, TypeOK
  <1> QED BY <1>1, Invariance, PTL

\* From its mkfifo to its end by a signal a server is there for whoever
\* connects: its FIFO has the public name, and it never sees the end of it,
\* since it has the write end open itself (upcase_server_1.c:19).
THEOREM NobodyIsTurnedAway == Spec => []ServiceIsOpen
  <1>1. IInv => ServiceIsOpen
    BY DEF IInv, Types, ServerControl, ServiceIsOpen, HasPublicReader,
           ServerReads
  <1> QED BY <1>1, Invariance, PTL

\* However clients, server and signals interleave, a client whose calls are
\* restarted prints pieces of its own line, in order and each at most once, and
\* all of them if the server has not been stopped.
THEOREM RepliesAreTheirs == Spec => []RepliesMatch
  <1>1. IInv => RepliesMatch
    <2> SUFFICES ASSUME IInv, NEW c \in Clients, restart[c],
                        pc[c] \in {"send", "prompt"}
                 PROVE  /\ ToSet(out[c]) \subseteq Expected(c)
                        /\ \A j \in 1 .. Len(out[c]) - 1 :
                              out[c][j] < out[c][j + 1]
                        /\ starts = 1 /\ server # "down"
                              => ToSet(out[c]) = Expected(c)
      BY DEF RepliesMatch
    <2>1. Due(c) = Expected(c) BY DEF Due, Ahead
    <2> QED BY <2>1 DEF IInv, Replies, Printed, Undisturbed
  <1> QED BY <1>1, Invariance, PTL
=============================================================================
