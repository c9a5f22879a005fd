------------------------------ MODULE ApiProofs ------------------------------
(***************************************************************************)
(* Proofs about ControlApi, for every number of clients, every bound on    *)
(* permits, queues and buffers and every limit of a frame.                 *)
(*                                                                         *)
(* The invariant that a step keeps (ApiInv) is about everything that is on *)
(* its way to a client: the frames in the socket, the frame of a write     *)
(* that is held and the queue of the producer continue each other          *)
(* (Chain), from the cursor the client has read up to, to the cursor the   *)
(* producer has reached.  A watch that ends takes the client back to what  *)
(* was sent, and the next one continues there.  Beside it, a worker that   *)
(* runs is registered as long as no shutdown was requested, and has its    *)
(* permit, which is what a shutdown and the loop's return rely on.         *)
(*                                                                         *)
(* HostProofs states it of the two instances that the runs check.          *)
(***************************************************************************)
EXTENDS ControlApi, SequenceTheorems, FiniteSetTheorems, TLAPS

-----------------------------------------------------------------------------
(* The inductive invariant *)

FrameRow == [kind : {"events", "response", "cursor_expired", "disconnect", "refused"}, cursor : Nat, events : Seq(Nat)]

ConRow == [pc : Pcs, kind : Kinds \cup {"none"}, open : BOOLEAN, buf : Seq(FrameRow), out : Seq(FrameRow),
           queue : Seq(FrameRow), prod : {"none", "run", "done", "failed"}, back : BOOLEAN,
           made : Nat, sent : Nat, res : {"ok", "error"}]

CliRow == [from : Nat, cursor : Nat, got : Seq(Nat), reads : {"yes", "stalled", "gone"}, connects : Nat,
           end : {"none", "response", "cursor_expired", "disconnect", "refused"}]

ApiTypes ==
  /\ last \in Oldest..MaxEvents
  /\ loop \in {"serving", "joining", "stopped"} /\ daemon \in {"running", "dropping", "ended"}
  /\ asked \in BOOLEAN /\ requested \in BOOLEAN /\ failed \in BOOLEAN
  /\ streams \subseteq Clients
  /\ con \in [Clients -> ConRow] /\ cli \in [Clients -> CliRow]

\* The event a reader at cursor v expects next.
NextAfter(v) == IF v < Oldest THEN Oldest ELSE v + 1

\* The events from n to m.
Run(n, m) == [i \in 1..(m - n + 1) |-> n + i - 1]

\* A frame that a reader at cursor v may be given.
Continues(f, v) ==
  \/ f.kind = "events" /\ f.cursor >= NextAfter(v) /\ f.events = Run(NextAfter(v), f.cursor)
  \/ f.kind = "disconnect" /\ f.cursor = v /\ f.events = <<>>
  \/ f.kind = "cursor_expired" /\ f.cursor = Oldest - 1 /\ f.events = <<>> /\ Expired(v)

\* Frames that take a reader from v on, one after the other, and where they take it.
Chain(s, v) == \A i \in 1..Len(s) : Continues(s[i], IF i = 1 THEN v ELSE s[i - 1].cursor)
EndOf(s, v) == IF s = <<>> THEN v ELSE s[Len(s)].cursor

\* What a client has read that began at u and is at cursor v.
HasRead(u, v, got) ==
  /\ got = Run(NextAfter(u), NextAfter(u) + Len(got) - 1)
  /\ v = IF got = <<>> THEN u ELSE NextAfter(u) + Len(got) - 1

ReadExact == \A c \in Clients : HasRead(cli[c].from, cli[c].cursor, cli[c].got)

\* Where a shutdown stands.
LoopExact ==
  /\ requested <=> loop # "serving"
  /\ requested => streams = {}
  /\ loop = "stopped" => \A c \in Clients : con[c].pc \in {"none", "collected"}

\* A worker that runs is registered until a shutdown closes its stream, and its error
\* is the loop's once it is collected; its producer ends before it does.
WorkerExact(c) ==
  /\ con[c].pc \in Running => IF requested THEN ~con[c].open ELSE c \in streams
  /\ con[c].pc = "backlog" => ~requested
  /\ con[c].pc \notin {"watch", "write", "join"} => con[c].prod # "run"
  /\ con[c].pc \in {"none", "backlog", "read", "watch", "write"} => con[c].res = "ok"
  /\ con[c].pc = "collected" /\ con[c].res = "error" => failed
  /\ Len(con[c].queue) <= QueueBound /\ Len(con[c].buf) <= Room
  /\ con[c].pc \in {"none", "backlog", "read"} =>
       con[c].buf = <<>> /\ con[c].queue = <<>> /\ con[c].prod = "none" /\ ~con[c].back
  /\ con[c].pc = "watch" => con[c].kind = "watch" /\ con[c].prod # "none"
  /\ con[c].pc = "write" => Len(con[c].out) = 1
  /\ con[c].pc = "write" /\ con[c].prod = "none" => con[c].buf = <<>> /\ con[c].out[1].kind # "events"
  /\ con[c].prod # "none" => con[c].kind = "watch"

\* What is on its way to a client.  A stream continues where the client is: the socket's
\* buffer, then the frame of a write that is held, then the queue, up to the producer's
\* cursor.
Refused(s) == Len(s) = 1 /\ s[1].kind = "refused" /\ s[1].events = <<>>
Answer(f) == f.kind \in {"response", "refused"} /\ f.events = <<>>
OutEnd(c) == IF con[c].pc = "write" THEN con[c].out[1].cursor ELSE con[c].sent
StreamExact(c) ==
  IF con[c].kind = "watch"
    THEN /\ Chain(con[c].buf, cli[c].cursor) \/ (Refused(con[c].buf) /\ con[c].pc = "collected")
         /\ con[c].pc = "write" => Continues(con[c].out[1], EndOf(con[c].buf, cli[c].cursor))
         /\ con[c].pc \in {"watch", "write"} /\ con[c].prod # "none" =>
              /\ EndOf(con[c].buf, cli[c].cursor) = con[c].sent
              /\ Chain(con[c].queue, OutEnd(c))
              /\ \A i \in 1..Len(con[c].queue) : con[c].queue[i].kind = "events"
              /\ con[c].back \/ con[c].made = EndOf(con[c].queue, OutEnd(c))
              /\ con[c].back => con[c].prod # "run"
    ELSE /\ \A i \in 1..Len(con[c].buf) : Answer(con[c].buf[i])
         /\ con[c].pc = "write" => Answer(con[c].out[1])

ApiInv ==
  /\ ApiTypes /\ LoopExact /\ PermitsExact /\ active <= MaxClients /\ ReadExact
  /\ \A c \in Clients : WorkerExact(c) /\ StreamExact(c)

-----------------------------------------------------------------------------
(* Frames and cursors *)

LEMMA RunIs ==
  ASSUME NEW n \in Nat, NEW m \in Int, m >= n - 1
  PROVE  /\ Run(n, m) \in Seq(Nat) /\ Len(Run(n, m)) = m - n + 1
         /\ \A i \in 1..(m - n + 1) : Run(n, m)[i] = n + i - 1
  <1>1. m - n + 1 \in Nat /\ \A i \in 1..(m - n + 1) : n + i - 1 \in Nat
    OBVIOUS
  <1>2. Run(n, m) \in [1..(m - n + 1) -> Nat]
    BY <1>1 DEF Run
  <1> QED BY <1>1, <1>2 DEF Run

\* A run that is continued.
LEMMA RunOn ==
  ASSUME NEW n \in Nat, NEW m \in Int, NEW k \in Int, m >= n - 1, k >= m
  PROVE  Run(n, m) \o Run(m + 1, k) = Run(n, k)
  <1> DEFINE s == Run(n, m)
             t == Run(m + 1, k)
             u == Run(n, k)
  <1>1. s \in Seq(Nat) /\ Len(s) = m - n + 1 /\ \A i \in 1..(m - n + 1) : s[i] = n + i - 1
    BY RunIs
  <1>2. t \in Seq(Nat) /\ Len(t) = k - m /\ \A i \in 1..(k - m) : t[i] = m + i
    <2>1. m + 1 \in Nat /\ k >= (m + 1) - 1 /\ k - (m + 1) + 1 = k - m
      OBVIOUS
    <2>2. t \in Seq(Nat) /\ Len(t) = k - (m + 1) + 1 /\ \A i \in 1..(k - (m + 1) + 1) : t[i] = (m + 1) + i - 1
      BY <2>1, RunIs
    <2> QED BY <2>1, <2>2
  <1>3. u \in Seq(Nat) /\ Len(u) = k - n + 1 /\ \A i \in 1..(k - n + 1) : u[i] = n + i - 1
    <2>1. k >= n - 1
      OBVIOUS
    <2> QED BY <2>1, RunIs
  <1> HIDE DEF s, t, u
  <1>4. /\ s \o t \in Seq(Nat) /\ Len(s \o t) = Len(s) + Len(t)
        /\ \A i \in 1..(Len(s) + Len(t)) : (s \o t)[i] = IF i <= Len(s) THEN s[i] ELSE t[i - Len(s)]
    BY <1>1, <1>2, ConcatProperties
  <1>5. Len(s) + Len(t) = k - n + 1
    BY <1>1, <1>2
  <1>6. ASSUME NEW i \in 1..(k - n + 1) PROVE (s \o t)[i] = u[i]
    <2>1. CASE i <= m - n + 1
      <3>1. (s \o t)[i] = s[i] /\ i \in 1..(m - n + 1)
        BY <1>1, <1>4, <1>5, <2>1
      <3> QED BY <1>1, <1>3, <3>1
    <2>2. CASE i > m - n + 1
      <3> DEFINE j == i - (m - n + 1)
      <3>1. j \in 1..(k - m) /\ m + j = n + i - 1 /\ j = i - Len(s)
        BY <1>1, <2>2
      <3> HIDE DEF j
      <3>2. (s \o t)[i] = t[j]
        BY <1>1, <1>4, <1>5, <2>2, <3>1
      <3>3. t[j] = n + i - 1
        BY <1>2, <3>1
      <3>4. u[i] = n + i - 1
        BY <1>3
      <3> QED BY <3>2, <3>3, <3>4
    <2>3. i <= m - n + 1 \/ i > m - n + 1
      OBVIOUS
    <2> QED BY <2>1, <2>2, <2>3
  <1>7. s \o t = u
    BY <1>3, <1>4, <1>5, <1>6, SeqEqual
  <1> QED BY <1>7 DEF s, t, u

LEMMA ApiConstants ==
  ASSUME ConstantsOK
  PROVE  /\ IsFiniteSet(Clients) /\ MaxClients \in Nat /\ QueueBound \in Nat /\ Room \in Nat /\ MaxConnects \in Nat
         /\ Limit \in Nat \ {0} /\ Oldest \in Nat /\ MaxEvents \in Nat /\ Oldest <= MaxEvents /\ Start \subseteq Nat
  BY DEF ConstantsOK

\* A client that reads a frame that continues has read on.
LEMMA ReadsOn ==
  ASSUME ConstantsOK, NEW f \in FrameRow, NEW u \in Nat, NEW v \in Nat, NEW got \in Seq(Nat),
         HasRead(u, v, got), Continues(f, v)
  PROVE  HasRead(IF f.kind = "cursor_expired" THEN f.cursor ELSE u, f.cursor, got \o f.events)
  <1> DEFINE n == NextAfter(u)
  <1>1. Oldest \in Nat /\ n \in Nat /\ n >= Oldest /\ Len(got) \in Nat /\ f.cursor \in Nat
    BY ApiConstants DEF NextAfter, FrameRow
  <1>2. got = <<>> <=> Len(got) = 0
    OBVIOUS
  <1>3. got = Run(n, n + Len(got) - 1) /\ v = IF got = <<>> THEN u ELSE n + Len(got) - 1
    BY DEF HasRead
  <1>4. CASE f.kind = "events"
    <2>1. f.cursor >= NextAfter(v) /\ f.events = Run(NextAfter(v), f.cursor)
      BY <1>4 DEF Continues
    <2>2. NextAfter(v) = n + Len(got)
      <3>1. CASE got = <<>>
        BY <1>1, <1>2, <1>3, <3>1
      <3>2. CASE got # <<>>
        BY <1>1, <1>2, <1>3, <3>2 DEF NextAfter
      <3> QED BY <3>1, <3>2
    <2> HIDE DEF n
    <2>3. n + Len(got) - 1 >= n - 1 /\ f.cursor >= n + Len(got) - 1 /\ (n + Len(got) - 1) + 1 = n + Len(got)
      BY <1>1, <2>1, <2>2
    <2>4. Run(n, n + Len(got) - 1) \o Run(n + Len(got), f.cursor) = Run(n, f.cursor)
      <3> DEFINE m == n + Len(got) - 1
      <3>1. m \in Int /\ m >= n - 1 /\ f.cursor >= m /\ m + 1 = n + Len(got) /\ f.cursor \in Int
        BY <1>1, <2>3
      <3> HIDE DEF m
      <3>2. Run(n, m) \o Run(m + 1, f.cursor) = Run(n, f.cursor)
        BY <1>1, <3>1, RunOn
      <3> QED BY <3>1, <3>2 DEF m
    <2>5. got \o f.events = Run(n, f.cursor)
      BY <1>3, <2>1, <2>2, <2>4
    <2>6. Len(Run(n, f.cursor)) = f.cursor - n + 1 /\ Run(n, f.cursor) \in Seq(Nat)
      <3>1. f.cursor \in Int /\ f.cursor >= n - 1
        BY <1>1, <2>3
      <3> QED BY <1>1, <3>1, RunIs
    <2>7. n + (f.cursor - n + 1) - 1 = f.cursor /\ f.cursor - n + 1 > 0
      BY <1>1, <2>1, <2>2
    <2>8. Run(n, f.cursor) # <<>>
      BY <2>6, <2>7
    <2> QED BY <1>4, <2>5, <2>6, <2>7, <2>8 DEF HasRead, n
  <1>5. CASE f.kind = "disconnect"
    <2>1. f.cursor = v /\ f.events = <<>>
      BY <1>5 DEF Continues
    <2>2. got \o <<>> = got
      BY ConcatEmptySeq
    <2> QED BY <1>5, <2>1, <2>2 DEF HasRead
  <1>6. CASE f.kind = "cursor_expired"
    <2>1. f.cursor = Oldest - 1 /\ f.events = <<>> /\ v + 1 < Oldest
      BY <1>6 DEF Continues, Expired
    <2>2. got = <<>>
      BY <1>1, <1>2, <1>3, <2>1
    <2>3. got \o f.events = <<>>
      BY <2>1, <2>2, ConcatEmptySeq
    <2>4. NextAfter(f.cursor) \in Nat
      BY <1>1 DEF NextAfter
    <2>5. Run(NextAfter(f.cursor), NextAfter(f.cursor) + 0 - 1) = <<>>
      <3>1. /\ Run(NextAfter(f.cursor), NextAfter(f.cursor) + 0 - 1) \in Seq(Nat)
            /\ Len(Run(NextAfter(f.cursor), NextAfter(f.cursor) + 0 - 1)) = 0
        <4> DEFINE k == NextAfter(f.cursor)
                   m == k + 0 - 1
        <4>1. k \in Nat /\ m \in Int /\ m >= k - 1 /\ m - k + 1 = 0
          BY <2>4
        <4> HIDE DEF k, m
        <4>2. Run(k, m) \in Seq(Nat) /\ Len(Run(k, m)) = 0
          BY <4>1, RunIs
        <4> QED BY <4>2 DEF k, m
      <3> QED BY <3>1, EmptySeq
    <2> QED BY <1>6, <2>3, <2>5 DEF HasRead
  <1> QED BY <1>4, <1>5, <1>6 DEF Continues

\* A chain goes on with a frame that continues its end, and from its second frame on.
LEMMA ChainAppend ==
  ASSUME NEW s \in Seq(FrameRow), NEW f \in FrameRow, NEW v, Chain(s, v), Continues(f, EndOf(s, v))
  PROVE  /\ Chain(Append(s, f), v) /\ EndOf(Append(s, f), v) = f.cursor
         /\ Append(s, f) \in Seq(FrameRow) /\ Len(Append(s, f)) = Len(s) + 1
  <1> DEFINE t == Append(s, f)
  <1>1. /\ t \in Seq(FrameRow) /\ t # <<>> /\ Len(t) = Len(s) + 1 /\ t[Len(s) + 1] = f
        /\ \A i \in 1..Len(s) : t[i] = s[i]
    BY AppendProperties
  <1>2. Len(s) \in Nat /\ (s = <<>> <=> Len(s) = 0)
    OBVIOUS
  <1> HIDE DEF t
  <1>3. ASSUME NEW i \in 1..Len(t) PROVE Continues(t[i], IF i = 1 THEN v ELSE t[i - 1].cursor)
    <2>1. CASE i \in 1..Len(s)
      <3>1. t[i] = s[i] /\ (i # 1 => t[i - 1] = s[i - 1])
        BY <1>1, <1>2, <2>1
      <3> QED BY <2>1, <3>1 DEF Chain
    <2>2. CASE i = Len(s) + 1
      <3>1. EndOf(s, v) = IF i = 1 THEN v ELSE t[i - 1].cursor
        BY <1>1, <1>2, <2>2 DEF EndOf
      <3> QED BY <1>1, <2>2, <3>1
    <2> QED BY <1>1, <1>2, <2>1, <2>2
  <1>4. EndOf(t, v) = f.cursor
    BY <1>1 DEF EndOf
  <1> QED BY <1>1, <1>3, <1>4 DEF Chain, t

LEMMA ChainTail ==
  ASSUME NEW s \in Seq(FrameRow), s # <<>>, NEW v, Chain(s, v)
  PROVE  /\ Continues(Head(s), v) /\ Chain(Tail(s), Head(s).cursor) /\ EndOf(Tail(s), Head(s).cursor) = EndOf(s, v)
         /\ Head(s) \in FrameRow /\ Tail(s) \in Seq(FrameRow) /\ Len(Tail(s)) = Len(s) - 1
         /\ \A i \in 1..Len(Tail(s)) : Tail(s)[i] = s[i + 1]
  <1> DEFINE t == Tail(s)
  <1>1. /\ Head(s) = s[1] /\ Head(s) \in FrameRow /\ t \in Seq(FrameRow) /\ Len(t) = Len(s) - 1
        /\ \A i \in 1..Len(t) : t[i] = s[i + 1]
    BY HeadTailProperties
  <1>2. Len(s) \in Nat \ {0} /\ (t = <<>> <=> Len(t) = 0)
    BY <1>1, EmptySeq
  <1> HIDE DEF t
  <1>3. Continues(Head(s), v)
    BY <1>1, <1>2 DEF Chain
  <1>4. ASSUME NEW i \in 1..Len(t) PROVE Continues(t[i], IF i = 1 THEN Head(s).cursor ELSE t[i - 1].cursor)
    <2>1. i + 1 \in 1..Len(s) /\ t[i] = s[i + 1] /\ (i + 1) - 1 = i
      BY <1>1, <1>2
    <2>2. Continues(s[i + 1], s[i].cursor)
      BY <2>1 DEF Chain
    <2>3. s[i].cursor = IF i = 1 THEN Head(s).cursor ELSE t[i - 1].cursor
      BY <1>1, <1>2
    <2> QED BY <2>1, <2>2, <2>3
  <1>5. EndOf(t, Head(s).cursor) = EndOf(s, v)
    <2>1. CASE Len(t) = 0
      <3>1. Len(s) = 1 /\ t = <<>>
        BY <1>1, <1>2, <2>1
      <3>2. EndOf(s, v) = Head(s).cursor
        BY <1>1, <3>1 DEF EndOf
      <3> QED BY <3>1, <3>2 DEF EndOf
    <2>2. CASE Len(t) # 0
      <3>1. Len(t) \in 1..Len(t) /\ Len(t) + 1 = Len(s)
        BY <1>1, <1>2, <2>2
      <3> QED BY <1>1, <1>2, <2>2, <3>1 DEF EndOf
    <2> QED BY <2>1, <2>2
  <1> QED BY <1>1, <1>3, <1>4, <1>5 DEF Chain, t

LEMMA ChainEmpty == \A v : Chain(<<>>, v) /\ EndOf(<<>>, v) = v
  BY DEF Chain, EndOf

\* The frame of a batch that the producer reads at cursor v.
LEMMA BatchContinues ==
  ASSUME ConstantsOK, ApiTypes, NEW c \in Clients, Batch(c) # <<>>
  PROVE  /\ Last(Batch(c)) \in Nat
         /\ Frame("events", Last(Batch(c)), Batch(c)) \in FrameRow
         /\ Continues(Frame("events", Last(Batch(c)), Batch(c)), con[c].made)
         /\ Frame("events", Last(Batch(c)), Batch(c)).cursor = Last(Batch(c))
         /\ Frame("events", Last(Batch(c)), Batch(c)).kind = "events"
  <1> DEFINE v == con[c].made
             lo == NextAfter(v)
             hi == IF lo + Limit - 1 < last THEN lo + Limit - 1 ELSE last
             b == Batch(c)
             f == Frame("events", Last(b), b)
  <1>1. v \in Nat /\ last \in Nat /\ Oldest \in Nat /\ Limit \in Nat \ {0}
    <2>1. con[c] \in ConRow
      BY DEF ApiTypes
    <2> QED BY <2>1, ApiConstants DEF ApiTypes, ConRow
  <1>2. lo \in Nat /\ hi \in Nat
    BY <1>1 DEF NextAfter
  <1>3. b = Run(lo, hi)
    BY DEF Batch, Run, NextAfter
  <1> HIDE DEF lo, hi
  <1>4. hi >= lo
    <2>1. SUFFICES ASSUME hi < lo PROVE FALSE
      BY <1>2
    <2>2. 1..(hi - lo + 1) = 1..0
      BY <1>2, <2>1
    <2>3. b = [i \in 1..0 |-> lo + i - 1]
      BY <1>3, <2>2 DEF Run
    <2>4. b \in Seq(Nat) /\ Len(b) = 0
      <3>1. b = Run(lo, lo - 1)
        BY <1>2, <2>3 DEF Run
      <3> QED BY <1>2, <3>1, RunIs
    <2> QED BY <2>4, EmptySeq
  <1>5. b \in Seq(Nat) /\ Len(b) = hi - lo + 1 /\ b[hi - lo + 1] = hi
    <2>1. hi \in Int /\ hi >= lo - 1 /\ hi - lo + 1 \in 1..(hi - lo + 1) /\ lo + (hi - lo + 1) - 1 = hi
      BY <1>2, <1>4
    <2>2. /\ Run(lo, hi) \in Seq(Nat) /\ Len(Run(lo, hi)) = hi - lo + 1
          /\ \A i \in 1..(hi - lo + 1) : Run(lo, hi)[i] = lo + i - 1
      BY <1>2, <2>1, RunIs
    <2> QED BY <1>3, <2>1, <2>2
  <1>6. Last(b) = hi
    BY <1>5 DEF Last
  <1> HIDE DEF b
  <1>7. f = [kind |-> "events", cursor |-> hi, events |-> b]
    BY <1>6 DEF Frame
  <1>8. f \in FrameRow /\ f.kind = "events" /\ f.cursor = hi /\ f.events = b
    BY <1>2, <1>5, <1>7 DEF FrameRow
  <1> HIDE DEF f
  <1>9. Continues(f, v)
    BY <1>3, <1>4, <1>8 DEF Continues, lo
  <1> QED BY <1>2, <1>6, <1>8, <1>9 DEF f, b

-----------------------------------------------------------------------------
(* Every action keeps the invariant *)

LEMMA ConTypes ==
  ASSUME ApiTypes, NEW c \in Clients
  PROVE  /\ con[c] \in ConRow /\ cli[c] \in CliRow
         /\ con[c].pc \in Pcs /\ con[c].open \in BOOLEAN /\ con[c].back \in BOOLEAN
         /\ con[c].buf \in Seq(FrameRow) /\ con[c].out \in Seq(FrameRow) /\ con[c].queue \in Seq(FrameRow)
         /\ con[c].made \in Nat /\ con[c].sent \in Nat
         /\ cli[c].from \in Nat /\ cli[c].cursor \in Nat /\ cli[c].got \in Seq(Nat)
  <1>1. con[c] \in ConRow /\ cli[c] \in CliRow
    BY DEF ApiTypes
  <1> QED BY <1>1 DEF ConRow, CliRow

\* The other connections are left as they are.
LEMMA OtherKeeps ==
  ASSUME ApiInv, NEW q \in Clients, con'[q] = con[q], cli'[q] = cli[q], requested' = requested,
         q \in streams => q \in streams', failed => failed'
  PROVE  WorkerExact(q)' /\ StreamExact(q)'
  <1>1. WorkerExact(q) /\ StreamExact(q)
    BY DEF ApiInv
  <1>2. WorkerExact(q)'
    BY <1>1 DEF WorkerExact
  <1>3. StreamExact(q)'
    BY <1>1 DEF StreamExact, OutEnd
  <1> QED BY <1>2, <1>3

\* A step of one connection that neither takes nor gives back a permit.
LEMMA ConKeeps ==
  ASSUME ConstantsOK, ApiInv, NEW c \in Clients, NEW r \in ConRow, NEW k \in CliRow,
         con' = [con EXCEPT ![c] = r], cli' = [cli EXCEPT ![c] = k],
         UNCHANGED <<last, loop, asked, requested, streams, active, daemon>>, failed' \in BOOLEAN, failed => failed',
         r.pc \in Running <=> con[c].pc \in Running, loop = "stopped" => r.pc \in {"none", "collected"},
         HasRead(k.from, k.cursor, k.got), WorkerExact(c)', StreamExact(c)'
  PROVE  ApiInv'
  <1>1. ApiTypes /\ con \in [Clients -> ConRow] /\ cli \in [Clients -> CliRow]
    BY DEF ApiInv, ApiTypes
  <1>2. con' \in [Clients -> ConRow] /\ con'[c] = r /\ \A q \in Clients : q # c => con'[q] = con[q]
    BY <1>1
  <1>3. cli' \in [Clients -> CliRow] /\ cli'[c] = k /\ \A q \in Clients : q # c => cli'[q] = cli[q]
    BY <1>1
  <1>4. ApiTypes'
    BY <1>1, <1>2, <1>3 DEF ApiTypes
  <1>5. LoopExact'
    BY <1>2 DEF ApiInv, LoopExact
  <1>6. {q \in Clients : con'[q].pc \in Running} = {q \in Clients : con[q].pc \in Running}
    BY <1>2
  <1>7. PermitsExact' /\ active' <= MaxClients
    BY <1>6 DEF ApiInv, PermitsExact, Running
  <1>8. ReadExact'
    BY <1>3 DEF ApiInv, ReadExact
  <1>9. ASSUME NEW q \in Clients PROVE WorkerExact(q)' /\ StreamExact(q)'
    BY <1>2, <1>3, OtherKeeps
  <1> QED BY <1>4, <1>5, <1>7, <1>8, <1>9 DEF ApiInv

\* The same, when the client is left as it is.
LEMMA WorkerKeeps ==
  ASSUME ConstantsOK, ApiInv, NEW c \in Clients, NEW r \in ConRow, con' = [con EXCEPT ![c] = r],
         UNCHANGED <<last, server, cli>>,
         r.pc \in Running /\ con[c].pc \in Running, WorkerExact(c)', StreamExact(c)'
  PROVE  ApiInv'
  <1>1. cli[c] \in CliRow /\ cli' = [cli EXCEPT ![c] = cli[c]] /\ HasRead(cli[c].from, cli[c].cursor, cli[c].got)
    BY DEF ApiInv, ApiTypes, ReadExact
  <1>2. loop # "stopped" /\ failed' = failed /\ failed \in BOOLEAN
    BY DEF ApiInv, LoopExact, Running, server, ApiTypes
  <1>3. /\ UNCHANGED <<last, loop, asked, requested, streams, active, daemon>> /\ (failed => failed') /\ failed' \in BOOLEAN
        /\ (r.pc \in Running <=> con[c].pc \in Running) /\ (loop = "stopped" => r.pc \in {"none", "collected"})
    BY <1>2 DEF server
  <1> QED BY <1>1, <1>3, ConKeeps

LEMMA AppendEventKeeps == ASSUME ConstantsOK, ApiInv, AppendEvent PROVE ApiInv'
  <1>1. last' \in Oldest..MaxEvents
    BY ApiConstants DEF ApiInv, ApiTypes, AppendEvent
  <1>2. UNCHANGED <<loop, asked, requested, streams, active, failed, daemon, con, cli>>
    BY DEF AppendEvent, server
  <1>3. ApiTypes' /\ LoopExact' /\ PermitsExact' /\ active' <= MaxClients /\ ReadExact'
    BY <1>1, <1>2 DEF ApiInv, ApiTypes, LoopExact, PermitsExact, ReadExact
  <1>4. \A c \in Clients : WorkerExact(c)' /\ StreamExact(c)'
    BY <1>2, OtherKeeps
  <1> QED BY <1>3, <1>4 DEF ApiInv

LEMMA ReadFrameKeeps == ASSUME ConstantsOK, ApiInv, NEW c \in Clients, ReadFrame(c) PROVE ApiInv'
  <1> DEFINE f == Head(con[c].buf)
             t == Tail(con[c].buf)
             r == [con[c] EXCEPT !.buf = t]
             v == IF con[c].kind = "watch" /\ f.kind # "refused" THEN f.cursor ELSE cli[c].cursor
             u == IF f.kind = "cursor_expired" THEN f.cursor ELSE cli[c].from
             g == cli[c].got \o f.events
             e == IF f.kind = "events" THEN cli[c].end ELSE f.kind
             k == [cli[c] EXCEPT !.cursor = v, !.got = g, !.from = u, !.end = e]
  <1>1. /\ con[c].buf # <<>> /\ con' = [con EXCEPT ![c] = r] /\ cli' = [cli EXCEPT ![c] = k]
        /\ UNCHANGED <<last, loop, asked, requested, streams, active, daemon, failed>>
    <2>1. con[c].buf # <<>> /\ con' = [con EXCEPT ![c] = r] /\ UNCHANGED <<last, server>>
      BY DEF ReadFrame
    <2>2. cli' = [cli EXCEPT ![c] = k]
      BY DEF ReadFrame
    <2> QED BY <2>1, <2>2 DEF server
  <1>2. ApiTypes /\ con[c] \in ConRow /\ cli[c] \in CliRow /\ WorkerExact(c) /\ StreamExact(c)
    BY ConTypes DEF ApiInv
  <1>3. /\ con[c].buf \in Seq(FrameRow) /\ cli[c].from \in Nat /\ cli[c].cursor \in Nat /\ cli[c].got \in Seq(Nat)
        /\ HasRead(cli[c].from, cli[c].cursor, cli[c].got)
    BY <1>2, ConTypes DEF ApiInv, ReadExact
  <1>4. f \in FrameRow /\ t \in Seq(FrameRow) /\ f = con[c].buf[1] /\ Len(t) = Len(con[c].buf) - 1
        /\ \A i \in 1..Len(t) : t[i] = con[c].buf[i + 1]
    BY <1>1, <1>3, HeadTailProperties
  <1>5. Len(con[c].buf) \in Nat \ {0}
    BY <1>1, <1>3, EmptySeq
  <1>6. r \in ConRow /\ r.buf = t /\ r.pc = con[c].pc /\ r.kind = con[c].kind /\ r.open = con[c].open /\ r.out = con[c].out
        /\ r.queue = con[c].queue /\ r.prod = con[c].prod /\ r.back = con[c].back /\ r.made = con[c].made
        /\ r.sent = con[c].sent /\ r.res = con[c].res
    <2> HIDE DEF t
    <2> QED BY <1>2, <1>4 DEF ConRow
  <1>7. f.cursor \in Nat /\ f.events \in Seq(Nat)
    BY <1>4 DEF FrameRow
  <1>8. k \in CliRow /\ k.cursor = v /\ k.got = g /\ k.from = u
    <2>1. v \in Nat /\ u \in Nat /\ g \in Seq(Nat) /\ e \in {"none", "response", "cursor_expired", "disconnect", "refused"}
      <3>1. g \in Seq(Nat)
        BY <1>3, <1>7, ConcatProperties
      <3>2. v \in Nat /\ u \in Nat
        BY <1>3, <1>7
      <3>3. e \in {"none", "response", "cursor_expired", "disconnect", "refused"}
        BY <1>2, <1>4 DEF CliRow, FrameRow
      <3> QED BY <3>1, <3>2, <3>3
    <2> HIDE DEF v, u, g, e
    <2> QED BY <1>2, <2>1 DEF CliRow
  <1> HIDE DEF r, k, t
  <1>9. con'[c] = r /\ cli'[c] = k
    BY <1>1, <1>2 DEF ApiTypes
  <1>10. cli[c].got \o <<>> = cli[c].got
    BY <1>3, ConcatEmptySeq
  <1>11. /\ HasRead(u, v, g)
         /\ StreamExact(c)'
    <2>1. CASE con[c].kind = "watch" /\ Chain(con[c].buf, cli[c].cursor)
      <3>1. /\ Continues(f, cli[c].cursor) /\ Chain(t, f.cursor)
            /\ EndOf(t, f.cursor) = EndOf(con[c].buf, cli[c].cursor)
        BY <1>1, <1>3, <2>1, ChainTail DEF t
      <3>2. v = f.cursor
        BY <2>1, <3>1 DEF Continues
      <3>3. HasRead(u, v, g)
        BY <1>3, <1>4, <3>1, <3>2, ReadsOn
      <3>4. StreamExact(c)'
        BY <1>2, <1>6, <1>8, <1>9, <2>1, <3>1, <3>2 DEF StreamExact, OutEnd
      <3> QED BY <3>3, <3>4
    <2>2. CASE con[c].kind = "watch" /\ Refused(con[c].buf) /\ con[c].pc = "collected"
      <3>1. f.kind = "refused" /\ f.events = <<>> /\ Len(t) = 0
        BY <1>4, <2>2 DEF Refused
      <3>2. t = <<>>
        BY <1>4, <3>1, EmptySeq
      <3>3. HasRead(u, v, g)
        BY <1>3, <1>10, <3>1
      <3>4. StreamExact(c)'
        BY <1>6, <1>9, <2>2, <3>2, ChainEmpty DEF StreamExact
      <3> QED BY <3>3, <3>4
    <2>3. CASE con[c].kind # "watch"
      <3>1. Answer(f)
        BY <1>2, <1>4, <1>5, <2>3 DEF StreamExact
      <3>2. HasRead(u, v, g)
        BY <1>3, <1>10, <2>3, <3>1 DEF Answer
      <3>3. StreamExact(c)'
        BY <1>2, <1>4, <1>5, <1>6, <1>9, <2>3 DEF StreamExact
      <3> QED BY <3>2, <3>3
    <2> QED BY <1>2, <2>1, <2>2, <2>3 DEF StreamExact
  <1>12. WorkerExact(c)'
    <2>1. con[c].pc \notin {"none", "backlog", "read"} /\ ~(con[c].pc = "write" /\ con[c].prod = "none")
      BY <1>1, <1>2 DEF WorkerExact
    <2>2. Len(t) <= Room
      BY <1>2, <1>4, <1>5, ApiConstants DEF WorkerExact
    <2> QED BY <1>1, <1>2, <1>6, <1>9, <2>1, <2>2 DEF WorkerExact
  <1>13. failed \in BOOLEAN /\ (loop = "stopped" => r.pc \in {"none", "collected"})
    BY <1>2, <1>6 DEF ApiInv, LoopExact, ApiTypes
  <1> QED BY <1>1, <1>6, <1>8, <1>11, <1>12, <1>13, ConKeeps

LEMMA NoConIs ==
  /\ NoCon \in ConRow /\ NoCon.pc = "none" /\ NoCon.kind = "none" /\ NoCon.buf = <<>> /\ NoCon.queue = <<>>
  /\ NoCon.prod = "none" /\ NoCon.back = FALSE /\ NoCon.res = "ok"
  BY DEF NoCon, ConRow, Pcs

LEMMA ConnectKeeps ==
  ASSUME ConstantsOK, ApiInv, NEW c \in Clients, NEW kind \in Kinds, Connect(c, kind)
  PROVE  ApiInv'
  <1> DEFINE r == [NoCon EXCEPT !.pc = "backlog", !.kind = kind, !.open = TRUE]
             k == [cli[c] EXCEPT !.connects = @ + 1, !.reads = "yes", !.end = "none"]
  <1>1. /\ con[c].pc = "none" /\ loop = "serving" /\ con' = [con EXCEPT ![c] = r] /\ cli' = [cli EXCEPT ![c] = k]
        /\ UNCHANGED <<last, loop, asked, requested, streams, active, daemon, failed>>
    <2>1. con[c].pc = "none" /\ loop = "serving" /\ con' = [con EXCEPT ![c] = r] /\ UNCHANGED <<last, server>>
      BY DEF Connect
    <2>2. cli' = [cli EXCEPT ![c] = k]
      BY DEF Connect
    <2> QED BY <2>1, <2>2 DEF server
  <1>2. ApiTypes /\ cli[c] \in CliRow /\ ~requested /\ failed \in BOOLEAN /\ HasRead(cli[c].from, cli[c].cursor, cli[c].got)
    BY <1>1, ConTypes DEF ApiInv, LoopExact, ReadExact, ApiTypes
  <1>3. /\ r \in ConRow /\ r.pc = "backlog" /\ r.kind = kind /\ r.buf = <<>> /\ r.queue = <<>> /\ r.prod = "none"
        /\ r.back = FALSE /\ r.res = "ok"
    BY NoConIs DEF ConRow, Pcs
  <1>4. k \in CliRow /\ k.from = cli[c].from /\ k.cursor = cli[c].cursor /\ k.got = cli[c].got
    <2> DEFINE n == cli[c].connects + 1
    <2>1. n \in Nat
      BY <1>2 DEF CliRow
    <2>2. k = [cli[c] EXCEPT !.connects = n, !.reads = "yes", !.end = "none"]
      OBVIOUS
    <2> HIDE DEF n, k
    <2> QED BY <1>2, <2>1, <2>2 DEF CliRow
  <1> HIDE DEF r, k
  <1>5. con'[c] = r
    BY <1>1, <1>2 DEF ApiTypes
  <1>6. WorkerExact(c)'
    BY <1>1, <1>2, <1>3, <1>5, ApiConstants DEF WorkerExact, Running
  <1>7. StreamExact(c)'
    BY <1>3, <1>5, ChainEmpty DEF StreamExact
  <1> QED BY <1>1, <1>2, <1>3, <1>4, <1>6, <1>7, ConKeeps DEF Running

LEMMA StallKeeps ==
  ASSUME ConstantsOK, ApiInv, NEW c \in Clients, NEW how \in {"stalled", "gone"}, Stall(c, how)
  PROVE  ApiInv'
  <1> DEFINE k == [cli[c] EXCEPT !.reads = how]
  <1>1. /\ cli' = [cli EXCEPT ![c] = k]
        /\ UNCHANGED <<last, loop, asked, requested, streams, active, daemon, failed, con>>
    BY DEF Stall, server
  <1>2. ApiTypes /\ con[c] \in ConRow /\ cli[c] \in CliRow /\ failed \in BOOLEAN /\ WorkerExact(c) /\ StreamExact(c)
        /\ HasRead(cli[c].from, cli[c].cursor, cli[c].got) /\ con' = [con EXCEPT ![c] = con[c]]
    BY <1>1, ConTypes DEF ApiInv, ReadExact, ApiTypes
  <1>3. k \in CliRow /\ k.from = cli[c].from /\ k.cursor = cli[c].cursor /\ k.got = cli[c].got
    BY <1>2 DEF CliRow
  <1> HIDE DEF k
  <1>4. cli'[c] = k
    BY <1>1, <1>2 DEF ApiTypes
  <1>5. WorkerExact(c)'
    BY <1>1, <1>2 DEF WorkerExact
  <1>6. StreamExact(c)'
    BY <1>1, <1>2, <1>3, <1>4 DEF StreamExact, OutEnd
  <1>7. loop = "stopped" => con[c].pc \in {"none", "collected"}
    BY DEF ApiInv, LoopExact
  <1> QED BY <1>1, <1>2, <1>3, <1>5, <1>6, <1>7, ConKeeps

LEMMA HangupKeeps == ASSUME ConstantsOK, ApiInv, NEW c \in Clients, Hangup(c) PROVE ApiInv'
  <1>1. /\ con[c].pc = "collected" /\ con' = [con EXCEPT ![c] = NoCon]
        /\ UNCHANGED <<last, loop, asked, requested, streams, active, daemon, failed, cli>>
    BY DEF Hangup, server
  <1>2. ApiTypes /\ cli[c] \in CliRow /\ failed \in BOOLEAN
        /\ HasRead(cli[c].from, cli[c].cursor, cli[c].got) /\ cli' = [cli EXCEPT ![c] = cli[c]]
    BY <1>1, ConTypes DEF ApiInv, ReadExact, ApiTypes
  <1>4. con'[c] = NoCon
    BY <1>1, <1>2 DEF ApiTypes
  <1>5. WorkerExact(c)'
    BY <1>4, NoConIs, ApiConstants DEF WorkerExact, Running
  <1>6. StreamExact(c)'
    BY <1>4, NoConIs DEF StreamExact
  <1> QED BY <1>1, <1>2, <1>5, <1>6, NoConIs, ConKeeps DEF Running

\* What Send makes of a connection.
LEMMA SendIs ==
  ASSUME ApiTypes, NEW c \in Clients, NEW f \in FrameRow, NEW pc \in Pcs
  PROVE  /\ Send(c, f, pc) \in ConRow
         /\ Send(c, f, pc).kind = con[c].kind /\ Send(c, f, pc).open = con[c].open
         /\ Send(c, f, pc).queue = con[c].queue /\ Send(c, f, pc).prod = con[c].prod /\ Send(c, f, pc).back = con[c].back
         /\ Send(c, f, pc).made = con[c].made /\ Send(c, f, pc).res = con[c].res
         /\ CanWrite(c) => /\ Send(c, f, pc).buf = Append(con[c].buf, f) /\ Send(c, f, pc).pc = pc
                           /\ Send(c, f, pc).out = con[c].out
                           /\ Send(c, f, pc).sent = IF f.kind = "events" THEN f.cursor ELSE con[c].sent
         /\ ~CanWrite(c) => /\ Send(c, f, pc).buf = con[c].buf /\ Send(c, f, pc).pc = "write"
                            /\ Send(c, f, pc).out = <<f>> /\ Send(c, f, pc).sent = con[c].sent
  <1>1. con[c] \in ConRow /\ con[c].buf \in Seq(FrameRow) /\ con[c].sent \in Nat
    BY ConTypes
  <1>2. f.cursor \in Nat
    BY DEF FrameRow
  <1>3. CASE CanWrite(c)
    <2> DEFINE b == Append(con[c].buf, f)
               n == IF f.kind = "events" THEN f.cursor ELSE con[c].sent
               r == [con[c] EXCEPT !.buf = b, !.pc = pc, !.sent = n]
    <2>1. Send(c, f, pc) = r
      BY <1>3 DEF Send
    <2>2. b \in Seq(FrameRow) /\ n \in Nat
      BY <1>1, <1>2, AppendProperties
    <2> HIDE DEF b, n
    <2>3. /\ r \in ConRow /\ r.kind = con[c].kind /\ r.open = con[c].open
          /\ r.queue = con[c].queue /\ r.prod = con[c].prod /\ r.back = con[c].back
          /\ r.made = con[c].made /\ r.res = con[c].res /\ r.buf = b /\ r.pc = pc /\ r.sent = n /\ r.out = con[c].out
      BY <1>1, <2>2 DEF ConRow
    <2> HIDE DEF r
    <2> QED BY <1>3, <2>1, <2>3 DEF b, n
  <1>4. CASE ~CanWrite(c)
    <2> DEFINE o == <<f>>
               r == [con[c] EXCEPT !.out = o, !.pc = "write"]
    <2>1. Send(c, f, pc) = r
      BY <1>4 DEF Send
    <2>2. o \in Seq(FrameRow)
      OBVIOUS
    <2> HIDE DEF o
    <2>3. /\ r \in ConRow /\ r.kind = con[c].kind /\ r.open = con[c].open
          /\ r.queue = con[c].queue /\ r.prod = con[c].prod /\ r.back = con[c].back
          /\ r.made = con[c].made /\ r.res = con[c].res /\ r.buf = con[c].buf /\ r.pc = "write" /\ r.sent = con[c].sent
          /\ r.out = o
      BY <1>1, <2>2 DEF ConRow, Pcs
    <2> HIDE DEF r
    <2> QED BY <1>4, <2>1, <2>3 DEF o
  <1> QED BY <1>3, <1>4

\* The first answer to a request that starts no stream: all there will be.
LEMMA AnswerKeeps ==
  ASSUME ConstantsOK, ApiInv, NEW c \in Clients, NEW f \in FrameRow, con[c].pc = "read", f.kind # "events",
         con' = [con EXCEPT ![c] = Send(c, f, "join")], UNCHANGED <<last, server, cli>>,
         IF con[c].kind = "watch" THEN Continues(f, cli[c].cursor) ELSE Answer(f)
  PROVE  ApiInv'
  <1> DEFINE r == Send(c, f, "join")
             b == con[c].buf
  <1>1. ApiTypes /\ WorkerExact(c) /\ StreamExact(c) /\ b \in Seq(FrameRow) /\ b = <<>>
    BY ConTypes DEF ApiInv, WorkerExact
  <1>2. /\ r \in ConRow /\ r.kind = con[c].kind /\ r.open = con[c].open /\ r.queue = con[c].queue /\ r.prod = con[c].prod
        /\ r.back = con[c].back /\ r.res = con[c].res
        /\ CanWrite(c) => r.buf = Append(b, f) /\ r.pc = "join"
        /\ ~CanWrite(c) => r.buf = b /\ r.pc = "write" /\ r.out = <<f>>
    BY <1>1, SendIs DEF Pcs
  <1>3. con'[c] = r /\ UNCHANGED <<requested, streams, failed>> /\ cli' = cli
    BY <1>1 DEF ApiTypes, server
  <1>4. /\ Append(b, f) \in Seq(FrameRow) /\ Len(Append(b, f)) = 1 /\ Append(b, f)[1] = f
        /\ CanWrite(c) => Len(Append(b, f)) <= Room
    <2>1. Len(b) = 0
      BY <1>1
    <2> QED BY <1>1, <2>1, AppendProperties, ApiConstants DEF CanWrite
  <1>5. /\ con[c].kind = "watch" => Chain(Append(b, f), cli[c].cursor)
    BY <1>1, ChainEmpty, ChainAppend
  <1> HIDE DEF r, b
  <1>6. WorkerExact(c)'
    <2>4. Len(<<f>>) = 1 /\ <<f>>[1] = f
      OBVIOUS
    <2>1. ~CanWrite(c) => Len(r.out) = 1 /\ r.out[1] = f
      BY <1>2, <2>4
    <2>2. CASE CanWrite(c)
      BY <1>1, <1>2, <1>3, <1>4, <2>2 DEF WorkerExact, Running
    <2>3. CASE ~CanWrite(c)
      <3>1. Len(r.out) = 1 /\ r.out[1].kind # "events" /\ r.buf = b /\ b = con[c].buf /\ r.pc = "write"
        BY <1>2, <2>1, <2>3 DEF b
      <3> QED BY <1>1, <1>2, <1>3, <3>1 DEF WorkerExact, Running
    <2> QED BY <2>2, <2>3
  <1>7. StreamExact(c)'
    <2>1. CASE CanWrite(c)
      BY <1>1, <1>2, <1>3, <1>4, <1>5, <2>1 DEF StreamExact
    <2>2. CASE ~CanWrite(c)
      BY <1>1, <1>2, <1>3, <2>2, ChainEmpty DEF StreamExact, WorkerExact
    <2> QED BY <2>1, <2>2
  <1>8. r.pc \in Running /\ con[c].pc \in Running
    BY <1>2 DEF Running
  <1>9. con' = [con EXCEPT ![c] = r]
    BY DEF r
  <1> QED BY <1>2, <1>6, <1>7, <1>8, <1>9, WorkerKeeps

LEMMA CallKeeps == ASSUME ConstantsOK, ApiInv, NEW c \in Clients, Call(c) PROVE ApiInv'
  <1> DEFINE f == Frame("response", 0, <<>>)
  <1>1. f \in FrameRow /\ f.kind = "response" /\ f.events = <<>>
    BY DEF Frame, FrameRow
  <1> HIDE DEF f
  <1>2. con[c].pc = "read" /\ con[c].kind = "call" /\ Write(c, f)
    BY DEF Call, f
  <1>3. con' = [con EXCEPT ![c] = Send(c, f, "join")] /\ UNCHANGED <<last, server, cli>>
    BY <1>1, <1>2 DEF Write, After
  <1> QED BY <1>1, <1>2, <1>3, AnswerKeeps DEF Answer

LEMMA WatchExpiredKeeps == ASSUME ConstantsOK, ApiInv, NEW c \in Clients, WatchExpired(c) PROVE ApiInv'
  <1> DEFINE f == Frame("cursor_expired", Oldest - 1, <<>>)
  <1>1. con[c].pc = "read" /\ con[c].kind = "watch" /\ Expired(cli[c].cursor) /\ Write(c, f)
    BY DEF WatchExpired
  <1>2. Oldest - 1 \in Nat
    <2>1. cli[c].cursor \in Nat
      BY ConTypes DEF ApiInv
    <2> QED BY <1>1, <2>1, ApiConstants DEF Expired
  <1>3. f \in FrameRow /\ f.kind = "cursor_expired" /\ f.events = <<>> /\ f.cursor = Oldest - 1
    BY <1>2 DEF Frame, FrameRow
  <1> HIDE DEF f
  <1>4. con' = [con EXCEPT ![c] = Send(c, f, "join")] /\ UNCHANGED <<last, server, cli>>
    BY <1>1, <1>3 DEF Write, After
  <1> QED BY <1>1, <1>3, <1>4, AnswerKeeps DEF Continues

LEMMA WatchStartKeeps == ASSUME ConstantsOK, ApiInv, NEW c \in Clients, WatchStart(c) PROVE ApiInv'
  <1> DEFINE v == cli[c].cursor
             r == [con[c] EXCEPT !.pc = "watch", !.prod = "run", !.made = v, !.sent = v]
  <1>1. con[c].pc = "read" /\ con[c].kind = "watch" /\ con' = [con EXCEPT ![c] = r] /\ UNCHANGED <<last, server, cli>>
    BY DEF WatchStart
  <1>2. ApiTypes /\ WorkerExact(c) /\ con[c] \in ConRow /\ v \in Nat
    BY ConTypes DEF ApiInv
  <1>3. /\ r \in ConRow /\ r.pc = "watch" /\ r.prod = "run" /\ r.made = v /\ r.sent = v /\ r.kind = con[c].kind
        /\ r.open = con[c].open /\ r.buf = con[c].buf /\ r.queue = con[c].queue /\ r.back = con[c].back /\ r.res = con[c].res
    BY <1>2 DEF ConRow, Pcs
  <1> HIDE DEF r
  <1>4. con'[c] = r /\ cli' = cli /\ UNCHANGED <<requested, streams, failed>>
    BY <1>1, <1>2 DEF ApiTypes, server
  <1>5. con[c].buf = <<>> /\ con[c].queue = <<>> /\ con[c].back = FALSE
    BY <1>1, <1>2, ConTypes DEF WorkerExact
  <1>6. WorkerExact(c)'
    BY <1>1, <1>2, <1>3, <1>4 DEF WorkerExact, Running
  <1>7. StreamExact(c)'
    BY <1>1, <1>3, <1>4, <1>5, ChainEmpty DEF StreamExact, OutEnd
  <1> QED BY <1>1, <1>3, <1>6, <1>7, WorkerKeeps DEF Running

\* A held write of a frame that continues goes out: the stream is where it said.
LEMMA UnblockKeeps == ASSUME ConstantsOK, ApiInv, NEW c \in Clients, Unblock(c) PROVE ApiInv'
  <1> DEFINE f == con[c].out[1]
             b == con[c].buf
             s == Send(c, f, After(f))
             o == <<>>
             r == [s EXCEPT !.out = o]
  <1>1. con[c].pc = "write" /\ CanWrite(c) /\ con' = [con EXCEPT ![c] = r] /\ UNCHANGED <<last, server, cli>>
    BY DEF Unblock
  <1>2. /\ ApiTypes /\ WorkerExact(c) /\ StreamExact(c) /\ con[c] \in ConRow /\ b \in Seq(FrameRow)
        /\ con[c].out \in Seq(FrameRow) /\ cli[c].cursor \in Nat /\ con[c].sent \in Nat
    BY ConTypes DEF ApiInv
  <1>3. Len(con[c].out) = 1 /\ f \in FrameRow
    BY <1>1, <1>2 DEF WorkerExact
  <1>4. After(f) \in {"watch", "join"} /\ After(f) \in Pcs /\ (f.kind = "events" <=> After(f) = "watch")
    BY DEF After, Pcs
  <1> HIDE DEF f
  <1>5. /\ s \in ConRow /\ s.kind = con[c].kind /\ s.open = con[c].open /\ s.queue = con[c].queue /\ s.prod = con[c].prod
        /\ s.back = con[c].back /\ s.made = con[c].made /\ s.res = con[c].res /\ s.buf = Append(b, f) /\ s.pc = After(f)
        /\ s.sent = IF f.kind = "events" THEN f.cursor ELSE con[c].sent
    BY <1>1, <1>2, <1>3, <1>4, SendIs
  <1> HIDE DEF s
  <1>6. /\ r \in ConRow /\ r.kind = con[c].kind /\ r.open = con[c].open /\ r.queue = con[c].queue /\ r.prod = con[c].prod
        /\ r.back = con[c].back /\ r.made = con[c].made /\ r.res = con[c].res /\ r.buf = s.buf /\ r.pc = s.pc
        /\ r.sent = s.sent
    <2>1. o \in Seq(FrameRow)
      OBVIOUS
    <2> HIDE DEF o
    <2> QED BY <1>5, <2>1 DEF ConRow
  <1> HIDE DEF r
  <1>7. con'[c] = r /\ cli' = cli /\ UNCHANGED <<requested, streams, failed>>
    BY <1>1, <1>2 DEF ApiTypes, server
  <1>8. /\ Append(b, f) \in Seq(FrameRow) /\ Len(Append(b, f)) = Len(b) + 1 /\ Len(Append(b, f)) <= Room
        /\ Append(b, f)[Len(b) + 1] = f /\ \A i \in 1..Len(b) : Append(b, f)[i] = b[i]
    <2>1. Len(b) \in Nat /\ Len(b) < Room
      BY <1>1, <1>2 DEF CanWrite
    <2> QED BY <1>2, <1>3, <2>1, AppendProperties, ApiConstants
  <1>9. /\ con[c].kind = "watch" => /\ Chain(Append(b, f), cli[c].cursor) /\ EndOf(Append(b, f), cli[c].cursor) = f.cursor
                                    /\ Continues(f, EndOf(b, cli[c].cursor))
    BY <1>1, <1>2, <1>3, ChainAppend DEF StreamExact, f
  <1>10. f.kind = "events" => con[c].kind = "watch" /\ con[c].prod # "none" /\ con[c].res = "ok"
    <2>1. SUFFICES ASSUME f.kind = "events" PROVE con[c].kind = "watch" /\ con[c].prod # "none" /\ con[c].res = "ok"
      OBVIOUS
    <2>2. con[c].kind = "watch"
      BY <1>1, <1>2, <2>1 DEF StreamExact, Answer, f
    <2> QED BY <1>1, <1>2, <2>1, <2>2 DEF WorkerExact, f
  <1>11. WorkerExact(c)'
    BY <1>1, <1>2, <1>4, <1>5, <1>6, <1>7, <1>8, <1>10 DEF WorkerExact, Running
  <1>12. StreamExact(c)'
    <2>1. CASE con[c].kind = "watch" /\ f.kind = "events"
      <3>1. /\ Chain(con[c].queue, f.cursor) /\ (\A i \in 1..Len(con[c].queue) : con[c].queue[i].kind = "events")
            /\ (con[c].back \/ con[c].made = EndOf(con[c].queue, f.cursor)) /\ (con[c].back => con[c].prod # "run")
        BY <1>1, <1>2, <1>10, <2>1 DEF StreamExact, OutEnd, f
      <3>2. con'[c].sent = f.cursor /\ con'[c].pc = "watch" /\ con'[c].buf = Append(b, f) /\ con'[c].queue = con[c].queue
            /\ con'[c].back = con[c].back /\ con'[c].made = con[c].made /\ con'[c].prod = con[c].prod /\ con'[c].kind = "watch"
        BY <1>4, <1>5, <1>6, <1>7, <2>1
      <3> QED BY <1>7, <1>9, <2>1, <3>1, <3>2 DEF StreamExact, OutEnd
    <2>2. CASE con[c].kind = "watch" /\ f.kind # "events"
      BY <1>4, <1>5, <1>6, <1>7, <1>9, <2>2 DEF StreamExact
    <2>3. CASE con[c].kind # "watch"
      <3>1. Answer(f) /\ \A i \in 1..Len(b) : Answer(b[i])
        BY <1>1, <1>2, <2>3 DEF StreamExact, f
      <3>2. \A i \in 1..Len(Append(b, f)) : Answer(Append(b, f)[i])
        <4>1. ASSUME NEW i \in 1..Len(Append(b, f)) PROVE Answer(Append(b, f)[i])
          <5>1. Len(b) \in Nat /\ (i \in 1..Len(b) \/ i = Len(b) + 1)
            BY <1>2, <1>8
          <5> QED BY <1>8, <3>1, <5>1
        <4> QED BY <4>1
      <3>3. con'[c].pc # "write" /\ con'[c].kind # "watch" /\ con'[c].buf = Append(b, f)
        BY <1>4, <1>5, <1>6, <1>7, <2>3
      <3> QED BY <3>2, <3>3 DEF StreamExact
    <2> QED BY <2>1, <2>2, <2>3
  <1>13. r.pc \in Running /\ con[c].pc \in Running
    BY <1>1, <1>4, <1>5, <1>6 DEF Running
  <1> QED BY <1>1, <1>6, <1>11, <1>12, <1>13, WorkerKeeps

LEMMA WriteFailsKeeps == ASSUME ConstantsOK, ApiInv, NEW c \in Clients, WriteFails(c) PROVE ApiInv'
  <1> DEFINE o == <<>>
             r == [con[c] EXCEPT !.pc = "join", !.out = o, !.res = "error"]
  <1>1. con[c].pc = "write" /\ con' = [con EXCEPT ![c] = r] /\ UNCHANGED <<last, server, cli>>
    BY DEF WriteFails
  <1>2. ApiTypes /\ WorkerExact(c) /\ StreamExact(c) /\ con[c] \in ConRow
    BY ConTypes DEF ApiInv
  <1>3. /\ r \in ConRow /\ r.pc = "join" /\ r.prod = con[c].prod /\ r.kind = con[c].kind
        /\ r.open = con[c].open /\ r.buf = con[c].buf /\ r.queue = con[c].queue
    <2>1. o \in Seq(FrameRow)
      OBVIOUS
    <2> HIDE DEF o
    <2> QED BY <1>2, <2>1 DEF ConRow, Pcs
  <1> HIDE DEF r
  <1>4. con'[c] = r /\ cli' = cli /\ UNCHANGED <<requested, streams, failed>>
    BY <1>1, <1>2 DEF ApiTypes, server
  <1>5. WorkerExact(c)'
    BY <1>1, <1>2, <1>3, <1>4 DEF WorkerExact, Running
  <1>6. StreamExact(c)'
    BY <1>1, <1>2, <1>3, <1>4 DEF StreamExact
  <1> QED BY <1>1, <1>3, <1>5, <1>6, WorkerKeeps DEF Running

LEMMA StopWatchKeeps == ASSUME ConstantsOK, ApiInv, NEW c \in Clients, StopWatch(c) PROVE ApiInv'
  <1> DEFINE r == [con[c] EXCEPT !.pc = "join"]
  <1>1. con[c].pc = "watch" /\ con' = [con EXCEPT ![c] = r] /\ UNCHANGED <<last, server, cli>>
    BY DEF StopWatch
  <1>2. ApiTypes /\ WorkerExact(c) /\ StreamExact(c) /\ con[c] \in ConRow
    BY ConTypes DEF ApiInv
  <1>3. /\ r \in ConRow /\ r.pc = "join" /\ r.prod = con[c].prod /\ r.kind = con[c].kind
        /\ r.open = con[c].open /\ r.buf = con[c].buf /\ r.queue = con[c].queue
    BY <1>2 DEF ConRow, Pcs
  <1> HIDE DEF r
  <1>4. con'[c] = r /\ cli' = cli /\ UNCHANGED <<requested, streams, failed>>
    BY <1>1, <1>2 DEF ApiTypes, server
  <1>5. WorkerExact(c)'
    BY <1>1, <1>2, <1>3, <1>4 DEF WorkerExact, Running
  <1>6. StreamExact(c)'
    BY <1>1, <1>2, <1>3, <1>4 DEF StreamExact
  <1> QED BY <1>1, <1>3, <1>5, <1>6, WorkerKeeps DEF Running

\* A change of the producer's state alone.
LEMMA ProducerEndKeeps ==
  ASSUME ConstantsOK, ApiInv, NEW c \in Clients, ProducerFails(c) \/ ProducerStops(c)
  PROVE  ApiInv'
  <1>1. PICK p \in {"failed", "done"} : con' = [con EXCEPT ![c] = [con[c] EXCEPT !.prod = p]]
    BY DEF ProducerFails, ProducerStops
  <1> DEFINE r == [con[c] EXCEPT !.prod = p]
  <1>2. con[c].prod = "run" /\ UNCHANGED <<last, server, cli>>
    BY DEF ProducerFails, ProducerStops
  <1>3. ApiTypes /\ WorkerExact(c) /\ StreamExact(c) /\ con[c] \in ConRow
    BY ConTypes DEF ApiInv
  <1>4. /\ r \in ConRow /\ r.pc = con[c].pc /\ r.prod = p /\ r.kind = con[c].kind
        /\ r.open = con[c].open /\ r.buf = con[c].buf /\ r.queue = con[c].queue /\ r.out = con[c].out /\ r.back = con[c].back
        /\ r.made = con[c].made /\ r.sent = con[c].sent /\ r.res = con[c].res
    BY <1>3 DEF ConRow
  <1> HIDE DEF r
  <1>5. con'[c] = r /\ cli' = cli /\ UNCHANGED <<requested, streams, failed>>
    BY <1>1, <1>2, <1>3 DEF ApiTypes, server, r
  <1>6. con[c].pc \in {"watch", "write", "join"}
    BY <1>2, <1>3 DEF WorkerExact
  <1>7. WorkerExact(c)'
    BY <1>2, <1>3, <1>4, <1>5, <1>6 DEF WorkerExact, Running
  <1>8. StreamExact(c)'
    BY <1>2, <1>3, <1>4, <1>5 DEF StreamExact, OutEnd
  <1>9. con' = [con EXCEPT ![c] = r] /\ r.pc \in Running /\ con[c].pc \in Running
    BY <1>1, <1>4, <1>6 DEF r, Running
  <1> QED BY <1>2, <1>4, <1>7, <1>8, <1>9, WorkerKeeps

\* The producer queues the batch after the one it queued last, or gives up.
LEMMA ProduceKeeps == ASSUME ConstantsOK, ApiInv, NEW c \in Clients, Produce(c) PROVE ApiInv'
  <1> DEFINE b == Batch(c)
             f == Frame("events", Last(b), b)
             q == con[c].queue
             r == IF Len(q) < QueueBound
                    THEN [con[c] EXCEPT !.queue = Append(q, f), !.made = Last(b)]
                    ELSE [con[c] EXCEPT !.back = TRUE, !.prod = "done", !.made = Last(b)]
  <1>1. /\ con[c].prod = "run" /\ con[c].pc \in {"watch", "write"} /\ b # <<>> /\ UNCHANGED <<last, server, cli>>
        /\ con' = [con EXCEPT ![c] = r]
    <2>1. con[c].prod = "run" /\ con[c].pc \in {"watch", "write"} /\ b # <<>> /\ UNCHANGED <<last, server, cli>>
      BY DEF Produce
    <2>2. con' = [con EXCEPT ![c] = r]
      <3>1. CASE Len(q) < QueueBound
        BY <3>1 DEF Produce
      <3>2. CASE ~(Len(q) < QueueBound)
        BY <3>2 DEF Produce
      <3> QED BY <3>1, <3>2
    <2> QED BY <2>1, <2>2
  <1>2. ApiTypes /\ WorkerExact(c) /\ StreamExact(c) /\ con[c] \in ConRow /\ q \in Seq(FrameRow)
    BY ConTypes DEF ApiInv
  <1>3. Last(b) \in Nat /\ f \in FrameRow /\ Continues(f, con[c].made) /\ f.cursor = Last(b) /\ f.kind = "events"
    BY <1>1, <1>2, BatchContinues
  <1> HIDE DEF b, f
  <1>4. /\ con[c].kind = "watch" /\ Chain(q, OutEnd(c)) /\ ~con[c].back /\ con[c].made = EndOf(q, OutEnd(c))
        /\ \A i \in 1..Len(q) : q[i].kind = "events"
    <2>1. con[c].kind = "watch"
      BY <1>1, <1>2 DEF WorkerExact
    <2> QED BY <1>1, <1>2, <2>1 DEF StreamExact
  <1>5. CASE Len(q) < QueueBound
    <2> DEFINE a == Append(q, f)
    <2>1. /\ a \in Seq(FrameRow) /\ Len(a) = Len(q) + 1 /\ Chain(a, OutEnd(c)) /\ EndOf(a, OutEnd(c)) = f.cursor
          /\ a[Len(q) + 1] = f /\ \A i \in 1..Len(q) : a[i] = q[i]
      BY <1>2, <1>3, <1>4, ChainAppend, AppendProperties
    <2>2. Len(a) <= QueueBound /\ \A i \in 1..Len(a) : a[i].kind = "events"
      <3>1. Len(q) \in Nat
        BY <1>2
      <3>2. ASSUME NEW i \in 1..Len(a) PROVE a[i].kind = "events"
        <4>1. i \in 1..Len(q) \/ i = Len(q) + 1
          BY <2>1, <3>1
        <4> QED BY <1>3, <1>4, <2>1, <4>1
      <3>3. Len(a) <= QueueBound
        BY <1>5, <2>1, <3>1, ApiConstants
      <3> QED BY <3>2, <3>3
    <2> HIDE DEF a
    <2>3. r = [con[c] EXCEPT !.queue = a, !.made = Last(b)]
      BY <1>5 DEF a
    <2>4. /\ r \in ConRow /\ r.pc = con[c].pc /\ r.prod = con[c].prod /\ r.kind = con[c].kind
          /\ r.open = con[c].open /\ r.buf = con[c].buf /\ r.queue = a /\ r.out = con[c].out /\ r.back = con[c].back
          /\ r.made = Last(b) /\ r.sent = con[c].sent /\ r.res = con[c].res
      BY <1>2, <1>3, <2>1, <2>3 DEF ConRow
    <2> HIDE DEF r
    <2>5. con'[c] = r /\ cli' = cli /\ UNCHANGED <<requested, streams, failed>>
      BY <1>1, <1>2 DEF ApiTypes, server
    <2>6. WorkerExact(c)'
      BY <1>1, <1>2, <2>2, <2>4, <2>5 DEF WorkerExact, Running
    <2>7. OutEnd(c)' = OutEnd(c)
      BY <2>4, <2>5 DEF OutEnd
    <2>8. StreamExact(c)'
      <3>1. /\ Chain(con[c].buf, cli[c].cursor)
            /\ con[c].pc = "write" => Continues(con[c].out[1], EndOf(con[c].buf, cli[c].cursor))
            /\ EndOf(con[c].buf, cli[c].cursor) = con[c].sent
        BY <1>1, <1>2, <1>4 DEF StreamExact
      <3> QED BY <1>1, <1>3, <1>4, <2>1, <2>2, <2>4, <2>5, <2>7, <3>1 DEF StreamExact
    <2> QED BY <1>1, <2>4, <2>6, <2>8, WorkerKeeps DEF Running
  <1>6. CASE ~(Len(q) < QueueBound)
    <2>1. r = [con[c] EXCEPT !.back = TRUE, !.prod = "done", !.made = Last(b)]
      BY <1>6
    <2>2. /\ r \in ConRow /\ r.pc = con[c].pc /\ r.prod = "done" /\ r.kind = con[c].kind
          /\ r.open = con[c].open /\ r.buf = con[c].buf /\ r.queue = q /\ r.out = con[c].out /\ r.back = TRUE
          /\ r.sent = con[c].sent /\ r.res = con[c].res
      BY <1>2, <1>3, <2>1 DEF ConRow
    <2> HIDE DEF r
    <2>3. con'[c] = r /\ cli' = cli /\ UNCHANGED <<requested, streams, failed>>
      BY <1>1, <1>2 DEF ApiTypes, server
    <2>4. WorkerExact(c)'
      BY <1>1, <1>2, <2>2, <2>3 DEF WorkerExact, Running
    <2>5. OutEnd(c)' = OutEnd(c)
      BY <2>2, <2>3 DEF OutEnd
    <2>6. StreamExact(c)'
      BY <1>1, <1>2, <1>4, <2>2, <2>3, <2>5 DEF StreamExact
    <2> QED BY <1>1, <2>2, <2>4, <2>6, WorkerKeeps DEF Running
  <1> QED BY <1>5, <1>6

\* What a stream is when its writer looks at it.
LEMMA WatchSays ==
  ASSUME ApiInv, NEW c \in Clients, con[c].pc = "watch"
  PROVE  /\ ApiTypes /\ WorkerExact(c) /\ con[c].kind = "watch" /\ con[c].prod # "none"
         /\ Chain(con[c].buf, cli[c].cursor) /\ EndOf(con[c].buf, cli[c].cursor) = con[c].sent
         /\ Chain(con[c].queue, con[c].sent) /\ (con[c].back \/ con[c].made = EndOf(con[c].queue, con[c].sent))
         /\ \A i \in 1..Len(con[c].queue) : con[c].queue[i].kind = "events"
         /\ con[c].back => con[c].prod # "run"
         /\ con[c].buf \in Seq(FrameRow) /\ con[c].queue \in Seq(FrameRow) /\ con[c].sent \in Nat
  <1>1. ApiTypes /\ WorkerExact(c) /\ StreamExact(c)
    BY DEF ApiInv
  <1>2. con[c].kind = "watch" /\ con[c].prod # "none"
    BY <1>1 DEF WorkerExact
  <1>3. con[c].buf \in Seq(FrameRow) /\ con[c].queue \in Seq(FrameRow) /\ con[c].sent \in Nat
    BY <1>1, ConTypes
  <1> QED BY <1>1, <1>2, <1>3 DEF StreamExact, OutEnd

LEMMA DisconnectKeeps == ASSUME ConstantsOK, ApiInv, NEW c \in Clients, Disconnect(c) PROVE ApiInv'
  <1> DEFINE v == con[c].sent
             b == con[c].buf
             f == Frame("disconnect", v, <<>>)
             r == Send(c, f, "join")
  <1>1. con[c].pc = "watch" /\ Write(c, f)
    BY DEF Disconnect, Resume
  <1>2. /\ ApiTypes /\ WorkerExact(c) /\ con[c].kind = "watch" /\ con[c].prod # "none"
        /\ Chain(b, cli[c].cursor) /\ EndOf(b, cli[c].cursor) = v
        /\ Chain(con[c].queue, v) /\ (con[c].back \/ con[c].made = EndOf(con[c].queue, v))
        /\ \A i \in 1..Len(con[c].queue) : con[c].queue[i].kind = "events"
        /\ con[c].back => con[c].prod # "run"
        /\ b \in Seq(FrameRow) /\ v \in Nat
    BY <1>1, WatchSays
  <1>3. f \in FrameRow /\ f.kind = "disconnect" /\ f.events = <<>> /\ f.cursor = v
    BY <1>2 DEF Frame, FrameRow
  <1> HIDE DEF f
  <1>4. con' = [con EXCEPT ![c] = r] /\ UNCHANGED <<last, server, cli>>
    BY <1>1, <1>3 DEF Write, After
  <1>5. Continues(f, v)
    BY <1>3 DEF Continues
  <1>6. /\ r \in ConRow /\ r.kind = con[c].kind /\ r.open = con[c].open /\ r.queue = con[c].queue /\ r.prod = con[c].prod
        /\ r.back = con[c].back /\ r.res = con[c].res /\ r.made = con[c].made
        /\ CanWrite(c) => r.buf = Append(b, f) /\ r.pc = "join"
        /\ ~CanWrite(c) => r.buf = b /\ r.pc = "write" /\ r.out = <<f>> /\ r.sent = v
    BY <1>2, <1>3, SendIs DEF Pcs
  <1> HIDE DEF r
  <1>7. con'[c] = r /\ cli' = cli /\ UNCHANGED <<requested, streams, failed>>
    BY <1>2, <1>4 DEF ApiTypes, server
  <1>8. /\ Chain(Append(b, f), cli[c].cursor) /\ Len(Append(b, f)) = Len(b) + 1
    BY <1>2, <1>3, <1>5, ChainAppend
  <1>9. WorkerExact(c)'
    <2>1. CanWrite(c) => Len(Append(b, f)) <= Room
      BY <1>2, <1>8, ApiConstants DEF CanWrite
    <2>2. CASE CanWrite(c)
      BY <1>1, <1>2, <1>6, <1>7, <2>1, <2>2 DEF WorkerExact, Running
    <2>3. CASE ~CanWrite(c)
      <3>2. Len(<<f>>) = 1
        OBVIOUS
      <3>1. Len(r.out) = 1
        BY <1>6, <2>3, <3>2
      <3> QED BY <1>1, <1>2, <1>6, <1>7, <2>3, <3>1 DEF WorkerExact, Running
    <2> QED BY <2>2, <2>3
  <1>10. StreamExact(c)'
    <2>1. CASE CanWrite(c)
      BY <1>2, <1>6, <1>7, <1>8, <2>1 DEF StreamExact
    <2>2. CASE ~CanWrite(c)
      <3>1. con'[c].out[1] = f /\ OutEnd(c)' = v
        BY <1>3, <1>6, <1>7, <2>2 DEF OutEnd
      <3> QED BY <1>2, <1>5, <1>6, <1>7, <2>2, <3>1 DEF StreamExact
    <2> QED BY <2>1, <2>2
  <1>11. r.pc \in Running /\ con[c].pc \in Running
    BY <1>1, <1>6 DEF Running
  <1> QED BY <1>4, <1>6, <1>9, <1>10, <1>11, WorkerKeeps

LEMMA SendEventsKeeps == ASSUME ConstantsOK, ApiInv, NEW c \in Clients, SendEvents(c) PROVE ApiInv'
  <1> DEFINE v == con[c].sent
             b == con[c].buf
             f == Head(con[c].queue)
             t == Tail(con[c].queue)
             s == Send(c, f, "watch")
             r == [s EXCEPT !.queue = t]
  <1>1. con[c].pc = "watch" /\ ~con[c].back /\ con[c].queue # <<>> /\ UNCHANGED <<last, server, cli>>
    BY DEF SendEvents
  <1>2. /\ ApiTypes /\ WorkerExact(c) /\ con[c].kind = "watch" /\ con[c].prod # "none"
        /\ Chain(b, cli[c].cursor) /\ EndOf(b, cli[c].cursor) = v
        /\ Chain(con[c].queue, v) /\ con[c].made = EndOf(con[c].queue, v)
        /\ \A i \in 1..Len(con[c].queue) : con[c].queue[i].kind = "events"
        /\ b \in Seq(FrameRow) /\ con[c].queue \in Seq(FrameRow) /\ v \in Nat
    BY <1>1, WatchSays
  <1>3. /\ Continues(f, v) /\ Chain(t, f.cursor) /\ EndOf(t, f.cursor) = con[c].made
        /\ f \in FrameRow /\ t \in Seq(FrameRow) /\ Len(t) = Len(con[c].queue) - 1
        /\ \A i \in 1..Len(t) : t[i] = con[c].queue[i + 1]
    BY <1>1, <1>2, ChainTail
  <1>4. f.kind = "events" /\ (\A i \in 1..Len(t) : t[i].kind = "events") /\ Len(t) <= QueueBound
    <2>1. Len(con[c].queue) \in Nat \ {0} /\ f = con[c].queue[1]
      BY <1>1, <1>2, EmptySeq
    <2>2. ASSUME NEW i \in 1..Len(t) PROVE i + 1 \in 1..Len(con[c].queue)
      BY <1>3, <2>1
    <2>3. Len(t) <= QueueBound
      BY <1>2, <1>3, <2>1, ApiConstants DEF WorkerExact
    <2> QED BY <1>2, <1>3, <2>1, <2>2, <2>3
  <1> HIDE DEF f, t
  <1>5. /\ s \in ConRow /\ s.kind = con[c].kind /\ s.open = con[c].open /\ s.queue = con[c].queue /\ s.prod = con[c].prod
        /\ s.back = con[c].back /\ s.made = con[c].made /\ s.res = con[c].res
        /\ CanWrite(c) => s.buf = Append(b, f) /\ s.pc = "watch" /\ s.sent = f.cursor
        /\ ~CanWrite(c) => s.buf = b /\ s.pc = "write" /\ s.out = <<f>> /\ s.sent = v
    BY <1>2, <1>3, <1>4, SendIs DEF Pcs
  <1>6. con' = [con EXCEPT ![c] = r]
    BY <1>5 DEF SendEvents, f, t
  <1> HIDE DEF s
  <1>7. /\ r \in ConRow /\ r.kind = s.kind /\ r.open = s.open /\ r.queue = t /\ r.prod = s.prod
        /\ r.back = s.back /\ r.made = s.made /\ r.res = s.res /\ r.buf = s.buf /\ r.pc = s.pc
        /\ r.sent = s.sent /\ r.out = s.out
    BY <1>3, <1>5 DEF ConRow
  <1> HIDE DEF r
  <1>8. con'[c] = r /\ cli' = cli /\ UNCHANGED <<requested, streams, failed>>
    BY <1>1, <1>2, <1>6 DEF ApiTypes, server
  <1>9. /\ Chain(Append(b, f), cli[c].cursor) /\ EndOf(Append(b, f), cli[c].cursor) = f.cursor
        /\ Len(Append(b, f)) = Len(b) + 1
    BY <1>2, <1>3, ChainAppend
  <1>10. WorkerExact(c)'
    <2>1. CanWrite(c) => Len(Append(b, f)) <= Room
      BY <1>2, <1>9, ApiConstants DEF CanWrite
    <2>2. s.pc = "write" => Len(s.out) = 1
      BY <1>5
    <2> QED BY <1>1, <1>2, <1>4, <1>5, <1>7, <1>8, <2>1, <2>2 DEF WorkerExact, Running
  <1>11. StreamExact(c)'
    <2>1. CASE CanWrite(c)
      <3>1. OutEnd(c)' = f.cursor
        BY <1>5, <1>7, <1>8, <2>1 DEF OutEnd
      <3>2. /\ con'[c].kind = "watch" /\ con'[c].buf = Append(b, f) /\ con'[c].pc = "watch" /\ con'[c].sent = f.cursor
            /\ con'[c].queue = t /\ con'[c].back = con[c].back /\ con'[c].made = con[c].made /\ cli'[c].cursor = cli[c].cursor
        BY <1>2, <1>5, <1>7, <1>8, <2>1
      <3> QED BY <1>1, <1>3, <1>4, <1>9, <3>1, <3>2 DEF StreamExact
    <2>2. CASE ~CanWrite(c)
      <3>1. con'[c].out[1] = f /\ OutEnd(c)' = f.cursor
        BY <1>5, <1>7, <1>8, <2>2 DEF OutEnd
      <3>2. /\ con'[c].kind = "watch" /\ con'[c].buf = b /\ con'[c].pc = "write" /\ con'[c].sent = v
            /\ con'[c].queue = t /\ con'[c].back = con[c].back /\ con'[c].made = con[c].made /\ cli'[c].cursor = cli[c].cursor
        BY <1>2, <1>5, <1>7, <1>8, <2>2
      <3> QED BY <1>1, <1>2, <1>3, <1>4, <3>1, <3>2 DEF StreamExact
    <2> QED BY <2>1, <2>2
  <1>12. r.pc \in Running /\ con[c].pc \in Running
    BY <1>1, <1>5, <1>7 DEF Running
  <1> QED BY <1>1, <1>6, <1>7, <1>10, <1>11, <1>12, WorkerKeeps

\* A worker that ends gives its permit and its registration back.
LEMMA EndKeeps ==
  ASSUME ConstantsOK, ApiInv, NEW c \in Clients, NEW ok \in BOOLEAN, End(c, ok), con[c].pc \in {"read", "join"},
         con[c].prod # "run"
  PROVE  ApiInv'
  <1> DEFINE o == <<>>
             res == IF ok \/ requested THEN "ok" ELSE "error"
             r == [con[c] EXCEPT !.pc = "done", !.open = FALSE, !.queue = o, !.res = res]
  <1>1. /\ con' = [con EXCEPT ![c] = r] /\ active' = active - 1 /\ streams' = streams \ {c}
        /\ UNCHANGED <<last, loop, asked, requested, failed, daemon, cli>>
    BY DEF End, Finish
  <1>2. ApiTypes /\ LoopExact /\ WorkerExact(c) /\ StreamExact(c) /\ con[c] \in ConRow /\ IsFiniteSet(Clients)
        /\ con[c].pc \in Running /\ active <= MaxClients /\ con \in [Clients -> ConRow]
    BY ConTypes, ApiConstants DEF ApiInv, Running, ApiTypes
  <1>3. o \in Seq(FrameRow) /\ Len(o) = 0 /\ res \in {"ok", "error"}
    OBVIOUS
  <1> HIDE DEF o, res
  <1>4. /\ r \in ConRow /\ r.pc = "done" /\ r.prod = con[c].prod /\ r.kind = con[c].kind /\ r.buf = con[c].buf
        /\ r.queue = o
    BY <1>2, <1>3 DEF ConRow, Pcs
  <1> HIDE DEF r
  <1>5. con' \in [Clients -> ConRow] /\ con'[c] = r /\ \A q \in Clients : q # c => con'[q] = con[q]
    BY <1>1, <1>2, <1>4
  <1>6. PermitsExact' /\ active' <= MaxClients
    <2> DEFINE busy == {q \in Clients : con[q].pc \in Running}
    <2>1. {q \in Clients : con'[q].pc \in Running} = busy \ {c}
      BY <1>4, <1>5 DEF Running
    <2>2. IsFiniteSet(busy) /\ c \in busy
      BY <1>2, FS_Subset
    <2>3. Cardinality(busy) \in Nat /\ Cardinality(busy \ {c}) = Cardinality(busy) - 1
      BY <2>2, FS_RemoveElement, FS_CardinalityType
    <2>4. active = Cardinality(busy)
      BY DEF ApiInv, PermitsExact
    <2>5. active - 1 <= MaxClients
      BY <1>2, <2>3, <2>4, ApiConstants
    <2> QED BY <1>1, <2>1, <2>3, <2>4, <2>5 DEF PermitsExact
  <1>7. ApiTypes'
    BY <1>1, <1>2, <1>5 DEF ApiTypes
  <1>8. LoopExact'
    BY <1>1, <1>2, <1>4, <1>5 DEF LoopExact, Running
  <1>9. ReadExact'
    BY <1>1 DEF ApiInv, ReadExact
  <1>10. WorkerExact(c)'
    BY <1>1, <1>2, <1>3, <1>4, <1>5, ApiConstants DEF WorkerExact, Running
  <1>11. StreamExact(c)'
    BY <1>1, <1>2, <1>4, <1>5 DEF StreamExact
  <1>12. ASSUME NEW q \in Clients PROVE WorkerExact(q)' /\ StreamExact(q)'
    <2>1. CASE q = c
      BY <1>10, <1>11, <2>1
    <2>2. CASE q # c
      BY <1>1, <1>5, <2>2, OtherKeeps
    <2> QED BY <2>1, <2>2
  <1> QED BY <1>6, <1>7, <1>8, <1>9, <1>12 DEF ApiInv

LEMMA EndsKeep ==
  ASSUME ConstantsOK, ApiInv, NEW c \in Clients, SeesShutdown(c) \/ BadRequest(c) \/ JoinProducer(c)
  PROVE  ApiInv'
  <1>1. WorkerExact(c)
    BY DEF ApiInv
  <1>2. CASE SeesShutdown(c)
    BY <1>1, <1>2, EndKeeps DEF SeesShutdown, WorkerExact
  <1>3. CASE BadRequest(c)
    BY <1>1, <1>3, EndKeeps DEF BadRequest, WorkerExact
  <1>4. CASE JoinProducer(c)
    <2> DEFINE ok == con[c].res = "ok" /\ con[c].prod # "failed"
    <2>1. ok \in BOOLEAN /\ End(c, ok) /\ con[c].pc = "join" /\ con[c].prod # "run"
      BY <1>4 DEF JoinProducer
    <2> HIDE DEF ok
    <2> QED BY <2>1, EndKeeps
  <1> QED BY <1>2, <1>3, <1>4

\* A connection gets a permit.
LEMMA AcceptKeeps == ASSUME ConstantsOK, ApiInv, NEW c \in Clients, Accept(c) PROVE ApiInv'
  <1> DEFINE r == [con[c] EXCEPT !.pc = "read"]
  <1>1. /\ loop = "serving" /\ con[c].pc = "backlog" /\ active < MaxClients /\ con' = [con EXCEPT ![c] = r]
        /\ active' = active + 1 /\ streams' = streams \cup {c}
        /\ UNCHANGED <<last, loop, asked, requested, failed, daemon, cli>>
    BY DEF Accept, Admits, Registered
  <1>2. ApiTypes /\ LoopExact /\ WorkerExact(c) /\ StreamExact(c) /\ con[c] \in ConRow /\ IsFiniteSet(Clients)
        /\ con \in [Clients -> ConRow] /\ ~requested
    BY <1>1, ConTypes, ApiConstants DEF ApiInv, ApiTypes, LoopExact
  <1>3. /\ r \in ConRow /\ r.pc = "read" /\ r.prod = con[c].prod /\ r.kind = con[c].kind /\ r.buf = con[c].buf
        /\ r.queue = con[c].queue /\ r.back = con[c].back /\ r.res = con[c].res
    BY <1>2 DEF ConRow, Pcs
  <1> HIDE DEF r
  <1>4. con' \in [Clients -> ConRow] /\ con'[c] = r /\ \A q \in Clients : q # c => con'[q] = con[q]
    BY <1>1, <1>2, <1>3
  <1>5. PermitsExact' /\ active' <= MaxClients
    <2> DEFINE busy == {q \in Clients : con[q].pc \in Running}
    <2>1. {q \in Clients : con'[q].pc \in Running} = busy \cup {c}
      BY <1>3, <1>4 DEF Running
    <2>2. IsFiniteSet(busy) /\ c \notin busy
      BY <1>1, <1>2, FS_Subset DEF Running
    <2>3. Cardinality(busy) \in Nat /\ Cardinality(busy \cup {c}) = Cardinality(busy) + 1
      BY <2>2, FS_AddElement, FS_CardinalityType
    <2>4. active = Cardinality(busy)
      BY DEF ApiInv, PermitsExact
    <2>5. active + 1 <= MaxClients
      BY <1>1, <2>3, <2>4, ApiConstants
    <2> QED BY <1>1, <2>1, <2>3, <2>4, <2>5 DEF PermitsExact
  <1>6. ApiTypes'
    BY <1>1, <1>2, <1>4 DEF ApiTypes
  <1>7. LoopExact'
    BY <1>1, <1>2 DEF LoopExact
  <1>8. ReadExact'
    BY <1>1 DEF ApiInv, ReadExact
  <1>9. WorkerExact(c)'
    BY <1>1, <1>2, <1>3, <1>4 DEF WorkerExact, Running
  <1>10. StreamExact(c)'
    BY <1>1, <1>2, <1>3, <1>4 DEF StreamExact
  <1>11. ASSUME NEW q \in Clients PROVE WorkerExact(q)' /\ StreamExact(q)'
    <2>1. CASE q = c
      BY <1>9, <1>10, <2>1
    <2>2. CASE q # c
      BY <1>1, <1>4, <2>2, OtherKeeps
    <2> QED BY <2>1, <2>2
  <1> QED BY <1>5, <1>6, <1>7, <1>8, <1>11 DEF ApiInv

LEMMA RefuseKeeps == ASSUME ConstantsOK, ApiInv, NEW c \in Clients, Refuse(c) PROVE ApiInv'
  <1> DEFINE f == Frame("refused", 0, <<>>)
             b == IF CanWrite(c) THEN <<f>> ELSE <<>>
             r == [con[c] EXCEPT !.pc = "collected", !.open = FALSE, !.buf = b]
  <1>1. /\ loop = "serving" /\ ~failed /\ con[c].pc = "backlog" /\ con' = [con EXCEPT ![c] = r] /\ failed' \in BOOLEAN
        /\ UNCHANGED <<last, loop, asked, requested, streams, active, daemon, cli>>
    BY DEF Refuse
  <1>2. ApiTypes /\ WorkerExact(c) /\ con[c] \in ConRow /\ con[c].buf \in Seq(FrameRow) /\ cli[c] \in CliRow
        /\ HasRead(cli[c].from, cli[c].cursor, cli[c].got) /\ cli' = [cli EXCEPT ![c] = cli[c]]
    BY <1>1, ConTypes DEF ApiInv, ReadExact, ApiTypes
  <1>3. f \in FrameRow /\ f.kind = "refused" /\ f.events = <<>>
    BY DEF Frame, FrameRow
  <1> HIDE DEF f
  <1>4. /\ b \in Seq(FrameRow) /\ Len(b) <= Room /\ (b = <<>> \/ Refused(b))
        /\ \A i \in 1..Len(b) : Answer(b[i])
    <2>1. CASE CanWrite(c)
      <3>1. b = <<f>> /\ Len(<<f>>) = 1 /\ <<f>>[1] = f /\ <<f>> \in Seq(FrameRow)
        BY <1>3, <2>1
      <3>2. 1 <= Room
        BY <1>2, <2>1, ApiConstants DEF CanWrite
      <3> QED BY <1>3, <3>1, <3>2 DEF Refused, Answer
    <2>2. CASE ~CanWrite(c)
      BY <2>2, ApiConstants
    <2> QED BY <2>1, <2>2
  <1> HIDE DEF b
  <1>5. /\ r \in ConRow /\ r.pc = "collected" /\ r.prod = con[c].prod /\ r.kind = con[c].kind /\ r.buf = b
        /\ r.queue = con[c].queue /\ r.res = con[c].res
    BY <1>2, <1>4 DEF ConRow, Pcs
  <1> HIDE DEF r
  <1>6. con'[c] = r
    BY <1>1, <1>2 DEF ApiTypes
  <1>7. WorkerExact(c)'
    BY <1>1, <1>2, <1>4, <1>5, <1>6 DEF WorkerExact, Running
  <1>8. StreamExact(c)'
    BY <1>4, <1>5, <1>6, ChainEmpty DEF StreamExact
  <1> QED BY <1>1, <1>2, <1>5, <1>7, <1>8, ConKeeps DEF Running

LEMMA CollectKeeps == ASSUME ConstantsOK, ApiInv, NEW c \in Clients, Collect(c) PROVE ApiInv'
  <1> DEFINE r == [con[c] EXCEPT !.pc = "collected"]
  <1>1. /\ con[c].pc = "done" /\ con' = [con EXCEPT ![c] = r] /\ failed' = (failed \/ con[c].res = "error")
        /\ UNCHANGED <<last, loop, asked, requested, streams, active, daemon, cli>>
    BY DEF Collect
  <1>2. ApiTypes /\ WorkerExact(c) /\ StreamExact(c) /\ con[c] \in ConRow /\ cli[c] \in CliRow /\ failed' \in BOOLEAN
        /\ HasRead(cli[c].from, cli[c].cursor, cli[c].got) /\ cli' = [cli EXCEPT ![c] = cli[c]]
    BY <1>1, ConTypes DEF ApiInv, ReadExact, ApiTypes
  <1>3. /\ r \in ConRow /\ r.pc = "collected" /\ r.prod = con[c].prod /\ r.kind = con[c].kind /\ r.buf = con[c].buf
        /\ r.queue = con[c].queue /\ r.res = con[c].res
    BY <1>2 DEF ConRow, Pcs
  <1> HIDE DEF r
  <1>4. con'[c] = r
    BY <1>1, <1>2 DEF ApiTypes
  <1>5. WorkerExact(c)'
    BY <1>1, <1>2, <1>3, <1>4 DEF WorkerExact, Running
  <1>6. StreamExact(c)'
    BY <1>1, <1>2, <1>3, <1>4 DEF StreamExact
  <1>7. failed => failed'
    BY <1>1
  <1> QED BY <1>1, <1>2, <1>3, <1>5, <1>6, <1>7, ConKeeps DEF Running

\* The shutdown closes the streams that are registered: all of them.
LEMMA StopServingKeeps == ASSUME ConstantsOK, ApiInv, StopServing PROVE ApiInv'
  <1> DEFINE n == [NoCon EXCEPT !.pc = "collected"]
             r(c) == [con[c] EXCEPT !.open = @ /\ c \notin streams]
  <1>1. /\ loop = "serving" /\ loop' = "joining" /\ requested' = TRUE /\ streams' = {}
        /\ con' = [c \in Clients |-> IF con[c].pc = "backlog" THEN n ELSE r(c)]
        /\ UNCHANGED <<last, asked, active, failed, daemon, cli>>
    BY DEF StopServing
  <1>2. ApiTypes /\ LoopExact /\ ~requested /\ \A c \in Clients : WorkerExact(c) /\ StreamExact(c)
    BY <1>1 DEF ApiInv, LoopExact
  <1>3. n \in ConRow /\ n.pc = "collected" /\ n.kind = "none" /\ n.buf = <<>> /\ n.queue = <<>> /\ n.prod = "none"
        /\ n.res = "ok"
    BY NoConIs DEF ConRow, Pcs
  <1>4. ASSUME NEW c \in Clients
        PROVE  /\ r(c) \in ConRow /\ r(c).pc = con[c].pc /\ r(c).kind = con[c].kind /\ r(c).buf = con[c].buf
               /\ r(c).out = con[c].out /\ r(c).queue = con[c].queue /\ r(c).prod = con[c].prod /\ r(c).back = con[c].back
               /\ r(c).made = con[c].made /\ r(c).sent = con[c].sent /\ r(c).res = con[c].res
               /\ c \in streams => ~r(c).open
    <2> DEFINE o == con[c].open /\ c \notin streams
               s == [con[c] EXCEPT !.open = o]
    <2>1. con[c] \in ConRow /\ r(c) = s
      BY <1>2, ConTypes
    <2>2. o \in BOOLEAN /\ (c \in streams => ~o)
      BY <2>1 DEF ConRow
    <2> HIDE DEF o
    <2>3. /\ s \in ConRow /\ s.pc = con[c].pc /\ s.kind = con[c].kind /\ s.buf = con[c].buf
          /\ s.out = con[c].out /\ s.queue = con[c].queue /\ s.prod = con[c].prod /\ s.back = con[c].back
          /\ s.made = con[c].made /\ s.sent = con[c].sent /\ s.res = con[c].res /\ s.open = o
      BY <2>1, <2>2 DEF ConRow
    <2> HIDE DEF s
    <2> QED BY <2>1, <2>2, <2>3
  <1> HIDE DEF n, r
  <1>5. con' \in [Clients -> ConRow] /\ \A c \in Clients : con'[c] = IF con[c].pc = "backlog" THEN n ELSE r(c)
    BY <1>1, <1>3, <1>4
  <1>6. {c \in Clients : con'[c].pc \in Running} = {c \in Clients : con[c].pc \in Running}
    BY <1>3, <1>4, <1>5 DEF Running
  <1>7. ApiTypes' /\ LoopExact' /\ ReadExact'
    BY <1>1, <1>2, <1>5 DEF ApiTypes, LoopExact, ApiInv, ReadExact
  <1>8. PermitsExact' /\ active' <= MaxClients
    BY <1>1, <1>6 DEF ApiInv, PermitsExact, Running
  <1>9. ASSUME NEW c \in Clients PROVE WorkerExact(c)' /\ StreamExact(c)'
    <2>1. CASE con[c].pc = "backlog"
      <3>1. con'[c] = n
        BY <1>5, <2>1
      <3> QED BY <1>3, <3>1, ApiConstants DEF WorkerExact, StreamExact, Running
    <2>2. CASE con[c].pc # "backlog"
      <3>1. con'[c] = r(c) /\ cli' = cli /\ failed' = failed
        BY <1>1, <1>5, <2>2
      <3>2. WorkerExact(c)'
        BY <1>1, <1>2, <1>4, <2>2, <3>1 DEF WorkerExact
      <3>3. StreamExact(c)'
        BY <1>2, <1>4, <3>1 DEF StreamExact, OutEnd
      <3> QED BY <3>2, <3>3
    <2> QED BY <2>1, <2>2
  <1> QED BY <1>7, <1>8, <1>9 DEF ApiInv

\* Steps of the loop and the daemon that leave the connections as they are.
LEMMA LoopKeeps == ASSUME ConstantsOK, ApiInv, Return \/ Check \/ Dropped \/ DaemonFails PROVE ApiInv'
  <1>1. /\ UNCHANGED <<last, requested, streams, active, failed, con, cli>>
        /\ loop' \in {loop, "stopped"} /\ daemon' \in {"running", "dropping", "ended"} /\ asked' \in BOOLEAN
        /\ loop' # loop => loop = "joining" /\ \A c \in Clients : con[c].pc \in {"none", "collected"}
    BY DEF ApiInv, ApiTypes, Return, Check, Dropped, DaemonFails
  <1>2. ApiTypes' /\ LoopExact'
    BY <1>1 DEF ApiInv, ApiTypes, LoopExact
  <1>3. PermitsExact' /\ active' <= MaxClients /\ ReadExact'
    BY <1>1 DEF ApiInv, PermitsExact, ReadExact
  <1>4. \A c \in Clients : WorkerExact(c)' /\ StreamExact(c)'
    BY <1>1, OtherKeeps
  <1> QED BY <1>2, <1>3, <1>4 DEF ApiInv

-----------------------------------------------------------------------------
(* The server *)

LEMMA ApiInit == ConstantsOK /\ Init => ApiInv
  <1> SUFFICES ASSUME ConstantsOK, Init PROVE ApiInv
    OBVIOUS
  <1>1. PICK s \in [Clients -> Start] :
          cli = [c \in Clients |-> [from |-> s[c], cursor |-> s[c], got |-> <<>>, reads |-> "yes",
                                    connects |-> 0, end |-> "none"]]
    BY DEF Init
  <1>2. ASSUME NEW c \in Clients
        PROVE  cli[c] \in CliRow /\ cli[c].from = s[c] /\ cli[c].cursor = s[c] /\ cli[c].got = <<>> /\ s[c] \in Nat
    <2> DEFINE v == s[c]
               g == <<>>
               k == [from |-> v, cursor |-> v, got |-> g, reads |-> "yes", connects |-> 0, end |-> "none"]
    <2>1. v \in Nat /\ g \in Seq(Nat) /\ cli[c] = k
      BY <1>1, ApiConstants
    <2> HIDE DEF v, g
    <2>2. k \in CliRow /\ k.from = v /\ k.cursor = v /\ k.got = g
      BY <2>1 DEF CliRow
    <2> QED BY <2>1, <2>2 DEF v, g
  <1>3. /\ last = Oldest /\ loop = "serving" /\ asked = FALSE /\ requested = FALSE
        /\ streams = {} /\ active = 0 /\ failed = FALSE /\ daemon = "running" /\ con = [c \in Clients |-> NoCon]
    BY DEF Init
  <1>4. cli \in [Clients -> CliRow]
    BY <1>1, <1>2
  <1>5. ApiTypes
    <2>1. con \in [Clients -> ConRow]
      BY <1>3, NoConIs
    <2>2. last \in Oldest..MaxEvents
      BY <1>3, ApiConstants
    <2> QED BY <1>3, <1>4, <2>1, <2>2 DEF ApiTypes
  <1>6. LoopExact
    BY <1>3 DEF LoopExact
  <1>7. PermitsExact /\ active <= MaxClients
    <2>1. {c \in Clients : con[c].pc \in Running} = {}
      BY <1>3, NoConIs DEF Running
    <2> QED BY <1>3, <2>1, FS_EmptySet, ApiConstants DEF PermitsExact, Running
  <1>8. ReadExact
    <2>1. ASSUME NEW c \in Clients PROVE HasRead(s[c], s[c], <<>>)
      <3> DEFINE k == NextAfter(s[c])
                 m == k + Len(<<>>) - 1
      <3>1. k \in Nat
        BY <1>2, ApiConstants DEF NextAfter
      <3>2. m \in Int /\ m >= k - 1 /\ m - k + 1 = 0
        BY <3>1
      <3> HIDE DEF k, m
      <3>3. Run(k, m) = <<>>
        BY <3>1, <3>2, RunIs, EmptySeq
      <3> QED BY <3>3 DEF HasRead, k, m
    <2> QED BY <1>2, <2>1 DEF ReadExact
  <1>9. ASSUME NEW c \in Clients PROVE WorkerExact(c) /\ StreamExact(c)
    <2>1. con[c] = NoCon
      BY <1>3
    <2> QED BY <2>1, NoConIs, ApiConstants DEF WorkerExact, StreamExact, Running
  <1> QED BY <1>5, <1>6, <1>7, <1>8, <1>9 DEF ApiInv

LEMMA ApiNext == ConstantsOK /\ ApiInv /\ [Next]_vars => ApiInv'
  <1> SUFFICES ASSUME ConstantsOK, ApiInv, [Next]_vars PROVE ApiInv'
    OBVIOUS
  <1>1. CASE UNCHANGED vars
    <2>1. ApiTypes' /\ LoopExact' /\ PermitsExact' /\ active' <= MaxClients /\ ReadExact'
      BY <1>1 DEF vars, ApiInv, ApiTypes, LoopExact, PermitsExact, ReadExact
    <2>2. \A c \in Clients : WorkerExact(c)' /\ StreamExact(c)'
      BY <1>1, OtherKeeps DEF vars
    <2> QED BY <2>1, <2>2 DEF ApiInv
  <1>2. ASSUME NEW c \in Clients, Worker(c) \/ Producer(c) PROVE ApiInv'
    BY <1>2, EndsKeep, CallKeeps, WatchExpiredKeeps, WatchStartKeeps, UnblockKeeps, WriteFailsKeeps, StopWatchKeeps,
       DisconnectKeeps, SendEventsKeeps, ProduceKeeps, ProducerEndKeeps DEF Worker, Producer
  <1>3. ASSUME NEW c \in Clients,
               \/ \E kind \in Kinds : Connect(c, kind)
               \/ ReadFrame(c) \/ Hangup(c) \/ \E how \in {"stalled", "gone"} : Stall(c, how)
        PROVE  ApiInv'
    BY <1>3, ConnectKeeps, ReadFrameKeeps, HangupKeeps, StallKeeps
  <1>4. ASSUME Loop \/ Daemon \/ DaemonFails PROVE ApiInv'
    BY <1>4, StopServingKeeps, LoopKeeps, AcceptKeeps, RefuseKeeps, CollectKeeps DEF Loop, Daemon
  <1> QED BY <1>1, <1>2, <1>3, <1>4, AppendEventKeeps DEF Next

LEMMA ApiSays == ConstantsOK /\ ApiInv => TypeOK /\ Exact
  <1> SUFFICES ASSUME ConstantsOK, ApiInv PROVE TypeOK /\ Exact
    OBVIOUS
  <1>1. /\ ApiTypes /\ LoopExact /\ PermitsExact /\ active <= MaxClients /\ ReadExact
        /\ \A c \in Clients : WorkerExact(c) /\ StreamExact(c)
    BY DEF ApiInv
  <1>2. IsFiniteSet({c \in Clients : con[c].pc \in Running})
    BY ApiConstants, FS_Subset
  <1>3. active \in 0..MaxClients
    BY <1>1, <1>2, FS_CardinalityType, ApiConstants DEF PermitsExact, Running
  <1>4. TypeOK
    BY <1>1, <1>3, ConTypes DEF TypeOK, ApiTypes, WorkerExact
  <1>5. Quiesced
    <2>1. SUFFICES ASSUME loop = "stopped"
                   PROVE  /\ active = 0 /\ streams = {} /\ (\A c \in Clients : con[c].prod # "run")
                          /\ \A c \in Clients : con[c].res = "error" => failed
      BY DEF Quiesced
    <2>2. requested /\ streams = {} /\ \A c \in Clients : con[c].pc \in {"none", "collected"}
      BY <1>1, <2>1 DEF LoopExact
    <2>3. {c \in Clients : con[c].pc \in Running} = {}
      BY <2>2 DEF Running
    <2>4. active = 0
      BY <1>1, <2>3, FS_EmptySet DEF PermitsExact, Running
    <2> QED BY <1>1, <2>2, <2>4 DEF WorkerExact
  <1>6. CutOff
    BY <1>1 DEF WorkerExact, CutOff
  <1>7. NoGap
    <2> SUFFICES ASSUME NEW c \in Clients
                 PROVE  /\ cli[c].got = Run(NextAfter(cli[c].from), NextAfter(cli[c].from) + Len(cli[c].got) - 1)
                        /\ [i \in 1..Len(cli[c].got) |-> NextAfter(cli[c].from) + i - 1] = cli[c].got
                        /\ cli[c].got # <<>> => cli[c].cursor = Last(cli[c].got)
      BY DEF NoGap, NextAfter
    <2> DEFINE g == cli[c].got
               n == NextAfter(cli[c].from)
               m == n + Len(g) - 1
    <2>1. HasRead(cli[c].from, cli[c].cursor, g) /\ g \in Seq(Nat) /\ Len(g) \in Nat /\ n \in Nat
      BY <1>1, ConTypes, ApiConstants DEF ReadExact, NextAfter
    <2>2. g = Run(n, m) /\ (g # <<>> => cli[c].cursor = m)
      BY <2>1 DEF HasRead
    <2> HIDE DEF n
    <2>3. m - n + 1 = Len(g) /\ m \in Int /\ m >= n - 1
      BY <2>1
    <2>4. [i \in 1..Len(g) |-> n + i - 1] = Run(n, m)
      BY <2>3 DEF Run
    <2>5. g # <<>> => g[Len(g)] = m
      <3>1. SUFFICES ASSUME g # <<>> PROVE g[Len(g)] = m
        OBVIOUS
      <3>2. Len(g) \in 1..Len(g)
        BY <2>1, <3>1, EmptySeq
      <3>3. Run(n, m)[Len(g)] = n + Len(g) - 1
        BY <2>1, <2>3, <3>2, RunIs
      <3> QED BY <2>2, <3>3
    <2> QED BY <2>2, <2>4, <2>5 DEF Last, n
  <1> QED BY <1>1, <1>4, <1>5, <1>6, <1>7 DEF Exact

\* ServedExactly: permits, registrations and errors are accounted for until the server has returned, a shutdown reaches
\* every worker, and a client that is cut off, refused or disconnected and resumes reads every event after the cursor it
\* began with once and in order (serve, handle_connection, stream_events, ApiShutdown).
THEOREM ServedExactly == ASSUME ConstantsOK PROVE Spec => [](TypeOK /\ Exact)
  <1>1. Init => ApiInv
    BY ApiInit
  <1>2. ApiInv /\ [Next]_vars => ApiInv'
    BY ApiNext
  <1>3. ApiInv => TypeOK /\ Exact
    BY ApiSays
  <1> QED BY <1>1, <1>2, <1>3, PTL DEF Spec
=============================================================================
