----------------------------- MODULE StreamProofs -----------------------------
(***************************************************************************)
(* The two halves of a streamed answer.  Of the scanner, for any number of *)
(* lines and any channel sizes: a stream that ends by [DONE] is complete,  *)
(* and the response has one writer.  Of the handlers that translate the    *)
(* stream, for any number of lines and any price: their invariant, that a  *)
(* Claude client's blocks are bracketed, that each of them implements      *)
(* Delivery, and that a streamed answer ends and is billed as the upstream *)
(* reported, and as the same answer would be that comes whole.             *)
(***************************************************************************)
EXTENDS StreamScanner, StreamConverters, FoldLemmas


-----------------------------------------------------------------------------
(* The first state of a stream satisfies the invariant.                    *)
LEMMA InitEstablishesInv == ScanInit => StreamInv
<1> SUFFICES ASSUME ScanInit
             PROVE  StreamInv
  OBVIOUS
<1> USE StreamAssumption DEF ScanInit
<1>1. ScanTypeOK
  <2>1. /\ avail \in 0 .. MaxSent /\ scanned \in 0 .. avail
        /\ queued \in 0 .. DataSize /\ stop \in 0 .. StopSize
        /\ blank \in Nat /\ handled \in Nat /\ settled \in Nat
    OBVIOUS
  <2>2. /\ ctxDone \in BOOLEAN /\ bodyOpen \in BOOLEAN /\ closed \in BOOLEAN
        /\ stopped \in BOOLEAN /\ joined \in BOOLEAN /\ failed \in BOOLEAN
    BY Zenon
  <2> QED
    BY <2>1, <2>2, Zenon DEF ScanTypeOK
<1>2. WriterHoldsMutex
  BY DEF WriterHoldsMutex
<1>3. NoLineLost /\ DoneIsLastLine
  BY DEF NoLineLost, DoneIsLastLine, InHand
<1>4. closed <=> scanner = "exited"
  OBVIOUS
<1>5. HandlerDrains
  BY <1>4 DEF HandlerDrains
<1>6. JoinedHaveEnded
  BY DEF JoinedHaveEnded
<1> QED
  BY <1>1, <1>2, <1>3, <1>5, <1>6 DEF StreamInv

(* Every step of a goroutine, the upstream or the client keeps it.         *)
LEMMA StepKeepsInv == StreamInv /\ [ScanNext]_scanVars => StreamInv'
<1> SUFFICES ASSUME StreamInv, [ScanNext]_scanVars
             PROVE  StreamInv'
  OBVIOUS
<1> USE StreamAssumption
<1> USE DEF StreamInv, ScanTypeOK, WriterHoldsMutex, NoLineLost, DoneIsLastLine,
            HandlerDrains, JoinedHaveEnded, AllExited, InHand, sender, request
<1>1. CASE UpstreamSends
  BY <1>1 DEF UpstreamSends
<1>2. CASE ClientGoes
  BY <1>2 DEF ClientGoes
<1>3. CASE ScanLine
  BY <1>3 DEF ScanLine
<1>4. CASE ScanEnds
  BY <1>4 DEF ScanEnds, SetEndReason
<1>5. CASE ScannerStops
  BY <1>5 DEF ScannerStops, SetEndReason, TakeStop
<1>6. CASE ScannerGoesOn
  BY <1>6 DEF ScannerGoesOn, SetEndReason
<1>7. CASE SendChunk
  BY <1>7 DEF SendChunk
<1>8. CASE ScannerExits
  BY <1>8 DEF ScannerExits, SafeSend
<1>9. CASE Receive
  BY <1>9 DEF Receive
<1>10. CASE DataLocks
  BY <1>10 DEF DataLocks
<1>11. CASE HandleChunk
  BY <1>11 DEF HandleChunk
<1>12. CASE HandlerStops
  BY <1>12 DEF HandlerStops, SetEndReason
<1>13. CASE HandlerPanics
  BY <1>13 DEF HandlerPanics, SetEndReason
<1>14. CASE DataExits
  BY <1>14 DEF DataExits, SafeSend
<1>15. CASE PingTicks
  BY <1>15 DEF PingTicks
<1>16. CASE PingLocks
  BY <1>16 DEF PingLocks
<1>17. CASE PingWrites
  BY <1>17 DEF PingWrites, SetEndReason, SafeSend
<1>18. CASE PingStops
  BY <1>18 DEF PingStops, TakeStop
<1>19. CASE MainStops
  BY <1>19 DEF MainStops, SetEndReason, TakeStop
<1>20. CASE IdleTimeout
  BY <1>20 DEF IdleTimeout, SetEndReason
<1>21. CASE Signal
  BY <1>21 DEF Signal, SafeSend
<1>22. CASE Join
  BY <1>22, ZenonT(40) DEF Join, LeaveScanner
<1>23. CASE ShutdownTimeout
  <2>1. ~ joined /\ ~ joined'
    BY <1>23 DEF ShutdownTimeout, LeaveScanner
  <2>2. JoinedHaveEnded'
    BY <2>1
  <2>3. ScanTypeOK'
    <3>1. joined' \in BOOLEAN /\ bodyOpen' \in BOOLEAN
      BY <1>23, Zenon DEF ShutdownTimeout, LeaveScanner
    <3> QED
      BY <1>23, <3>1 DEF ShutdownTimeout, LeaveScanner
  <2>4. (WriterHoldsMutex /\ NoLineLost /\ DoneIsLastLine /\ HandlerDrains)'
    BY <1>23 DEF ShutdownTimeout, LeaveScanner
  <2> QED
    BY <2>2, <2>3, <2>4
<1>24. CASE Finish
  <2>1. failed' \in BOOLEAN
    BY <1>24 DEF Finish, IsPartialStreamEnd
  <2> QED
    BY <1>24, <2>1 DEF Finish
<1>25. CASE RequestEnds
  BY <1>25 DEF RequestEnds
<1>26. CASE UNCHANGED scanVars
  BY <1>26 DEF scanVars
<1> QED
  BY <1>1, <1>2, <1>3, <1>4, <1>5, <1>6, <1>7, <1>8, <1>9, <1>10, <1>11,
     <1>12, <1>13, <1>14, <1>15, <1>16, <1>17, <1>18, <1>19, <1>20, <1>21,
     <1>22, <1>23, <1>24, <1>25, <1>26 DEF ScanNext, Scanner, DataHandler,
     Ping, Main

(* StreamInv is an invariant of stream_scanner.go and stream.go.           *)
THEOREM StreamInvariant == ScanSpec => []StreamInv
  BY InitEstablishesInv, StepKeepsInv, PTL DEF ScanSpec

(* The variables of a stream keep their types.                             *)
THEOREM StreamTypeCorrect == ScanSpec => []ScanTypeOK
<1>1. StreamInv => ScanTypeOK
  BY DEF StreamInv
<1> QED
  BY StreamInvariant, <1>1, PTL

(* A joined stream that ended by [DONE] was handled and billed to its last *)
(* line, in whatever order the goroutines took the stop tokens.            *)
THEOREM DoneStreamsAreComplete == ScanSpec => []DoneIsComplete
<1>1. StreamInv => DoneIsComplete
  BY DEF StreamInv, ScanTypeOK, DoneIsLastLine, HandlerDrains, JoinedHaveEnded,
         DoneIsComplete, AllExited, InHand
<1> QED
  BY StreamInvariant, <1>1, PTL

(* The callback and the ping never write at once, and after a join only    *)
(* the request's goroutine writes.                                         *)
THEOREM WritersExclude == ScanSpec => []OneWriter
<1>1. StreamInv => OneWriter
  BY DEF StreamInv, WriterHoldsMutex, JoinedHaveEnded, OneWriter, AllExited
<1> QED
  BY StreamInvariant, <1>1, PTL

-----------------------------------------------------------------------------

(* What a client has heard, and the block that is open, after the events s. *)
HeardIn(s) == FoldLeft(Hearing, <<>>, s)
BlockIn(s) == FoldLeft(Bracket, NoBlock, s)

Block == [open : Word, next : Int, ok : BOOLEAN]

(* t follows what is heard, or open, event by event.                        *)
Hears(s, t) == /\ t \in [0 .. Len(s) -> Seq(Word)] /\ t[0] = <<>>
               /\ \A i \in 1 .. Len(s) : t[i] = Hearing(t[i - 1], s[i])
Opens(s, t) == /\ t \in [0 .. Len(s) -> Block] /\ t[0] = NoBlock
               /\ \A i \in 1 .. Len(s) : t[i] = Bracket(t[i - 1], s[i])

(* One more event keeps the types.                                          *)
LEMMA EventsTyped ==
  ASSUME NEW e \in Event
  PROVE  /\ <<>> \in Seq(Word) /\ \A v \in Seq(Word) : Hearing(v, e) \in Seq(Word)
         /\ NoBlock \in Block /\ \A b \in Block : Bracket(b, e) \in Block
<1>1. <<>> \in Seq(Word)
  OBVIOUS
<1>2. ASSUME NEW v \in Seq(Word) PROVE Hearing(v, e) \in Seq(Word)
  <2>1. CASE IsDelta(e)
    BY <2>1 DEF Hearing, Event
  <2>2. CASE ~IsDelta(e)
    BY <2>2 DEF Hearing
  <2> QED
    BY <2>1, <2>2
<1>3. NoBlock \in Block
  BY DEF NoBlock, Block, Word
<1>4. ASSUME NEW b \in Block PROVE Bracket(b, e) \in Block
  <2>1. e.k \in Word /\ e.i \in Int
    BY DEF Event
  <2>2. CASE e.e = "block start"
    <3>1. CASE b.open = "" /\ b.next = e.i
      <4>1. Bracket(b, e) = [b EXCEPT !.open = e.k, !.next = @ + 1]
        BY <2>2, <3>1 DEF Bracket
      <4>2. e.k \in Word /\ b.next + 1 \in Int
        <5>1. b.next \in Int
          BY DEF Block
        <5> QED
          BY <2>1, <5>1
      <4> QED
        BY <4>1, <4>2 DEF Block
    <3>2. CASE ~(b.open = "" /\ b.next = e.i)
      <4>1. Bracket(b, e) = [b EXCEPT !.ok = FALSE]
        BY <2>2, <3>2 DEF Bracket
      <4> QED
        BY <4>1 DEF Block
    <3> QED
      BY <3>1, <3>2
  <2>3. CASE e.e = "block stop"
    <3>1. Bracket(b, e) = [b EXCEPT !.open = ""] \/ Bracket(b, e) = [b EXCEPT !.ok = FALSE]
      BY <2>3 DEF Bracket
    <3>2. "" \in Word
      BY DEF Word
    <3> QED
      BY <3>1, <3>2 DEF Block
  <2>4. CASE e.e = "delta"
    BY <2>1, <2>4 DEF Bracket, Block
  <2>5. CASE e.e = "stop"
    BY <2>1, <2>5 DEF Bracket, Block
  <2>6. CASE e.e \notin {"block start", "block stop", "delta", "stop"}
    BY <2>6 DEF Bracket
  <2> QED
    BY <2>2, <2>3, <2>4, <2>5, <2>6
<1> QED
  BY <1>1, <1>2, <1>3, <1>4

(* The events can be followed, and what is heard is what was followed.      *)
LEMMA HeardIsFollowed ==
  ASSUME NEW s \in Seq(Event)
  PROVE  \E t : Hears(s, t) /\ HeardIn(s) = t[Len(s)]
<1> DEFINE n == Len(s)
           S == SUBSET (1 .. n)
           V == Seq(Word)
           d == [i \in 1 .. n |-> [v \in V |-> Hearing(v, s[i])]]
           P(g) == g = [x \in S |-> IF x = {} THEN <<>> ELSE Hearing(g[x \ {Max(x)}], s[Max(x)])]
<1>1. n \in Nat /\ DOMAIN s = 1 .. n /\ \A i \in 1 .. n : s[i] \in Event
  OBVIOUS
<1>2. <<>> \in V /\ \A i \in 1 .. n : \A v \in V : d[i][v] = Hearing(v, s[i]) /\ d[i][v] \in V
  BY <1>1, EventsTyped
<1>3. \A x \in S : x # {} => Max(x) \in x /\ Max(x) \in 1 .. n
  BY <1>1, LastPosition
<1>4. \E g : P(g)
  <2>1. PICK g \in [S -> V] : FoldsLeft(n, <<>>, d, g)
    <3> HIDE DEF d, n, V
    <3> QED
      BY <1>1, <1>2, LeftFoldExists
  <2>2. ASSUME NEW x \in S
        PROVE  g[x] = IF x = {} THEN <<>> ELSE Hearing(g[x \ {Max(x)}], s[Max(x)])
    <3> HIDE DEF d, n, V
    <3>1. g[x] = IF x = {} THEN <<>> ELSE d[Max(x)][g[x \ {Max(x)}]]
      BY <2>1 DEF FoldsLeft
    <3>2. CASE x # {}
      <4>1. Max(x) \in 1 .. n /\ g[x \ {Max(x)}] \in V
        BY <1>3, <2>1, <3>2
      <4> QED
        BY <1>2, <3>1, <3>2, <4>1
    <3> QED
      BY <3>1, <3>2
  <2> HIDE DEF d, n, V
  <2>3. g = [x \in S |-> g[x]]
    BY <2>1
  <2>4. P(g)
    BY <2>2, <2>3
  <2> QED
    BY <2>4
<1> DEFINE g == CHOOSE f : P(f)
<1>5. P(g)
  BY <1>4
<1>6. HeardIn(s) = g[1 .. n]
  BY <1>1 DEF HeardIn, FoldLeft, MapThenFoldSet
<1> HIDE DEF g
<1>7. \A x \in S : g[x] = IF x = {} THEN <<>> ELSE Hearing(g[x \ {Max(x)}], s[Max(x)])
  BY <1>5
<1> HIDE DEF P, d, n, V
<1>8. g[{}] = <<>>
  BY <1>7
<1>9. \A x \in S : x # {} /\ g[x \ {Max(x)}] \in V => g[x] = d[Max(x)][g[x \ {Max(x)}]]
  BY <1>2, <1>3, <1>7
<1>10. PICK t \in [0 .. n -> V] : ScansTo(n, <<>>, d, t, g[1 .. n])
  <2>1. n \in Nat /\ <<>> \in V /\ \A i \in 1 .. n : \A v \in V : d[i][v] \in V
    BY <1>1, <1>2
  <2>2. \A x \in SUBSET (1 .. n) :
           x # {} /\ g[x \ {Max(x)}] \in V => g[x] = d[Max(x)][g[x \ {Max(x)}]]
    BY <1>9
  <2> HIDE DEF S
  <2> QED
    BY <1>8, <2>1, <2>2, LeftFoldScans
<1>11. ASSUME NEW i \in 1 .. n PROVE t[i] = Hearing(t[i - 1], s[i])
  <2>1. t[i] = d[i][t[i - 1]] /\ i - 1 \in 0 .. n
    BY <1>1, <1>10 DEF Scans, ScansTo
  <2>2. t[i - 1] \in V
    BY <1>10, <2>1
  <2> QED
    BY <1>2, <2>1, <2>2
<1> QED
  BY <1>6, <1>10, <1>11 DEF Hears, Scans, ScansTo, n, V

(* The same of the open block.                                              *)
LEMMA BlockIsFollowed ==
  ASSUME NEW s \in Seq(Event)
  PROVE  \E t : Opens(s, t) /\ BlockIn(s) = t[Len(s)]
<1> DEFINE n == Len(s)
           S == SUBSET (1 .. n)
           d == [i \in 1 .. n |-> [v \in Block |-> Bracket(v, s[i])]]
           P(g) == g = [x \in S |-> IF x = {} THEN NoBlock ELSE Bracket(g[x \ {Max(x)}], s[Max(x)])]
<1>1. n \in Nat /\ DOMAIN s = 1 .. n /\ \A i \in 1 .. n : s[i] \in Event
  OBVIOUS
<1>2. NoBlock \in Block /\ \A i \in 1 .. n : \A v \in Block : d[i][v] = Bracket(v, s[i]) /\ d[i][v] \in Block
  <2>1. NoBlock \in Block
    BY DEF NoBlock, Block, Word
  <2>2. ASSUME NEW i \in 1 .. n, NEW v \in Block PROVE d[i][v] = Bracket(v, s[i]) /\ d[i][v] \in Block
    BY <1>1, EventsTyped
  <2> QED
    BY <2>1, <2>2
<1>3. \A x \in S : x # {} => Max(x) \in x /\ Max(x) \in 1 .. n
  BY <1>1, LastPosition
<1>4. \E g : P(g)
  <2>1. PICK g \in [S -> Block] : FoldsLeft(n, NoBlock, d, g)
    <3> HIDE DEF d, n
    <3> QED
      BY <1>1, <1>2, LeftFoldExists
  <2>2. ASSUME NEW x \in S
        PROVE  g[x] = IF x = {} THEN NoBlock ELSE Bracket(g[x \ {Max(x)}], s[Max(x)])
    <3> HIDE DEF d, n
    <3>1. g[x] = IF x = {} THEN NoBlock ELSE d[Max(x)][g[x \ {Max(x)}]]
      BY <2>1 DEF FoldsLeft
    <3>2. CASE x # {}
      <4>1. Max(x) \in 1 .. n /\ g[x \ {Max(x)}] \in Block
        BY <1>3, <2>1, <3>2
      <4> QED
        BY <1>2, <3>1, <3>2, <4>1
    <3> QED
      BY <3>1, <3>2
  <2> HIDE DEF d, n
  <2>3. g = [x \in S |-> g[x]]
    BY <2>1
  <2>4. P(g)
    BY <2>2, <2>3
  <2> QED
    BY <2>4
<1> DEFINE g == CHOOSE f : P(f)
<1>5. P(g)
  BY <1>4
<1>6. BlockIn(s) = g[1 .. n]
  BY <1>1 DEF BlockIn, FoldLeft, MapThenFoldSet
<1> HIDE DEF g
<1>7. \A x \in S : g[x] = IF x = {} THEN NoBlock ELSE Bracket(g[x \ {Max(x)}], s[Max(x)])
  BY <1>5
<1> HIDE DEF P, d, n
<1>8. g[{}] = NoBlock
  BY <1>7
<1>9. \A x \in S : x # {} /\ g[x \ {Max(x)}] \in Block => g[x] = d[Max(x)][g[x \ {Max(x)}]]
  BY <1>2, <1>3, <1>7
<1>10. PICK t \in [0 .. n -> Block] : ScansTo(n, NoBlock, d, t, g[1 .. n])
  <2>1. n \in Nat /\ NoBlock \in Block /\ \A i \in 1 .. n : \A v \in Block : d[i][v] \in Block
    BY <1>1, <1>2
  <2>2. \A x \in SUBSET (1 .. n) :
           x # {} /\ g[x \ {Max(x)}] \in Block => g[x] = d[Max(x)][g[x \ {Max(x)}]]
    BY <1>9
  <2> HIDE DEF S
  <2> QED
    BY <1>8, <2>1, <2>2, LeftFoldScans
<1>11. ASSUME NEW i \in 1 .. n PROVE t[i] = Bracket(t[i - 1], s[i])
  <2>1. t[i] = d[i][t[i - 1]] /\ i - 1 \in 0 .. n
    BY <1>1, <1>10 DEF Scans, ScansTo
  <2>2. t[i - 1] \in Block
    BY <1>10, <2>1
  <2> QED
    BY <1>2, <2>1, <2>2
<1> QED
  BY <1>6, <1>10, <1>11 DEF Opens, Scans, ScansTo, n

-----------------------------------------------------------------------------

(* A sequence appended element by element.                                  *)
LEMMA OneByOne ==
  ASSUME NEW E, NEW s \in Seq(E), NEW b \in Seq(E)
  PROVE  /\ s \o SubSeq(b, 1, 0) = s /\ s \o SubSeq(b, 1, Len(b)) = s \o b
         /\ \A j \in 0 .. Len(b) : SubSeq(b, 1, j) \in Seq(E) /\ s \o SubSeq(b, 1, j) \in Seq(E)
         /\ \A j \in Nat : j < Len(b) =>
                /\ s \o SubSeq(b, 1, j + 1) = Append(s \o SubSeq(b, 1, j), b[j + 1])
                /\ b[j + 1] \in E
<1>1. s \o SubSeq(b, 1, 0) = s
  OBVIOUS
<1>2. s \o SubSeq(b, 1, Len(b)) = s \o b
  OBVIOUS
<1>3. ASSUME NEW j \in 0 .. Len(b) PROVE SubSeq(b, 1, j) \in Seq(E) /\ s \o SubSeq(b, 1, j) \in Seq(E)
  OBVIOUS
<1>4. ASSUME NEW j \in Nat, j < Len(b)
      PROVE  s \o SubSeq(b, 1, j + 1) = Append(s \o SubSeq(b, 1, j), b[j + 1]) /\ b[j + 1] \in E
  BY <1>4
<1> QED
  BY <1>1, <1>2, <1>3, <1>4

(* What is followed event by event is what is heard.                        *)
LEMMA FollowedIsHeard ==
  ASSUME NEW s \in Seq(Event), NEW t, Hears(s, t)
  PROVE  HeardIn(s) = t[Len(s)] /\ HeardIn(s) \in Seq(Word)
<1> DEFINE n == Len(s)
           d == [i \in 1 .. n |-> [v \in Seq(Word) |-> Hearing(v, s[i])]]
<1>1. n \in Nat
  OBVIOUS
<1>2. PICK u : Hears(s, u) /\ HeardIn(s) = u[n]
  BY HeardIsFollowed
<1>3. ASSUME NEW f, Hears(s, f) PROVE Scans(n, <<>>, d, f)
  <2>1. ASSUME NEW i \in 1 .. n PROVE f[i] = d[i][f[i - 1]]
    <3>1. i - 1 \in 0 .. n
      BY <1>1
    <3>2. f[i] = Hearing(f[i - 1], s[i]) /\ f[i - 1] \in Seq(Word)
      BY <1>3, <3>1 DEF Hears
    <3> QED
      BY <3>2
  <2> QED
    BY <1>3, <2>1 DEF Scans, Hears
<1>4. n \in 0 .. n /\ Scans(n, <<>>, d, t) /\ Scans(n, <<>>, d, u)
  BY <1>1, <1>2, <1>3
<1>5. t[n] = u[n]
  <2> HIDE DEF d, n
  <2> QED
    BY <1>1, <1>4, ScansAgree
<1>6. t[n] \in Seq(Word)
  BY <1>1 DEF Hears
<1> QED
  BY <1>2, <1>5, <1>6

(* What is followed event by event is the block that is open.              *)
LEMMA FollowedIsOpen ==
  ASSUME NEW s \in Seq(Event), NEW t, Opens(s, t)
  PROVE  BlockIn(s) = t[Len(s)] /\ BlockIn(s) \in Block
<1> DEFINE n == Len(s)
           d == [i \in 1 .. n |-> [v \in Block |-> Bracket(v, s[i])]]
<1>1. n \in Nat
  OBVIOUS
<1>2. PICK u : Opens(s, u) /\ BlockIn(s) = u[n]
  BY BlockIsFollowed
<1>3. ASSUME NEW f, Opens(s, f) PROVE Scans(n, NoBlock, d, f)
  <2>1. ASSUME NEW i \in 1 .. n PROVE f[i] = d[i][f[i - 1]]
    <3>1. i - 1 \in 0 .. n
      BY <1>1
    <3>2. f[i] = Bracket(f[i - 1], s[i]) /\ f[i - 1] \in Block
      BY <1>3, <3>1 DEF Opens
    <3> QED
      BY <3>2
  <2> QED
    BY <1>3, <2>1 DEF Scans, Opens
<1>4. n \in 0 .. n /\ Scans(n, NoBlock, d, t) /\ Scans(n, NoBlock, d, u)
  BY <1>1, <1>2, <1>3
<1>5. t[n] = u[n]
  <2> HIDE DEF d, n
  <2> QED
    BY <1>1, <1>4, ScansAgree
<1>6. t[n] \in Block
  BY <1>1 DEF Opens
<1> QED
  BY <1>2, <1>5, <1>6

(* One more event.                                                          *)
LEMMA HeardAppends ==
  ASSUME NEW s \in Seq(Event), NEW e \in Event
  PROVE  HeardIn(s) \in Seq(Word) /\ HeardIn(Append(s, e)) = Hearing(HeardIn(s), e)
<1> DEFINE n == Len(s)
           r == Append(s, e)
<1>1. n \in Nat /\ r \in Seq(Event) /\ Len(r) = n + 1 /\ r[n + 1] = e /\ \A i \in 1 .. n : r[i] = s[i]
  OBVIOUS
<1> HIDE DEF r
<1>2. PICK t : Hears(r, t) /\ HeardIn(r) = t[n + 1]
  BY <1>1, HeardIsFollowed
<1> DEFINE u == [i \in 0 .. n |-> t[i]]
<1>3. Hears(s, u)
  <2>1. ASSUME NEW i \in 0 .. n PROVE i \in 0 .. n + 1 /\ t[i] \in Seq(Word)
    <3>1. t \in [0 .. n + 1 -> Seq(Word)] /\ i \in 0 .. n + 1
      BY <1>1, <1>2 DEF Hears
    <3> QED
      BY <3>1, Zenon
  <2>2. u \in [0 .. n -> Seq(Word)] /\ u[0] = <<>>
    BY <1>1, <1>2, <2>1 DEF Hears
  <2>3. ASSUME NEW i \in 1 .. n PROVE u[i] = Hearing(u[i - 1], s[i])
    <3>1. i \in 1 .. n + 1 /\ i - 1 \in 0 .. n /\ i \in 0 .. n
      BY <1>1
    <3>2. t[i] = Hearing(t[i - 1], r[i]) /\ r[i] = s[i]
      BY <1>1, <1>2, <3>1 DEF Hears
    <3> QED
      BY <3>1, <3>2
  <2> QED
    BY <2>2, <2>3 DEF Hears
<1>4. HeardIn(s) = u[n] /\ HeardIn(s) \in Seq(Word)
  BY <1>3, FollowedIsHeard
<1>5. t[n + 1] = Hearing(t[n], e) /\ u[n] = t[n]
  <2>1. n + 1 \in 1 .. n + 1 /\ (n + 1) - 1 = n /\ n \in 0 .. n
    BY <1>1
  <2> QED
    BY <1>1, <1>2, <2>1 DEF Hears
<1> QED
  BY <1>2, <1>4, <1>5 DEF r

(* One more event to the blocks.                                           *)
LEMMA BlockAppends ==
  ASSUME NEW s \in Seq(Event), NEW e \in Event
  PROVE  BlockIn(s) \in Block /\ BlockIn(Append(s, e)) = Bracket(BlockIn(s), e)
<1> DEFINE n == Len(s)
           r == Append(s, e)
<1>1. n \in Nat /\ r \in Seq(Event) /\ Len(r) = n + 1 /\ r[n + 1] = e /\ \A i \in 1 .. n : r[i] = s[i]
  OBVIOUS
<1> HIDE DEF r
<1>2. PICK t : Opens(r, t) /\ BlockIn(r) = t[n + 1]
  BY <1>1, BlockIsFollowed
<1> DEFINE u == [i \in 0 .. n |-> t[i]]
<1>3. Opens(s, u)
  <2>1. \A i \in 0 .. n : i \in 0 .. n + 1 /\ t[i] \in Block
    BY <1>1, <1>2 DEF Opens
  <2>2. u \in [0 .. n -> Block] /\ u[0] = NoBlock
    BY <1>1, <1>2, <2>1 DEF Opens
  <2>3. ASSUME NEW i \in 1 .. n PROVE u[i] = Bracket(u[i - 1], s[i])
    <3>1. i \in 1 .. n + 1 /\ i - 1 \in 0 .. n /\ i \in 0 .. n
      BY <1>1
    <3>2. t[i] = Bracket(t[i - 1], r[i]) /\ r[i] = s[i]
      BY <1>1, <1>2, <3>1 DEF Opens
    <3> QED
      BY <3>1, <3>2
  <2> QED
    BY <2>2, <2>3 DEF Opens
<1>4. BlockIn(s) = u[n] /\ BlockIn(s) \in Block
  BY <1>3, FollowedIsOpen
<1>5. t[n + 1] = Bracket(t[n], e) /\ u[n] = t[n]
  <2>1. n + 1 \in 1 .. n + 1 /\ (n + 1) - 1 = n /\ n \in 0 .. n
    BY <1>1
  <2> QED
    BY <1>1, <1>2, <2>1 DEF Opens
<1> QED
  BY <1>2, <1>4, <1>5 DEF r

(* Nothing was heard and no block is open before the first event.           *)
LEMMA NothingHeard == HeardIn(<<>>) = <<>> /\ BlockIn(<<>>) = NoBlock
<1>1. <<>> \in Seq(Event) /\ Len(<<>>) = 0
  OBVIOUS
<1>2. PICK t : Hears(<<>>, t) /\ HeardIn(<<>>) = t[0]
  BY <1>1, HeardIsFollowed
<1>3. PICK u : Opens(<<>>, u) /\ BlockIn(<<>>) = u[0]
  BY <1>1, BlockIsFollowed
<1> QED
  BY <1>2, <1>3 DEF Hears, Opens

(* Events that say nothing, or bring one piece as the last, or end.         *)
Quiet(b) == \A n \in DOMAIN b : ~IsDelta(b[n])
Brings(b, k) == /\ b # <<>> /\ IsDelta(b[Len(b)]) /\ b[Len(b)].k = k
                /\ \A n \in DOMAIN b : n < Len(b) => ~IsDelta(b[n])

(* What says nothing is not heard.                                          *)
LEMMA QuietIsNotHeard ==
  ASSUME NEW s \in Seq(Event), NEW b \in Seq(Event), Quiet(b)
  PROVE  HeardIn(s \o b) = HeardIn(s)
<1> DEFINE P(j) == j <= Len(b) => HeardIn(s \o SubSeq(b, 1, j)) = HeardIn(s)
           T == {j \in Nat : P(j)}
<1>1. 0 \in T
  BY OneByOne
<1>2. ASSUME NEW j \in T PROVE j + 1 \in T
  <2>1. j \in Nat /\ P(j)
    OBVIOUS
  <2>2. CASE j + 1 <= Len(b)
    <3>1. j < Len(b) /\ j \in 0 .. Len(b) /\ j + 1 \in DOMAIN b /\ j <= Len(b)
      BY <2>1, <2>2
    <3>2. /\ s \o SubSeq(b, 1, j + 1) = Append(s \o SubSeq(b, 1, j), b[j + 1])
          /\ b[j + 1] \in Event /\ s \o SubSeq(b, 1, j) \in Seq(Event)
      BY <2>1, <3>1, OneByOne
    <3>3. HeardIn(s \o SubSeq(b, 1, j + 1)) = Hearing(HeardIn(s \o SubSeq(b, 1, j)), b[j + 1])
      BY <3>2, HeardAppends
    <3>4. HeardIn(s \o SubSeq(b, 1, j + 1)) = HeardIn(s \o SubSeq(b, 1, j))
      BY <3>1, <3>3 DEF Quiet, Hearing
    <3> QED
      BY <2>1, <3>1, <3>4
  <2> QED
    BY <2>1, <2>2
<1>3. T = Nat
  <2>1. T \in SUBSET Nat
    OBVIOUS
  <2> HIDE DEF T
  <2> QED
    BY <1>1, <1>2, <2>1, AllNaturals
<1>4. P(Len(b))
  <2>1. Len(b) \in Nat
    OBVIOUS
  <2> QED
    BY <1>3, <2>1
<1>5. Len(b) <= Len(b) /\ s \o SubSeq(b, 1, Len(b)) = s \o b
  BY OneByOne
<1> QED
  BY <1>4, <1>5

(* A piece that is brought is heard behind what was heard before.           *)
LEMMA BroughtIsHeard ==
  ASSUME NEW s \in Seq(Event), NEW b \in Seq(Event), NEW k, Brings(b, k)
  PROVE  HeardIn(s \o b) = Append(HeardIn(s), k)
<1> DEFINE m == Len(b) - 1
           f == SubSeq(b, 1, m)
<1>1. m \in Nat /\ m < Len(b) /\ m + 1 = Len(b) /\ m \in 0 .. Len(b)
  BY DEF Brings
<1>2. f \in Seq(Event) /\ s \o f \in Seq(Event)
  BY <1>1, OneByOne
<1>3. s \o b = Append(s \o f, b[Len(b)]) /\ b[Len(b)] \in Event
  BY <1>1, OneByOne
<1>4. Quiet(f)
  <2>1. ASSUME NEW n \in DOMAIN f PROVE ~IsDelta(f[n])
    <3>1. n \in DOMAIN b /\ n < Len(b) /\ f[n] = b[n]
      BY <1>1
    <3> QED
      BY <3>1 DEF Brings
  <2> QED
    BY <2>1 DEF Quiet
<1> HIDE DEF f
<1>5. HeardIn(s \o f) = HeardIn(s)
  BY <1>2, <1>4, QuietIsNotHeard
<1>6. HeardIn(s \o b) = Hearing(HeardIn(s \o f), b[Len(b)])
  BY <1>2, <1>3, HeardAppends
<1> QED
  BY <1>5, <1>6 DEF Brings, Hearing

(* What has been heard stays heard.                                         *)
LEMMA HeardStays ==
  ASSUME NEW s \in Seq(Event), NEW b \in Seq(Event)
  PROVE  /\ HeardIn(s) \in Seq(Word) /\ HeardIn(s \o b) \in Seq(Word)
         /\ Len(HeardIn(s)) <= Len(HeardIn(s \o b))
         /\ \A i \in 1 .. Len(HeardIn(s)) : HeardIn(s \o b)[i] = HeardIn(s)[i]
<1> DEFINE h(j) == HeardIn(s \o SubSeq(b, 1, j))
           P(j) == j <= Len(b) => /\ h(j) \in Seq(Word) /\ Len(h(0)) <= Len(h(j))
                                  /\ \A i \in 1 .. Len(h(0)) : h(j)[i] = h(0)[i]
           T == {j \in Nat : P(j)}
<1>0. \A j \in 0 .. Len(b) : h(j) \in Seq(Word)
  <2> TAKE j \in 0 .. Len(b)
  <2>1. s \o SubSeq(b, 1, j) \in Seq(Event)
    BY OneByOne
  <2> QED
    BY <2>1, HeardIsFollowed, FollowedIsHeard
<1>1. h(0) = HeardIn(s) /\ h(Len(b)) = HeardIn(s \o b)
  BY OneByOne, ZenonT(40)
<1>2. \A j \in Nat : j < Len(b) => h(j + 1) = h(j) \/ \E k \in Word : h(j + 1) = Append(h(j), k)
  <2> TAKE j \in Nat
  <2> HAVE j < Len(b)
  <2>1. /\ s \o SubSeq(b, 1, j + 1) = Append(s \o SubSeq(b, 1, j), b[j + 1])
        /\ b[j + 1] \in Event /\ s \o SubSeq(b, 1, j) \in Seq(Event)
    <3>1. j \in 0 .. Len(b)
      OBVIOUS
    <3> QED
      BY <3>1, OneByOne
  <2>2. h(j + 1) = Hearing(h(j), b[j + 1])
    BY <2>1, HeardAppends
  <2>3. b[j + 1].k \in Word
    BY <2>1 DEF Event
  <2> QED
    BY <2>2, <2>3 DEF Hearing
<1> HIDE DEF h
<1>3. 0 \in T
  BY <1>0
<1>4. ASSUME NEW j \in T PROVE j + 1 \in T
  <2>1. j \in Nat /\ P(j)
    OBVIOUS
  <2>2. CASE j + 1 <= Len(b)
    <3>1. j < Len(b) /\ j <= Len(b) /\ h(0) \in Seq(Word) /\ h(j) \in Seq(Word) /\ h(j + 1) \in Seq(Word)
      BY <1>0, <2>1, <2>2
    <3>2. CASE h(j + 1) = h(j)
      BY <2>1, <3>1, <3>2
    <3>3. ASSUME NEW k \in Word, h(j + 1) = Append(h(j), k) PROVE P(j + 1)
      <4>1. Len(h(0)) <= Len(h(j)) /\ Len(h(j + 1)) = Len(h(j)) + 1
        BY <2>1, <3>1, <3>3
      <4>2. ASSUME NEW i \in 1 .. Len(h(0)) PROVE h(j + 1)[i] = h(0)[i]
        <5>1. h(j)[i] = h(0)[i]
          BY <2>1, <3>1
        <5>2. i \in 1 .. Len(h(j))
          BY <3>1, <4>1
        <5>3. \A q \in Seq(Word) : \A n \in 1 .. Len(q) : Append(q, k)[n] = q[n]
          OBVIOUS
        <5> QED
          BY <3>1, <3>3, <5>1, <5>2, <5>3
      <4> QED
        BY <3>1, <4>1, <4>2
    <3> QED
      BY <1>2, <2>1, <3>1, <3>2, <3>3
  <2> QED
    BY <2>1, <2>2
<1>5. T = Nat
  <2>1. T \in SUBSET Nat
    OBVIOUS
  <2> HIDE DEF T
  <2> QED
    BY <1>3, <1>4, <2>1, AllNaturals
<1>6. P(Len(b))
  <2>1. Len(b) \in Nat
    OBVIOUS
  <2> QED
    BY <1>5, <2>1
<1>7. Len(b) <= Len(b) /\ h(0) \in Seq(Word)
  BY <1>0
<1> QED
  BY <1>1, <1>6, <1>7

(* What a line may be.                                                      *)
LineFacts(v, l) ==
    /\ l.t \in LineKind \ {"eof", "broken"} /\ l.reason \in Word /\ l.usage \in Usage
    /\ l.t \in Piece => l.t \in CanSay(v)
    /\ l.t = "args" => said # <<>> /\ Last(said) \in {"call", "args"}
    /\ l.t = "fragment" => v = "responses"
    /\ l.t = "done" => phase = "finished" \/ v \in {"ollama", "dify"}

(* Usage records are made of naturals.                                     *)
LEMMA UsagesTyped ==
  /\ NoUsage \in Usage
  /\ \A x, y, z \in Nat : [prompt |-> x, completion |-> y, cached |-> z] \in Usage
BY DEF NoUsage, Usage

(* The parts of a line.                                                    *)
LEMMA LineIs ==
  ASSUME NEW l, NEW t, NEW r, NEW u, l = Line(t, r, u)
  PROVE  l.t = t /\ l.reason = r /\ l.usage = u
BY DEF Line

(* The word that says nothing.                                             *)
LEMMA EmptyWord == "" \in Word
BY DEF Word

(* What a handler may rely on in a line its upstream sends.                *)
LEMMA LinesAreSuch ==
  ASSUME NEW v, NEW l \in Lines(v)
  PROVE  LineFacts(v, l)
<1> DEFINE Fits(t, r, u) ==
               \/ r = "" /\ u = NoUsage /\ t \in CanSay(v) \cup {"junk", "fragment", "other", "error"}
               \/ r = "" /\ t = "open" /\ u = OpenUsage(v)
               \/ r = "" /\ t = "done" /\ u = DoneUsage(v)
               \/ r \in Reasons(v) /\ t = "finish" /\ u = FinishUsage(v)
               \/ r = "" /\ t = "usage" /\ u \in {[prompt |-> 2, completion |-> 3, cached |-> c] : c \in {0, 1}}
<1>1. \E t, r, u : l = Line(t, r, u) /\ Fits(t, r, u)
  <2>1. \/ l \in {Line(t, "", NoUsage) : t \in CanSay(v) \cup {"junk", "fragment", "other", "error"}}
        \/ l \in {Line("open", "", OpenUsage(v)), Line("done", "", DoneUsage(v))}
        \/ l \in {Line("finish", r, FinishUsage(v)) : r \in Reasons(v)}
        \/ l \in {Line("usage", "", [prompt |-> 2, completion |-> 3, cached |-> c]) : c \in {0, 1}}
    BY Zenon DEF Lines, LinesOf
  <2>2. CASE l \in {Line(t, "", NoUsage) : t \in CanSay(v) \cup {"junk", "fragment", "other", "error"}}
    BY <2>2, Zenon
  <2>3. CASE l \in {Line("open", "", OpenUsage(v)), Line("done", "", DoneUsage(v))}
    BY <2>3, Zenon
  <2>4. CASE l \in {Line("finish", r, FinishUsage(v)) : r \in Reasons(v)}
    BY <2>4, Zenon
  <2>5. CASE l \in {Line("usage", "", [prompt |-> 2, completion |-> 3, cached |-> c]) : c \in {0, 1}}
    BY <2>5, ZenonT(40)
  <2> QED
    BY <2>1, <2>2, <2>3, <2>4, <2>5
<1>2. PICK t, r, u : l = Line(t, r, u) /\ Fits(t, r, u)
  BY <1>1
<1>3. l.t = t /\ l.reason = r /\ l.usage = u
  BY <1>2 DEF Line
<1>11. l.reason \in Word
  <2>1. ASSUME NEW x \in Reasons(v) PROVE x \in Word
    BY DEF Reasons, Word
  <2> QED
    BY <1>2, <1>3, <2>1, EmptyWord
<1>12. l.usage \in Usage
  <2>1. OpenUsage(v) \in Usage /\ DoneUsage(v) \in Usage /\ FinishUsage(v) \in Usage
    BY UsagesTyped DEF OpenUsage, DoneUsage, FinishUsage
  <2>2. \A c \in {0, 1} : [prompt |-> 2, completion |-> 3, cached |-> c] \in Usage
    BY UsagesTyped
  <2> QED
    BY <1>2, <1>3, <2>1, <2>2, UsagesTyped
<1>13. l.t \in CanSay(v) \/ l.t \in {"junk", "fragment", "other", "error", "open", "finish", "usage", "done"}
  BY <1>2, <1>3
<1>4. CanSay(v) \subseteq Piece
  BY DEF CanSay, Piece
<1>5. l.t \in LineKind \ {"eof", "broken"}
  BY <1>13, <1>4 DEF LineKind, Piece
<1>6. l.t \in Piece => l.t \in CanSay(v)
  BY <1>13 DEF Piece
<1>7. MayCome(v, l)
  BY DEF Lines
<1>8. l.t = "args" => said # <<>> /\ Last(said) \in {"call", "args"}
  BY <1>7 DEF MayCome
<1>9. l.t = "fragment" => v = "responses"
  BY <1>7 DEF MayCome
<1>10. l.t = "done" => phase = "finished" \/ v \in {"ollama", "dify"}
  BY <1>7 DEF MayCome
<1> QED
  BY <1>11, <1>12, <1>5, <1>6, <1>8, <1>9, <1>10 DEF LineFacts

(* Events, and sequences of events, that tell the client nothing, a piece,  *)
(* or that it is over.                                                      *)
Silent(e) == e \in Event /\ ~IsDelta(e) /\ e.e # "stop"
Telling(e, k) == e \in Event /\ IsDelta(e) /\ e.k = k /\ e.e # "stop"

Mute(b) == b \in Seq(Event) /\ Quiet(b) /\ \A n \in DOMAIN b : b[n].e # "stop"
Tells(b, k) == b \in Seq(Event) /\ Brings(b, k) /\ \A n \in DOMAIN b : b[n].e # "stop"
Finale(b) == /\ b \in Seq(Event) /\ Quiet(b) /\ b # <<>>
             /\ \A n \in DOMAIN b : b[n].e = "stop" <=> n = Len(b)

SilentKind == EventKind \ {"delta", "block start", "item added", "stop"}

(* Of which kind an event is.                                               *)
LEMMA EventsAre ==
  /\ \A e \in SilentKind, k \in Word, i \in Int : Silent(Ev(e, k, i))
  /\ \A k \in {"text", "think", "message"}, i \in Int :
        Silent(Ev("block start", k, i)) /\ Silent(Ev("item added", k, i))
  /\ \A k \in Piece, i \in Int : Telling(Ev("delta", k, i), k)
  /\ \A i \in Int : Telling(Ev("block start", "call", i), "call") /\ Telling(Ev("item added", "call", i), "call")
  /\ Ev("stop", "", 0) \in Event /\ ~IsDelta(Ev("stop", "", 0)) /\ Ev("stop", "", 0).e = "stop"
<1>1. ASSUME NEW e \in EventKind, NEW k \in Word, NEW i \in Int
      PROVE  Ev(e, k, i) \in Event /\ Ev(e, k, i).e = e /\ Ev(e, k, i).k = k
  BY DEF Ev, Event
<1>2. (\A k \in Piece : k \in Word) /\ \A k \in {"text", "think", "message", "call"} : k \in Word
  BY DEF Word, Piece
<1>3. \A e \in {"delta", "block start", "item added", "stop"} : e \in EventKind
  BY DEF EventKind
<1>4. ASSUME NEW e \in SilentKind, NEW k \in Word, NEW i \in Int PROVE Silent(Ev(e, k, i))
  <2>1. e \in EventKind /\ e \notin {"delta", "block start", "item added", "stop"}
    BY DEF SilentKind
  <2>2. Ev(e, k, i) \in Event /\ Ev(e, k, i).e = e
    BY <1>1, <2>1, ZenonT(40)
  <2> QED
    BY <2>1, <2>2 DEF Silent, IsDelta
<1>5. ASSUME NEW k \in {"text", "think", "message"}, NEW i \in Int
      PROVE  Silent(Ev("block start", k, i)) /\ Silent(Ev("item added", k, i))
  <2>1. k \in Word /\ k # "call"
    BY <1>2
  <2>2. ASSUME NEW e \in {"block start", "item added"} PROVE Silent(Ev(e, k, i))
    <3>1. Ev(e, k, i) \in Event /\ Ev(e, k, i).e = e /\ Ev(e, k, i).k = k
      <4>1. e \in EventKind
        BY <1>3
      <4> QED
        BY <2>1, <4>1 DEF Ev, Event
    <3> QED
      BY <2>1, <3>1 DEF Silent, IsDelta
  <2> QED
    BY <2>2
<1>6. ASSUME NEW k \in Piece, NEW i \in Int PROVE Telling(Ev("delta", k, i), k)
  <2>1. Ev("delta", k, i) \in Event /\ Ev("delta", k, i).e = "delta" /\ Ev("delta", k, i).k = k
    <3>1. "delta" \in EventKind
      BY <1>3
    <3>2. k \in Word
      BY <1>2
    <3> QED
      BY <1>1, <3>1, <3>2
  <2> QED
    BY <2>1 DEF Telling, IsDelta
<1>7. ASSUME NEW e \in {"block start", "item added"}, NEW i \in Int PROVE Telling(Ev(e, "call", i), "call")
  <2>1. Ev(e, "call", i) \in Event /\ Ev(e, "call", i).e = e /\ Ev(e, "call", i).k = "call"
    <3>1. e \in EventKind
      BY <1>3
    <3>2. "call" \in Word
      BY <1>2
    <3> QED
      BY <1>1, <3>1, <3>2, ZenonT(40)
  <2> QED
    BY <2>1 DEF Telling, IsDelta
<1>8. Ev("stop", "", 0) \in Event /\ ~IsDelta(Ev("stop", "", 0)) /\ Ev("stop", "", 0).e = "stop"
  <2>1. Ev("stop", "", 0) \in Event /\ Ev("stop", "", 0).e = "stop"
    <3>1. "stop" \in EventKind
      BY <1>3, Zenon
    <3>2. 0 \in Int
      OBVIOUS
    <3> QED
      BY <3>1, <3>2, EmptyWord DEF Ev, Event
  <2> QED
    BY <2>1 DEF IsDelta
<1> QED
  BY <1>4, <1>5, <1>6, <1>7, <1>8

(* How they are put together.                                               *)
LEMMA Alone ==
  /\ Mute(<<>>)
  /\ \A e : Silent(e) => Mute(<<e>>)
  /\ \A e, k : Telling(e, k) => Tells(<<e>>, k)
  /\ \A e \in Event : ~IsDelta(e) /\ e.e = "stop" => Finale(<<e>>)
<1>1. Mute(<<>>)
  BY DEF Mute, Quiet
<1>2. ASSUME NEW e, Silent(e) PROVE Mute(<<e>>)
  BY <1>2 DEF Silent, Mute, Quiet
<1>3. ASSUME NEW e, NEW k, Telling(e, k) PROVE Tells(<<e>>, k)
  BY <1>3 DEF Telling, Tells, Brings
<1>4. ASSUME NEW e \in Event, ~IsDelta(e), e.e = "stop" PROVE Finale(<<e>>)
  BY <1>4 DEF Finale, Quiet
<1> QED
  BY <1>1, <1>2, <1>3, <1>4

(* What is told is told behind events that tell nothing.                   *)
LEMMA Joined ==
  ASSUME NEW a, Mute(a), NEW b
  PROVE  /\ Mute(b) => Mute(a \o b)
         /\ \A k : Tells(b, k) => Tells(a \o b, k)
         /\ Finale(b) => Finale(a \o b)
<1>1. ASSUME b \in Seq(Event)
      PROVE  /\ a \o b \in Seq(Event) /\ Len(a \o b) = Len(a) + Len(b)
             /\ Len(a) \in Nat /\ Len(b) \in Nat
             /\ DOMAIN a = 1 .. Len(a) /\ DOMAIN b = 1 .. Len(b) /\ DOMAIN (a \o b) = 1 .. Len(a) + Len(b)
             /\ \A n \in DOMAIN (a \o b) :
                  \/ n \in DOMAIN a /\ (a \o b)[n] = a[n]
                  \/ n > Len(a) /\ n - Len(a) \in DOMAIN b /\ (a \o b)[n] = b[n - Len(a)]
  <2>1. a \in Seq(Event)
    BY DEF Mute
  <2> QED
    BY <1>1, <2>1
<1>2. Mute(b) => Mute(a \o b)
  BY <1>1 DEF Mute, Quiet
<1>3. ASSUME NEW k, Tells(b, k) PROVE Tells(a \o b, k)
  <2>1. b \in Seq(Event) /\ Len(b) > 0
    BY <1>3 DEF Tells, Brings
  <2>2. a \o b # <<>> /\ (a \o b)[Len(a \o b)] = b[Len(b)]
    BY <1>1, <2>1
  <2>3. \A n \in DOMAIN (a \o b) : (a \o b)[n].e # "stop"
    BY <1>1, <1>3, <2>1 DEF Tells, Mute
  <2>4. \A n \in DOMAIN (a \o b) : n < Len(a \o b) => ~IsDelta((a \o b)[n])
    BY <1>1, <1>3, <2>1 DEF Tells, Brings, Mute, Quiet
  <2> QED
    BY <1>1, <1>3, <2>1, <2>2, <2>3, <2>4 DEF Tells, Brings
<1>4. ASSUME Finale(b) PROVE Finale(a \o b)
  <2>1. b \in Seq(Event) /\ Len(b) > 0
    BY <1>4 DEF Finale
  <2>2. a \o b # <<>>
    BY <1>1, <2>1
  <2>3. \A n \in DOMAIN (a \o b) : ~IsDelta((a \o b)[n])
    BY <1>1, <1>4, <2>1 DEF Finale, Mute, Quiet
  <2>4. \A n \in DOMAIN (a \o b) : (a \o b)[n].e = "stop" <=> n = Len(a \o b)
    BY <1>1, <1>4, <2>1, SMTT(30) DEF Finale, Mute
  <2> QED
    BY <1>1, <2>1, <2>2, <2>3, <2>4 DEF Finale, Quiet
<1> QED
  BY <1>2, <1>3, <1>4

(* Sequences of the same length and elements are the same.                  *)
LEMMA SameSequence ==
  ASSUME NEW E, NEW s \in Seq(E), NEW t \in Seq(E), Len(s) = Len(t), \A i \in 1 .. Len(s) : s[i] = t[i]
  PROVE  s = t
OBVIOUS

(* Two and three events are one and those that follow it.                  *)
LEMMA Pairs ==
  /\ \A a, b \in Event : <<a, b>> = <<a>> \o <<b>>
  /\ \A a, b, c \in Event : <<a, b, c>> = <<a>> \o <<b, c>>
<1>1. ASSUME NEW E, NEW a \in E, NEW b \in E PROVE <<a, b>> = <<a>> \o <<b>>
  <2>1. <<a, b>> \in Seq(E) /\ <<a>> \in Seq(E) /\ <<b>> \in Seq(E) /\ <<a>> \o <<b>> \in Seq(E)
    OBVIOUS
  <2>2. Len(<<a>> \o <<b>>) = 2 /\ (<<a>> \o <<b>>)[1] = a /\ (<<a>> \o <<b>>)[2] = b
    BY <2>1
  <2>3. Len(<<a, b>>) = 2 /\ <<a, b>>[1] = a /\ <<a, b>>[2] = b
    OBVIOUS
  <2>4. \A i \in 1 .. 2 : <<a, b>>[i] = (<<a>> \o <<b>>)[i]
    BY <2>2, <2>3
  <2> QED
    BY <2>1, <2>2, <2>3, <2>4, SameSequence
<1>2. ASSUME NEW E, NEW a \in E, NEW b \in E, NEW c \in E PROVE <<a, b, c>> = <<a>> \o <<b, c>>
  <2>1. <<a, b, c>> \in Seq(E) /\ <<a>> \in Seq(E) /\ <<b, c>> \in Seq(E)
    OBVIOUS
  <2>2. /\ Len(<<a>> \o <<b, c>>) = 3 /\ (<<a>> \o <<b, c>>)[1] = a
        /\ (<<a>> \o <<b, c>>)[2] = b /\ (<<a>> \o <<b, c>>)[3] = c
    BY <2>1
  <2> QED
    BY <2>1, <2>2
<1> QED
  BY <1>1, <1>2

(* Two and three events that follow silent ones.                            *)
LEMMA InRow ==
  ASSUME NEW a, Mute(<<a>>), NEW b
  PROVE  /\ Mute(<<b>>) => Mute(<<a, b>>)
         /\ \A k : Tells(<<b>>, k) => Tells(<<a, b>>, k)
         /\ Finale(<<b>>) => Finale(<<a, b>>)
         /\ \A c : Mute(<<b>>) /\ Mute(<<c>>) => Mute(<<a, b, c>>)
         /\ \A c, k : Mute(<<b>>) /\ Tells(<<c>>, k) => Tells(<<a, b, c>>, k)
<1>1. \A x : <<x>> \in Seq(Event) => x \in Event
  <2>1. ASSUME NEW x, <<x>> \in Seq(Event) PROVE x \in Event
    <3>1. <<x>>[1] \in Event
      BY <2>1
    <3> QED
      BY <3>1
  <2> QED
    BY <2>1
<1>2. \A x : Mute(<<x>>) => x \in Event
  BY <1>1 DEF Mute
<1>3. \A x, k : Tells(<<x>>, k) => x \in Event
  BY <1>1 DEF Tells
<1>4. \A x : Finale(<<x>>) => x \in Event
  BY <1>1 DEF Finale
<1>5. a \in Event
  BY <1>2
<1>6. Mute(<<b>>) => Mute(<<a, b>>)
  BY <1>2, <1>5, Pairs, Joined, ZenonT(40)
<1>7. ASSUME NEW k, Tells(<<b>>, k) PROVE Tells(<<a, b>>, k)
  <2>1. b \in Event
    BY <1>3, <1>7
  <2>2. <<a, b>> = <<a>> \o <<b>>
    BY <1>5, <2>1, Pairs
  <2>3. Tells(<<a>> \o <<b>>, k)
    BY <1>7, Joined
  <2> QED
    BY <2>2, <2>3
<1>8. Finale(<<b>>) => Finale(<<a, b>>)
  BY <1>4, <1>5, Pairs, Joined, ZenonT(40)
<1>9. ASSUME NEW c, Mute(<<b>>), Mute(<<c>>) PROVE Mute(<<a, b, c>>)
  <2>1. b \in Event /\ c \in Event
    BY <1>2, <1>9
  <2>2. <<a, b, c>> = <<a>> \o <<b, c>> /\ <<b, c>> = <<b>> \o <<c>>
    BY <1>5, <2>1, Pairs
  <2>3. Mute(<<b>> \o <<c>>)
    BY <1>9, Joined
  <2>4. Mute(<<a>> \o <<b, c>>)
    BY <2>2, <2>3, Joined
  <2> QED
    BY <2>2, <2>4
<1>10. ASSUME NEW c, NEW k, Mute(<<b>>), Tells(<<c>>, k) PROVE Tells(<<a, b, c>>, k)
  <2>1. b \in Event /\ c \in Event
    BY <1>2, <1>3, <1>10
  <2>2. <<a, b, c>> = <<a>> \o <<b, c>> /\ <<b, c>> = <<b>> \o <<c>>
    BY <1>5, <2>1, Pairs
  <2>3. Tells(<<b>> \o <<c>>, k)
    BY <1>10, Joined
  <2>4. Tells(<<a>> \o <<b, c>>, k)
    BY <2>2, <2>3, Joined
  <2> QED
    BY <2>2, <2>4
<1> QED
  BY <1>6, <1>7, <1>8, <1>9, <1>10

(* What a handler makes of a line: a piece that is kept is told, anything   *)
(* else says nothing; some end the client's stream at the terminator.       *)
Makes(h, l, r) ==
    /\ r.s \in Locals
    /\ IF l.t \in Piece /\ Keeps(h, l.t) THEN Tells(r.emit, l.t)
       ELSE Mute(r.emit) \/ (l.t = "done" /\ h # "ollama" /\ Finale(r.emit))

(* The vocabulary of each upstream.                                         *)
LEMMA Vocabulary ==
  /\ \A h \in {"openai to claude", "openai to gemini", "openai to responses"} : Speaks[h] = "openai"
  /\ \A h \in {"claude to openai", "claude native"} : Speaks[h] = "claude"
  /\ \A h \in {"gemini to openai", "gemini native"} : Speaks[h] = "gemini"
  /\ Speaks["responses to openai"] = "responses"
  /\ \A h \in {"ollama", "coze", "dify"} : Speaks[h] = h
  /\ CanSay("gemini") = {"text", "think", "call"}
  /\ \A v \in {"ollama", "coze", "dify"} : CanSay(v) = {"text"}
BY DEF Speaks, AllHandlers, CanSay

(* Reasons are translated to reasons.                                       *)
LEMMA ReasonsAreWords ==
  ASSUME NEW r \in Word
  PROVE  /\ OpenAIFinishReasonToClaude(r) \in Word /\ ClaudeStopReasonToOpenAI(r) \in Word
         /\ GeminiFinishReasonToOpenAI(r) \in Word /\ OpenAIFinishReasonToGemini(r) \in Word
<1>1. \A x \in {"end_turn", "max_tokens", "tool_use", "refusal", "stop", "length", "tool_calls",
                "content_filter", "", "STOP", "MAX_TOKENS", "SAFETY", "call", "args", "text", "think", "message",
                "completed", "sent", "text done", "fragments"} : x \in Word
  BY DEF Word, Piece
<1>2. OpenAIFinishReasonToClaude(r) \in Word
  BY <1>1 DEF OpenAIFinishReasonToClaude
<1>3. ClaudeStopReasonToOpenAI(r) \in Word
  BY <1>1 DEF ClaudeStopReasonToOpenAI
<1>4. GeminiFinishReasonToOpenAI(r) \in Word
  BY <1>1 DEF GeminiFinishReasonToOpenAI
<1>5. OpenAIFinishReasonToGemini(r) \in Word
  BY <1>1 DEF OpenAIFinishReasonToGemini
<1> QED
  BY <1>2, <1>3, <1>4, <1>5

(* Words that handlers write.                                               *)
LEMMA WordsTyped ==
  \A x \in {"stop", "tool_calls", "", "call", "args", "text", "think", "message",
            "sent", "text done", "fragments"} : x \in Word
BY DEF Word, Piece

(* Kinds that say nothing.                                                  *)
LEMMA KindsTyped ==
  \A e \in {"start", "block stop", "message delta", "empty", "nameless call", "finish", "part added",
            "text done", "part done", "item done", "args done"} \cup (LineKind \ {"eof", "broken"}) : e \in SilentKind
BY DEF SilentKind, EventKind, LineKind, Piece

(* The events of the handlers, one by one.                                  *)
LEMMA Sentences ==
  /\ \A i \in Int : /\ Tells(<<Ev("delta", "text", i)>>, "text") /\ Tells(<<Ev("delta", "think", i)>>, "think")
                     /\ Tells(<<Ev("delta", "call", i)>>, "call") /\ Tells(<<Ev("delta", "args", i)>>, "args")
                     /\ Tells(<<Ev("block start", "call", i)>>, "call")
                     /\ Tells(<<Ev("item added", "call", i)>>, "call")
  /\ \A k \in {"text", "think", "message"}, i \in Int :
        Mute(<<Ev("block start", k, i)>>) /\ Mute(<<Ev("item added", k, i)>>)
  /\ \A e \in SilentKind, k \in Word, i \in Int : Mute(<<Ev(e, k, i)>>)
  /\ Finale(<<Ev("stop", "", 0)>>)
<1>1. \A k \in {"text", "think", "call", "args"} : k \in Piece
  BY DEF Piece
<1>2. ASSUME NEW i \in Int
      PROVE  /\ Tells(<<Ev("delta", "text", i)>>, "text") /\ Tells(<<Ev("delta", "think", i)>>, "think")
             /\ Tells(<<Ev("delta", "call", i)>>, "call") /\ Tells(<<Ev("delta", "args", i)>>, "args")
             /\ Tells(<<Ev("block start", "call", i)>>, "call")
             /\ Tells(<<Ev("item added", "call", i)>>, "call")
  <2>1. ASSUME NEW k \in {"text", "think", "call", "args"} PROVE Tells(<<Ev("delta", k, i)>>, k)
    BY <1>1, EventsAre, Alone, Zenon
  <2>2. Tells(<<Ev("block start", "call", i)>>, "call") /\ Tells(<<Ev("item added", "call", i)>>, "call")
    BY EventsAre, Alone, Zenon
  <2> QED
    BY <2>1, <2>2
<1>3. ASSUME NEW k \in {"text", "think", "message"}, NEW i \in Int
      PROVE  Mute(<<Ev("block start", k, i)>>) /\ Mute(<<Ev("item added", k, i)>>)
  BY EventsAre, Alone, Zenon
<1>4. ASSUME NEW e \in SilentKind, NEW k \in Word, NEW i \in Int PROVE Mute(<<Ev(e, k, i)>>)
  BY EventsAre, Alone, Zenon
<1>5. Finale(<<Ev("stop", "", 0)>>)
  BY EventsAre, Alone
<1> QED
  BY <1>2, <1>3, <1>4, <1>5

(* The same without an index.                                               *)
LEMMA PlainPieces ==
  /\ Tells(<<Ev("delta", "text", 0)>>, "text") /\ Tells(<<Ev("delta", "think", 0)>>, "think")
  /\ Tells(<<Ev("delta", "call", 0)>>, "call") /\ Tells(<<Ev("delta", "args", 0)>>, "args")
<1>1. 0 \in Int
  OBVIOUS
<1> QED
  BY <1>1, Sentences, Zenon

(* Plain sentences that say nothing.                                        *)
LEMMA Murmurs ==
  /\ Mute(<<Ev("start", "", 0)>>) /\ Mute(<<Ev("empty", "", 0)>>) /\ Mute(<<Ev("finish", "stop", 0)>>)
  /\ Mute(<<Ev("part added", "text", 0)>>) /\ Mute(<<Ev("item added", "message", 0)>>)
  /\ \A k \in Word : Mute(<<Ev("finish", k, 0)>>) /\ Mute(<<Ev("message delta", k, 0)>>)
  /\ \A k \in Word, i \in Int : Mute(<<Ev("block stop", k, i)>>)
  /\ \A i \in Int : /\ Mute(<<Ev("block start", "text", i)>>) /\ Mute(<<Ev("block start", "think", i)>>)
                     /\ Mute(<<Ev("text done", "", i)>>) /\ Mute(<<Ev("part done", "", i)>>)
                     /\ Mute(<<Ev("item done", "message", i)>>) /\ Mute(<<Ev("item done", "call", i)>>)
                     /\ Mute(<<Ev("args done", "", i)>>) /\ Mute(<<Ev("nameless call", "", i)>>)
  /\ \A t \in LineKind \ {"eof", "broken"} : Mute(<<Ev(t, "", 0)>>)
<1> DEFINE M(e) == \A k \in Word, i \in Int : Mute(<<Ev(e, k, i)>>)
<1>1. \A e \in SilentKind : M(e)
  BY Sentences
<1>2. M("start") /\ M("empty") /\ M("finish") /\ M("part added") /\ M("message delta") /\ M("block stop")
  <2> HIDE DEF M
  <2> QED
    BY <1>1, KindsTyped
<1>3. M("text done") /\ M("part done") /\ M("item done") /\ M("args done") /\ M("nameless call")
  <2> HIDE DEF M
  <2> QED
    BY <1>1, KindsTyped
<1>4. \A t \in LineKind \ {"eof", "broken"} : M(t)
  <2> HIDE DEF M
  <2> QED
    BY <1>1, KindsTyped
<1>5. "" \in Word /\ "stop" \in Word /\ "text" \in Word /\ "message" \in Word /\ "call" \in Word
  BY WordsTyped, Zenon
<1>6. 0 \in Int
  OBVIOUS
<1> QED
  BY <1>2, <1>3, <1>4, <1>5, <1>6, Sentences
(* Ollama, Coze and Dify.                                                   *)
LEMMA OllamaMakes ==
  ASSUME NEW s \in Locals, NEW l, LineFacts("ollama", l)
  PROVE  Makes("ollama", l, Ollama(s, l))
<1>1. l.t \in Piece => l.t = "text"
  BY Vocabulary DEF LineFacts
<1>2. CASE l.t = "text"
  <2>1. Tells(<<Ev("delta", "text", 0)>>, "text")
    BY PlainPieces
  <2>2. Ollama(s, l).emit = <<Ev("delta", "text", 0)>> /\ Ollama(s, l).s = s
    BY <1>2 DEF Ollama
  <2>3. Tells(Ollama(s, l).emit, "text")
    BY <2>1, <2>2
  <2> QED
    BY <1>2, <2>2, <2>3 DEF Makes, Keeps, Piece
<1>3. CASE l.t = "done"
  <2>1. Mute(<<Ev("finish", "stop", 0)>>)
    BY Murmurs
  <2>2. Ollama(s, l).emit = <<Ev("finish", "stop", 0)>> /\ Ollama(s, l).s = [s EXCEPT !.usage = l.usage]
    BY <1>3 DEF Ollama
  <2>3. Mute(Ollama(s, l).emit)
    BY <2>1, <2>2
  <2>4. Ollama(s, l).s \in Locals
    BY <2>2 DEF LineFacts, Locals
  <2> QED
    BY <1>1, <1>3, <2>3, <2>4 DEF Makes
<1>4. CASE l.t \notin {"text", "done"}
  <2>1. Ollama(s, l).emit = <<>> /\ Ollama(s, l).s = s
    BY <1>4 DEF Ollama
  <2> QED
    BY <1>1, <1>4, <2>1, Alone DEF Makes
<1> QED
  BY <1>2, <1>3, <1>4

(* handleStream of coze: the text of a message, a reason at its end.       *)
LEMMA CozeMakes ==
  ASSUME NEW s \in Locals, NEW l, LineFacts("coze", l)
  PROVE  Makes("coze", l, Coze(s, l))
<1> DEFINE r == Coze(s, l)
<1>1. l.t \in Piece => l.t = "text"
  BY Vocabulary DEF LineFacts
<1>2. CASE l.t = "text"
  <2>1. r.emit = <<Ev("delta", "text", 0)>> /\ r.s = s
    BY <1>2 DEF Coze
  <2>2. Tells(r.emit, "text")
    BY <2>1, PlainPieces
  <2> QED
    BY <1>2, <2>1, <2>2 DEF Makes, Keeps, Piece
<1>3. CASE l.t = "finish"
  <2>1. r.emit = <<Ev("finish", "stop", 0)>> /\ r.s = s
    BY <1>3 DEF Coze
  <2>2. Mute(r.emit)
    BY <2>1, Murmurs
  <2> QED
    BY <1>1, <1>3, <2>1, <2>2 DEF Makes
<1>4. CASE l.t = "done"
  <2>1. r.emit = <<Ev("stop", "", 0)>> /\ r.s = s
    BY <1>4 DEF Coze
  <2>2. Finale(r.emit)
    BY <2>1, Sentences
  <2> QED
    BY <1>1, <1>4, <2>1, <2>2 DEF Makes
<1>5. CASE l.t \notin {"text", "finish", "done"}
  <2>1. r.emit = <<>> /\ r.s = s
    BY <1>5 DEF Coze
  <2> QED
    BY <1>1, <1>5, <2>1, Alone DEF Makes
<1> QED
  BY <1>2, <1>3, <1>4, <1>5

(* handleStream of dify: the text, the usage with the last line.           *)
LEMMA DifyMakes ==
  ASSUME NEW s \in Locals, NEW l, LineFacts("dify", l)
  PROVE  Makes("dify", l, Dify(s, l))
<1> DEFINE r == Dify(s, l)
<1>1. l.t \in Piece => l.t = "text"
  BY Vocabulary DEF LineFacts
<1>2. CASE l.t = "text"
  <2>1. r.emit = <<Ev("delta", "text", 0)>> /\ r.s = s
    BY <1>2 DEF Dify
  <2>2. Tells(r.emit, "text")
    BY <2>1, PlainPieces
  <2> QED
    BY <1>2, <2>1, <2>2 DEF Makes, Keeps, Piece
<1>3. CASE l.t = "done"
  <2>1. r.emit = <<Ev("finish", "stop", 0), Ev("stop", "", 0)>> /\ r.s = [s EXCEPT !.usage = l.usage]
    BY <1>3 DEF Dify
  <2>2. Mute(<<Ev("finish", "stop", 0)>>) /\ Finale(<<Ev("stop", "", 0)>>)
    BY Murmurs, Sentences
  <2>4. Finale(r.emit)
    BY <2>1, <2>2, InRow
  <2>3. r.s \in Locals
    BY <2>1 DEF LineFacts, Locals
  <2> QED
    BY <1>1, <1>3, <2>4, <2>3 DEF Makes
<1>4. CASE l.t \notin {"text", "done"}
  <2>1. r.emit = <<>> /\ r.s = s
    BY <1>4 DEF Dify
  <2> QED
    BY <1>1, <1>4, <2>1, Alone DEF Makes
<1> QED
  BY <1>2, <1>3, <1>4

(* Gemini to OpenAI, and passed on.                                         *)
LEMMA GeminiMakes ==
  ASSUME NEW s \in Locals, NEW l, LineFacts("gemini", l)
  PROVE  Makes("gemini to openai", l, GeminiToOpenAI(s, l))
<1> DEFINE r == GeminiToOpenAI(s, l)
<1>1. l.t \in Piece => l.t \in {"text", "think", "call"}
  BY Vocabulary DEF LineFacts
<1>2. CASE l.t \in {"text", "think"}
  <2>1. r.emit = <<Ev("delta", l.t, 0)>> /\ r.s = s
    BY <1>2 DEF GeminiToOpenAI
  <2>2. Tells(r.emit, l.t)
    BY <1>2, <2>1, PlainPieces
  <2> QED
    BY <1>2, <2>1, <2>2 DEF Makes, Keeps, Piece
<1>3. CASE l.t = "call"
  <2>1. r.emit = <<Ev("delta", "call", 0)>> /\ r.s = [s EXCEPT !.index = @ + 1]
    BY <1>3 DEF GeminiToOpenAI
  <2>2. Tells(r.emit, "call")
    BY <2>1, PlainPieces
  <2>3. r.s \in Locals
    BY <2>1, SMTT(30) DEF Locals
  <2> QED
    BY <1>3, <2>2, <2>3 DEF Makes, Keeps, Piece
<1>4. CASE l.t = "finish"
  <2>1. r.emit = <<>> /\ r.s = [s EXCEPT !.finish = GeminiFinishReasonToOpenAI(l.reason), !.usage = l.usage]
    BY <1>4 DEF GeminiToOpenAI
  <2>2. r.s \in Locals
    BY <2>1, ReasonsAreWords DEF LineFacts, Locals
  <2> QED
    BY <1>1, <1>4, <2>1, <2>2, Alone DEF Makes
<1>5. CASE l.t \notin {"text", "think", "call", "finish"}
  <2>1. r.emit = <<>> /\ r.s = s
    BY <1>5 DEF GeminiToOpenAI
  <2> QED
    BY <1>1, <1>5, <2>1, Alone DEF Makes
<1> QED
  BY <1>2, <1>3, <1>4, <1>5

(* The native Gemini handler passes every line on.                         *)
LEMMA GeminiNativeMakes ==
  ASSUME NEW s \in Locals, NEW l, LineFacts("gemini", l)
  PROVE  Makes("gemini native", l, GeminiNative(s, l))
<1> DEFINE r == GeminiNative(s, l)
<1>1. l.t \in Piece => l.t \in {"text", "think", "call"}
  BY Vocabulary DEF LineFacts
<1>2. r.s \in Locals
  BY DEF GeminiNative, LineFacts, Locals
<1>3. CASE l.t \in {"text", "think", "call"}
  <2>1. r.emit = <<Ev("delta", l.t, 0)>>
    BY <1>3 DEF GeminiNative
  <2>2. Tells(r.emit, l.t)
    BY <1>3, <2>1, PlainPieces
  <2> QED
    BY <1>2, <1>3, <2>2 DEF Makes, Keeps, Piece
<1>4. CASE l.t = "finish"
  <2>1. r.emit = <<Ev("finish", l.reason, 0)>>
    BY <1>4 DEF GeminiNative
  <2>2. Mute(r.emit)
    BY <2>1, Murmurs DEF LineFacts
  <2> QED
    BY <1>1, <1>2, <1>4, <2>2 DEF Makes
<1>5. CASE l.t = "done"
  <2>1. r.emit = <<Ev("stop", "", 0)>>
    BY <1>5 DEF GeminiNative
  <2>2. Finale(r.emit)
    BY <2>1, Sentences
  <2> QED
    BY <1>1, <1>2, <1>5, <2>2 DEF Makes
<1>6. CASE l.t \notin {"text", "think", "call", "finish", "done"}
  <2>1. r.emit = <<Ev(l.t, "", 0)>>
    BY <1>6 DEF GeminiNative
  <2>2. Mute(r.emit)
    BY <2>1, Murmurs DEF LineFacts
  <2> QED
    BY <1>1, <1>2, <1>6, <2>2 DEF Makes
<1> QED
  BY <1>3, <1>4, <1>5, <1>6

(* Claude to OpenAI, and passed on.                                         *)
LEMMA ClaudeUsageTyped ==
  ASSUME NEW u \in Usage, NEW v, NEW l, LineFacts(v, l)
  PROVE  ClaudeUsage(u, l) \in Usage
BY DEF ClaudeUsage, LineFacts, Usage

(* What ends an OpenAI client's stream.                                    *)
LEMMA EndChunk ==
  ASSUME NEW s \in Locals
  PROVE  Finale(ClaudeEndChunk(s))
<1> DEFINE k == IF s.finish = "" THEN "stop" ELSE s.finish
<1>1. s.finish \in Word
  BY DEF Locals
<1>2. "stop" \in Word
  BY WordsTyped, Zenon
<1>3. k \in Word
  BY <1>1, <1>2
<1>4. Mute(<<Ev("finish", k, 0)>>)
  <2> HIDE DEF k
  <2> QED
    BY <1>3, Murmurs, Zenon
<1>5. Finale(<<Ev("stop", "", 0)>>)
  BY Sentences
<1>6. ClaudeEndChunk(s) = <<Ev("finish", k, 0), Ev("stop", "", 0)>>
  BY DEF ClaudeEndChunk
<1> HIDE DEF k
<1> QED
  BY <1>4, <1>5, <1>6, InRow

(* The Claude to OpenAI handler tells the piece of a line and no other.    *)
LEMMA ClaudeMakes ==
  ASSUME NEW s \in Locals, NEW l, LineFacts("claude", l)
  PROVE  Makes("claude to openai", l, ClaudeToOpenAI(s, l))
<1> DEFINE r == ClaudeToOpenAI(s, l)
<1>1. l.t \in Piece <=> l.t \in {"text", "think", "call", "args"}
  BY DEF Piece
<1>0. \A p : Keeps("claude to openai", p)
  BY DEF Keeps
<1>2. CASE l.t = "open"
  <2>1. r.emit = (IF s.started THEN <<>> ELSE <<Ev("start", "", 0)>>)
        /\ r.s = [s EXCEPT !.started = TRUE, !.usage = ClaudeUsage(@, l)]
    BY <1>2 DEF ClaudeToOpenAI
  <2>2. Mute(r.emit)
    BY <2>1, Murmurs, Alone
  <2>3. r.s \in Locals
    <3>1. ClaudeUsage(s.usage, l) \in Usage
      BY ClaudeUsageTyped DEF Locals
    <3> QED
      BY <2>1, <3>1 DEF Locals
  <2> QED
    BY <1>1, <1>2, <2>2, <2>3 DEF Makes
<1>3. CASE l.t \in {"text", "think"}
  <2>1. r.emit = <<Ev("delta", l.t, 0)>> /\ r.s = [s EXCEPT !.words = @ + 1]
    BY <1>3 DEF ClaudeToOpenAI
  <2>2. Tells(r.emit, l.t)
    BY <1>3, <2>1, PlainPieces
  <2>3. r.s \in Locals
    BY <2>1 DEF Locals
  <2> QED
    BY <1>0, <1>1, <1>3, <2>2, <2>3 DEF Makes
<1>4. CASE l.t = "call"
  <2>1. r.emit = <<Ev("delta", "call", 0)>> /\ r.s = [s EXCEPT !.index = @ + 1]
    BY <1>4 DEF ClaudeToOpenAI
  <2>2. Tells(r.emit, "call")
    BY <2>1, PlainPieces
  <2>3. r.s \in Locals
    BY <2>1, SMTT(30) DEF Locals
  <2> QED
    BY <1>0, <1>1, <1>4, <2>2, <2>3 DEF Makes
<1>5. CASE l.t = "args"
  <2>1. r.emit = <<Ev("delta", "args", s.index - 1)>> /\ r.s = s
    BY <1>5 DEF ClaudeToOpenAI
  <2>2. s.index - 1 \in Int
    BY DEF Locals
  <2>3. Tells(r.emit, "args")
    BY <2>1, <2>2, Sentences
  <2> QED
    BY <1>0, <1>1, <1>5, <2>1, <2>3 DEF Makes
<1>6. CASE l.t = "finish"
  <2>1. r.emit = <<>>
        /\ r.s = [s EXCEPT !.finish = ClaudeStopReasonToOpenAI(l.reason), !.usage = ClaudeUsage(@, l)]
    BY <1>6 DEF ClaudeToOpenAI
  <2>2. r.s \in Locals
    <3>1. ClaudeUsage(s.usage, l) \in Usage
      BY ClaudeUsageTyped DEF Locals
    <3>2. ClaudeStopReasonToOpenAI(l.reason) \in Word
      BY ReasonsAreWords DEF LineFacts
    <3> QED
      BY <2>1, <3>1, <3>2 DEF Locals
  <2> QED
    BY <1>1, <1>6, <2>1, <2>2, Alone DEF Makes
<1>7. CASE l.t = "done"
  <2>1. r.emit = ClaudeEndChunk(s) /\ r.s = s
    BY <1>7 DEF ClaudeToOpenAI
  <2> QED
    BY <1>1, <1>7, <2>1, EndChunk DEF Makes
<1>8. CASE l.t \notin {"open", "text", "think", "call", "args", "finish", "done"}
  <2>1. r.emit = <<>> /\ r.s = s
    BY <1>8 DEF ClaudeToOpenAI
  <2> QED
    BY <1>1, <1>8, <2>1, Alone DEF Makes
<1> QED
  BY <1>2, <1>3, <1>4, <1>5, <1>6, <1>7, <1>8

(* The native Claude handler passes every line on as it is.                *)
LEMMA ClaudeNativeMakes ==
  ASSUME NEW s \in Locals, NEW l, LineFacts("claude", l)
  PROVE  Makes("claude native", l, ClaudeNative(s, l))
<1> DEFINE r == ClaudeNative(s, l)
<1>1. l.t \in Piece <=> l.t \in {"text", "think", "call", "args"}
  BY DEF Piece
<1>0. \A p : Keeps("claude native", p)
  BY DEF Keeps
<1>2. r.s \in Locals
  <2>1. r.s = (IF l.t \in {"open", "finish"} THEN [s EXCEPT !.usage = ClaudeUsage(@, l)] ELSE s)
    BY DEF ClaudeNative
  <2>2. ClaudeUsage(s.usage, l) \in Usage
    BY ClaudeUsageTyped DEF Locals
  <2> QED
    BY <2>1, <2>2 DEF Locals
<1>3. CASE l.t \in {"text", "think", "call", "args"}
  <2>1. r.emit = <<Ev("delta", l.t, 0)>>
    BY <1>3 DEF ClaudeNative
  <2>2. Tells(r.emit, l.t)
    BY <1>3, <2>1, PlainPieces
  <2> QED
    BY <1>0, <1>1, <1>2, <1>3, <2>2 DEF Makes
<1>4. CASE l.t = "finish"
  <2>1. r.emit = <<Ev("message delta", l.reason, 0)>>
    BY <1>4 DEF ClaudeNative
  <2>2. Mute(r.emit)
    BY <2>1, Murmurs DEF LineFacts
  <2> QED
    BY <1>1, <1>2, <1>4, <2>2 DEF Makes
<1>5. CASE l.t = "done"
  <2>1. r.emit = <<Ev("stop", "", 0)>>
    BY <1>5 DEF ClaudeNative
  <2>2. Finale(r.emit)
    BY <2>1, Sentences
  <2> QED
    BY <1>1, <1>2, <1>5, <2>2 DEF Makes
<1>6. CASE l.t \notin {"text", "think", "call", "args", "finish", "done"}
  <2>1. r.emit = <<Ev(l.t, "", 0)>>
    BY <1>6 DEF ClaudeNative
  <2>2. Mute(r.emit)
    BY <2>1, Murmurs DEF LineFacts
  <2> QED
    BY <1>1, <1>2, <1>6, <2>2 DEF Makes
<1> QED
  BY <1>3, <1>4, <1>5, <1>6

(* OpenAI to Gemini.                                                        *)
LEMMA GeminiInboundMakes ==
  ASSUME NEW s \in Locals, NEW l, LineFacts("openai", l)
  PROVE  Makes("openai to gemini", l, ToGemini(s, l))
<1> DEFINE r == ToGemini(s, l)
<1>1. l.t \in Piece <=> l.t \in {"text", "think", "call", "args"}
  BY DEF Piece
<1>2. CASE l.t \in {"text", "think", "call"}
  <2>1. r.emit = <<Ev("delta", l.t, 0)>> /\ r.s = s
    BY <1>2 DEF ToGemini
  <2>2. Tells(r.emit, l.t)
    BY <1>2, <2>1, PlainPieces
  <2> QED
    BY <1>1, <1>2, <2>1, <2>2 DEF Makes, Keeps
<1>3. CASE l.t = "args"
  <2>1. r.emit = <<Ev("nameless call", "", 0)>> /\ r.s = s
    BY <1>3 DEF ToGemini
  <2>2. Mute(r.emit)
    <3>1. 0 \in Int
      OBVIOUS
    <3> QED
      BY <2>1, <3>1, Murmurs
  <2> QED
    BY <1>1, <1>3, <2>1, <2>2 DEF Makes, Keeps
<1>4. CASE l.t = "finish"
  <2>1. r.emit = <<Ev("empty", "", 0)>> /\ r.s = [s EXCEPT !.finish = l.reason]
    BY <1>4 DEF ToGemini
  <2>2. Mute(r.emit)
    BY <2>1, Murmurs
  <2>3. r.s \in Locals
    BY <2>1 DEF LineFacts, Locals
  <2> QED
    BY <1>1, <1>4, <2>2, <2>3 DEF Makes
<1>5. CASE l.t = "usage"
  <2>1. r.emit = <<>> /\ r.s = [s EXCEPT !.usage = l.usage]
    BY <1>5 DEF ToGemini
  <2>2. r.s \in Locals
    BY <2>1 DEF LineFacts, Locals
  <2> QED
    BY <1>1, <1>5, <2>1, <2>2, Alone DEF Makes
<1>6. CASE l.t \notin {"text", "think", "call", "args", "finish", "usage"}
  <2>1. r.emit = <<>> /\ r.s = s
    BY <1>6 DEF ToGemini
  <2> QED
    BY <1>1, <1>6, <2>1, Alone DEF Makes
<1> QED
  BY <1>2, <1>3, <1>4, <1>5, <1>6

(* OpenAI to Claude: a handler that keeps a block open.                     *)
LEMMA BlockIsClosed ==
  ASSUME NEW s \in Locals
  PROVE  Mute(CloseBlock(s))
<1>1. s.block \in Word /\ s.index \in Int
  BY DEF Locals
<1>2. Mute(<<Ev("block stop", s.block, s.index)>>)
  BY <1>1, Murmurs
<1> QED
  BY <1>2, Alone DEF CloseBlock

(* text and thinking tell one piece, in a block that is open or opened.    *)
LEMMA BlockDeltaTells ==
  ASSUME NEW s \in Locals, NEW k \in {"text", "think"}
  PROVE  BlockDelta(s, k).s \in Locals /\ Tells(BlockDelta(s, k).emit, k)
<1> DEFINE i == IF s.block = "" THEN s.index ELSE s.index + 1
<1>1. s.index \in Nat /\ i \in Nat /\ i \in Int /\ s.index \in Int
  <2>1. s.index \in Nat
    BY DEF Locals
  <2>2. \A n \in Nat : n \in Int /\ n + 1 \in Nat /\ n + 1 \in Int
    OBVIOUS
  <2> QED
    BY <2>1, <2>2, Zenon
<1>2. k \in Word
  BY WordsTyped
<1>3. CASE s.block = k
  <2>1. BlockDelta(s, k).emit = <<Ev("delta", k, s.index)>> /\ BlockDelta(s, k).s = s
    BY <1>3 DEF BlockDelta
  <2>2. Tells(<<Ev("delta", k, s.index)>>, k)
    BY <1>1, Sentences
  <2> QED
    BY <2>1, <2>2
<1>4. CASE s.block # k
  <2>1. BlockDelta(s, k).emit = CloseBlock(s) \o <<Ev("block start", k, i), Ev("delta", k, i)>>
        /\ BlockDelta(s, k).s = [s EXCEPT !.block = k, !.index = i]
    BY <1>4 DEF BlockDelta
  <2>2. BlockDelta(s, k).s \in Locals
    <3> HIDE DEF i
    <3> QED
      BY <1>1, <1>2, <2>1 DEF Locals
  <2>3. Mute(<<Ev("block start", k, i)>>) /\ Tells(<<Ev("delta", k, i)>>, k)
    <3> HIDE DEF i
    <3> QED
      BY <1>1, Sentences
  <2>4. Tells(<<Ev("block start", k, i), Ev("delta", k, i)>>, k)
    <3> HIDE DEF i
    <3> QED
      BY <2>3, InRow
  <2>5. Tells(BlockDelta(s, k).emit, k)
    <3> DEFINE c == CloseBlock(s)
               d == <<Ev("block start", k, i), Ev("delta", k, i)>>
    <3>1. Mute(c) /\ Tells(d, k) /\ BlockDelta(s, k).emit = c \o d
      BY <2>1, <2>4, BlockIsClosed
    <3> HIDE DEF c, d
    <3> QED
      BY <3>1, Joined
  <2> QED
    BY <2>2, <2>5
<1> QED
  BY <1>3, <1>4

(* A tool call tells one piece, in a block of its own.                     *)
LEMMA ToolUseTells ==
  ASSUME NEW s \in Locals
  PROVE  ToolUse(s).s \in Locals /\ ToolUse(s).s.block = "call" /\ Tells(ToolUse(s).emit, "call")
<1> DEFINE i == IF s.block = "" THEN s.index ELSE s.index + 1
<1>1. i \in Nat /\ i \in Int
  <2>1. s.index \in Nat
    BY DEF Locals
  <2>2. \A n \in Nat : n \in Int /\ n + 1 \in Nat /\ n + 1 \in Int
    OBVIOUS
  <2> QED
    BY <2>1, <2>2, Zenon
<1>2. "call" \in Word
  BY WordsTyped, Zenon
<1>3. ToolUse(s).emit = CloseBlock(s) \o <<Ev("block start", "call", i)>>
      /\ ToolUse(s).s = [s EXCEPT !.block = "call", !.index = i]
  BY DEF ToolUse
<1> HIDE DEF i
<1>4. ToolUse(s).s \in Locals /\ ToolUse(s).s.block = "call"
  BY <1>1, <1>2, <1>3 DEF Locals
<1>5. Tells(<<Ev("block start", "call", i)>>, "call")
  BY <1>1, Sentences
<1>6. Tells(ToolUse(s).emit, "call")
  <2> DEFINE c == CloseBlock(s)
             d == <<Ev("block start", "call", i)>>
  <2>1. Mute(c) /\ Tells(d, "call") /\ ToolUse(s).emit = c \o d
    BY <1>3, <1>5, BlockIsClosed
  <2> HIDE DEF c, d
  <2> QED
    BY <2>1, Joined
<1> QED
  BY <1>4, <1>6

(* What comes before the first line is told tells nothing.                 *)
LEMMA MessageIsStarted ==
  ASSUME NEW s \in Locals
  PROVE  Mute(MessageStart(s)) /\ Mute(SendStartIfNeeded(s)) /\ [s EXCEPT !.started = TRUE] \in Locals
<1>1. Mute(<<Ev("start", "", 0)>>)
  BY Murmurs
<1>2. [s EXCEPT !.started = TRUE] \in Locals
  BY DEF Locals
<1> QED
  BY <1>1, <1>2, Alone DEF MessageStart, SendStartIfNeeded

(* What ToClaude makes of a line, after the start of the message.           *)
ClaudePart(s, l) ==
    LET begun == [s EXCEPT !.started = TRUE]
    IN  CASE l.t \in {"text", "think"} -> BlockDelta(begun, l.t)
          [] l.t = "call" -> ToolUse(begun)
          [] l.t = "args" -> [emit |-> <<Ev("delta", "args", s.index)>>, s |-> begun]
          [] l.t = "finish" -> [emit |-> <<>>, s |-> [begun EXCEPT !.finish = l.reason]]
          [] l.t = "usage" -> [emit |-> <<>>, s |-> [begun EXCEPT !.usage = l.usage]]
          [] OTHER -> [emit |-> <<>>, s |-> begun]

(* What one line is for a Claude client, beside message_start.             *)
LEMMA ClaudePartMakes ==
  ASSUME NEW s \in Locals, NEW l, LineFacts("openai", l)
  PROVE  /\ ClaudePart(s, l).s \in Locals
         /\ IF l.t \in Piece THEN Tells(ClaudePart(s, l).emit, l.t) ELSE Mute(ClaudePart(s, l).emit)
<1> DEFINE begun == [s EXCEPT !.started = TRUE]
           p == ClaudePart(s, l)
<1>11. l.t \in Piece <=> l.t \in {"text", "think", "call", "args"}
  BY DEF Piece
<1>13. begun \in Locals
  BY MessageIsStarted
<1>1. CASE l.t \in {"text", "think"}
  <2>1. p = BlockDelta(begun, l.t)
    BY <1>1 DEF ClaudePart
  <2> QED
    BY <1>11, <1>13, <1>1, <2>1, BlockDeltaTells
<1>2. CASE l.t = "call"
  <2>1. p = ToolUse(begun)
    BY <1>2 DEF ClaudePart
  <2> QED
    BY <1>11, <1>13, <1>2, <2>1, ToolUseTells
<1>3. CASE l.t = "args"
  <2>1. p.emit = <<Ev("delta", "args", s.index)>> /\ p.s = begun
    BY <1>3 DEF ClaudePart
  <2>2. s.index \in Int
    BY DEF Locals
  <2>3. Tells(p.emit, "args")
    BY <2>1, <2>2, Sentences
  <2> QED
    BY <1>11, <1>13, <1>3, <2>1, <2>3
<1>4. CASE l.t = "finish"
  <2>1. p.emit = <<>> /\ p.s = [begun EXCEPT !.finish = l.reason]
    BY <1>4 DEF ClaudePart
  <2>2. p.s \in Locals
    BY <1>13, <2>1 DEF Locals, LineFacts
  <2> QED
    BY <1>11, <1>4, <2>1, <2>2, Alone
<1>5. CASE l.t = "usage"
  <2>1. p.emit = <<>> /\ p.s = [begun EXCEPT !.usage = l.usage]
    BY <1>5 DEF ClaudePart
  <2>2. p.s \in Locals
    BY <1>13, <2>1 DEF Locals, LineFacts
  <2> QED
    BY <1>11, <1>5, <2>1, <2>2, Alone
<1>6. CASE l.t \notin {"text", "think", "call", "args", "finish", "usage"}
  <2>1. p.emit = <<>> /\ p.s = begun
    BY <1>6 DEF ClaudePart
  <2> QED
    BY <1>11, <1>13, <1>6, <2>1, Alone
<1> QED
  BY <1>1, <1>2, <1>3, <1>4, <1>5, <1>6

(* What one line is for a Claude client.                                   *)
LEMMA ToClaudeMakes ==
  ASSUME NEW s \in Locals, NEW l, LineFacts("openai", l)
  PROVE  Makes("openai to claude", l, ToClaude(s, l))
<1> DEFINE p == ClaudePart(s, l)
<1>0. \A x : Keeps("openai to claude", x)
  BY DEF Keeps
<1>2. ToClaude(s, l).emit = MessageStart(s) \o p.emit /\ ToClaude(s, l).s = p.s
  BY DEF ToClaude, ClaudePart
<1>3. Mute(MessageStart(s))
  BY MessageIsStarted
<1>4. p.s \in Locals /\ IF l.t \in Piece THEN Tells(p.emit, l.t) ELSE Mute(p.emit)
  BY ClaudePartMakes
<1> HIDE DEF p
<1>5. IF l.t \in Piece THEN Tells(ToClaude(s, l).emit, l.t) ELSE Mute(ToClaude(s, l).emit)
  BY <1>2, <1>3, <1>4, Joined
<1> QED
  BY <1>0, <1>2, <1>4, <1>5 DEF Makes

(* A block that is open in the client as the locals tell.                   *)
Tracks(b, s) ==
    /\ b.ok /\ b.open = s.block
    /\ b.next = IF s.block = "" THEN 0 ELSE s.index + 1
    /\ s.block = "" => s.index = 0

(* The parts of an event.                                                  *)
LEMMA EventParts ==
  \A e, k, i : Ev(e, k, i).e = e /\ Ev(e, k, i).k = k /\ Ev(e, k, i).i = i
BY DEF Ev

(* Appending is associative.                                               *)
LEMMA Associates ==
  ASSUME NEW E, NEW m \in Seq(E), NEW a \in Seq(E)
  PROVE  /\ \A b \in Seq(E) : m \o (a \o b) = (m \o a) \o b /\ m \o a \in Seq(E)
         /\ \A e \in E : m \o <<e>> = Append(m, e)
         /\ m \o <<>> = m
OBVIOUS

(* One more event.                                                          *)
LEMMA BlockGoesOn ==
  ASSUME NEW m \in Seq(Event), NEW e \in Event
  PROVE  /\ m \o <<e>> \in Seq(Event) /\ BlockIn(m) \in Block /\ BlockIn(m \o <<e>>) \in Block
         /\ BlockIn(m \o <<e>>) = Bracket(BlockIn(m), e)
<1>1. m \o <<e>> = Append(m, e) /\ m \o <<e>> \in Seq(Event)
  OBVIOUS
<1> QED
  BY <1>1, BlockAppends

(* An event is one.                                                        *)
LEMMA TextIsEvent ==
  \A e \in EventKind, k \in Word, i \in Int : Ev(e, k, i) \in Event
BY DEF Ev, Event

(* The events of a Claude client.                                          *)
LEMMA ClaudeKinds ==
  /\ "block start" \in EventKind /\ "block stop" \in EventKind /\ "delta" \in EventKind
  /\ "start" \in EventKind /\ "stop" \in EventKind /\ "message delta" \in EventKind
BY DEF EventKind

(* The events a Claude client's block depends on.                           *)
LEMMA BracketIs ==
  ASSUME NEW b \in Block, NEW e \in Event, b.ok
  PROVE  /\ e.e = "block start" /\ b.open = "" /\ b.next = e.i =>
               Bracket(b, e).ok /\ Bracket(b, e).open = e.k /\ Bracket(b, e).next = e.i + 1
         /\ e.e = "block stop" /\ b.open = e.k /\ b.next = e.i + 1 =>
               Bracket(b, e).ok /\ Bracket(b, e).open = "" /\ Bracket(b, e).next = b.next
         /\ e.e = "delta" /\ b.next = e.i + 1 /\ b.open = (IF e.k = "args" THEN "call" ELSE e.k) =>
               Bracket(b, e) = b
         /\ e.e = "stop" /\ b.open = "" => Bracket(b, e) = b
         /\ e.e \in {"start", "message delta"} => Bracket(b, e) = b
<1>1. ASSUME e.e = "block start", b.open = "", b.next = e.i
      PROVE  Bracket(b, e).ok /\ Bracket(b, e).open = e.k /\ Bracket(b, e).next = e.i + 1
  <2>1. Bracket(b, e) = [b EXCEPT !.open = e.k, !.next = @ + 1]
    BY <1>1 DEF Bracket
  <2> QED
    BY <1>1, <2>1 DEF Block
<1>2. ASSUME e.e = "block stop", b.open = e.k, b.next = e.i + 1
      PROVE  Bracket(b, e).ok /\ Bracket(b, e).open = "" /\ Bracket(b, e).next = b.next
  <2>1. Bracket(b, e) = [b EXCEPT !.open = ""]
    BY <1>2 DEF Bracket
  <2> QED
    BY <1>2, <2>1 DEF Block
<1>3. ASSUME e.e = "delta", b.next = e.i + 1, b.open = (IF e.k = "args" THEN "call" ELSE e.k)
      PROVE  Bracket(b, e) = b
  <2>1. Bracket(b, e) = [b EXCEPT !.ok = @ /\ b.next = e.i + 1 /\ b.open = IF e.k = "args" THEN "call" ELSE e.k]
    BY <1>3 DEF Bracket
  <2>2. Bracket(b, e) = [b EXCEPT !.ok = TRUE]
    BY <1>3, <2>1
  <2> QED
    BY <1>3, <2>2 DEF Block
<1>4. ASSUME e.e = "stop", b.open = "" PROVE Bracket(b, e) = b
  <2>1. Bracket(b, e) = [b EXCEPT !.ok = @ /\ b.open = ""]
    BY <1>4 DEF Bracket
  <2> QED
    BY <1>4, <2>1 DEF Block
<1>5. ASSUME e.e \in {"start", "message delta"} PROVE Bracket(b, e) = b
  BY <1>5 DEF Bracket
<1> QED
  BY <1>1, <1>2, <1>3, <1>4, <1>5

(* message_start opens no block.                                           *)
LEMMA StartTracks ==
  ASSUME NEW m \in Seq(Event), NEW s \in Locals, BlockIn(m).ok
  PROVE  m \o MessageStart(s) \in Seq(Event) /\ BlockIn(m \o MessageStart(s)) = BlockIn(m)
<1>1. CASE s.started
  <2>1. m \o MessageStart(s) = m
    BY <1>1 DEF MessageStart
  <2> QED
    BY <2>1
<1>2. CASE ~s.started
  <2>1. 0 \in Int
    OBVIOUS
  <2>2. Ev("start", "", 0) \in Event
    BY <2>1, EmptyWord, ClaudeKinds, TextIsEvent, Zenon
  <2>3. BlockIn(m) \in Block
    BY <2>2, BlockGoesOn
  <2>6. Ev("start", "", 0).e = "start"
    BY DEF Ev
  <2>4. Bracket(BlockIn(m), Ev("start", "", 0)) = BlockIn(m)
    BY <2>2, <2>3, <2>6, BracketIs
  <2>5. MessageStart(s) = <<Ev("start", "", 0)>>
    BY <1>2 DEF MessageStart
  <2> QED
    BY <2>2, <2>4, <2>5, BlockGoesOn
<1> QED
  BY <1>1, <1>2

(* closeBlock closes the block that is open.                               *)
LEMMA CloseTracks ==
  ASSUME NEW m \in Seq(Event), NEW s \in Locals, Tracks(BlockIn(m), s)
  PROVE  /\ m \o CloseBlock(s) \in Seq(Event)
         /\ LET b == BlockIn(m \o CloseBlock(s))
            IN  b \in Block /\ b.ok /\ b.open = "" /\ b.next = IF s.block = "" THEN s.index ELSE s.index + 1
<1>1. s.block \in Word /\ s.index \in Int /\ s.index \in Nat
  <2>1. s.block \in Word /\ s.index \in Nat
    BY DEF Locals
  <2> QED
    BY <2>1
<1>2. CASE s.block = ""
  <2>1. m \o CloseBlock(s) = m
    BY <1>2, Associates DEF CloseBlock
  <2>2. BlockIn(m) \in Block
    BY EventsAre, BlockGoesOn
  <2> QED
    BY <1>2, <2>1, <2>2 DEF Tracks
<1>3. CASE s.block # ""
  <2> DEFINE e == Ev("block stop", s.block, s.index)
  <2>1. e \in Event
    <3>1. "block stop" \in EventKind
      BY ClaudeKinds
    <3> QED
      BY <1>1, <3>1, TextIsEvent, Zenon
  <2>2. CloseBlock(s) = <<e>>
    BY <1>3 DEF CloseBlock
  <2>3. LET c == Bracket(BlockIn(m), e) IN c.ok /\ c.open = "" /\ c.next = s.index + 1
    <3>1. BlockIn(m) \in Block
      BY <2>1, BlockGoesOn
    <3>2. BlockIn(m).ok /\ BlockIn(m).open = s.block /\ BlockIn(m).next = s.index + 1
      BY <1>3 DEF Tracks
    <3>3. e.e = "block stop" /\ e.k = s.block /\ e.i = s.index
      BY DEF Ev
    <3> HIDE DEF e
    <3> QED
      BY <2>1, <3>1, <3>2, <3>3, BracketIs, ZenonT(40)
  <2> HIDE DEF e
  <2> QED
    BY <1>3, <2>1, <2>2, <2>3, BlockGoesOn
<1> QED
  BY <1>2, <1>3

(* A block that opens, and a delta in it.                                   *)
LEMMA BlockDeltaTracks ==
  ASSUME NEW m \in Seq(Event), NEW s \in Locals, Tracks(BlockIn(m), s), NEW k \in {"text", "think"}
  PROVE  Tracks(BlockIn(m \o BlockDelta(s, k).emit), BlockDelta(s, k).s)
<1> DEFINE i == IF s.block = "" THEN s.index ELSE s.index + 1
<1>1. s.index \in Nat /\ s.index \in Int /\ i \in Nat /\ i \in Int
  <2>1. s.index \in Nat
    BY DEF Locals
  <2>2. \A n \in Nat : n \in Int /\ n + 1 \in Nat /\ n + 1 \in Int
    OBVIOUS
  <2> QED
    BY <2>1, <2>2, Zenon
<1>2. k \in Word /\ k # "" /\ k # "args"
  BY WordsTyped
<1>3. "delta" \in EventKind /\ "block start" \in EventKind
  BY ClaudeKinds
<1>4. CASE s.block = k
  <2> DEFINE d == Ev("delta", k, s.index)
  <2>1. BlockDelta(s, k).emit = <<d>> /\ BlockDelta(s, k).s = s
    BY <1>4 DEF BlockDelta
  <2>2. d \in Event
    BY <1>1, <1>2, <1>3, TextIsEvent, Zenon
  <2>3. BlockIn(m) \in Block
    BY <2>2, BlockGoesOn
  <2>4. BlockIn(m).ok /\ BlockIn(m).open = k /\ BlockIn(m).next = s.index + 1
    BY <1>2, <1>4 DEF Tracks
  <2>5. Bracket(BlockIn(m), d) = BlockIn(m)
    <3>1. d.e = "delta" /\ d.k = k /\ d.i = s.index
      BY DEF Ev
    <3> HIDE DEF d
    <3>2. BlockIn(m).next = d.i + 1 /\ BlockIn(m).open = IF d.k = "args" THEN "call" ELSE d.k
      BY <1>2, <2>4, <3>1
    <3> QED
      BY <2>2, <2>3, <2>4, <3>1, <3>2, BracketIs
  <2> HIDE DEF d
  <2> QED
    BY <2>1, <2>2, <2>5, BlockGoesOn
<1>5. CASE s.block # k
  <2> DEFINE a == Ev("block start", k, i)
             d == Ev("delta", k, i)
             c == m \o CloseBlock(s)
  <2>1. BlockDelta(s, k).emit = CloseBlock(s) \o <<a, d>>
        /\ BlockDelta(s, k).s = [s EXCEPT !.block = k, !.index = i]
    BY <1>5 DEF BlockDelta
  <2>2. a \in Event /\ d \in Event
    <3> HIDE DEF i
    <3> QED
      BY <1>1, <1>2, <1>3, TextIsEvent, Zenon
  <2>3. c \in Seq(Event) /\ BlockIn(c) \in Block /\ BlockIn(c).ok /\ BlockIn(c).open = "" /\ BlockIn(c).next = i
    BY CloseTracks
  <2>4. LET b == Bracket(BlockIn(c), a) IN b \in Block /\ b.ok /\ b.open = k /\ b.next = i + 1
    <3> HIDE DEF i, c
    <3>1. Bracket(BlockIn(c), a) \in Block
      <4> HIDE DEF a
      <4> QED
        BY <2>2, <2>3, EventsTyped
    <3>2. a.e = "block start" /\ a.k = k /\ a.i = i
      BY DEF Ev
    <3> HIDE DEF a
    <3>3. /\ Bracket(BlockIn(c), a).ok /\ Bracket(BlockIn(c), a).open = a.k
          /\ Bracket(BlockIn(c), a).next = a.i + 1
      <4>1. a \in Event /\ a.e = "block start" /\ BlockIn(c).next = a.i
        BY <2>2, <2>3, <3>2
      <4>2. BlockIn(c) \in Block /\ BlockIn(c).ok /\ BlockIn(c).open = ""
        BY <2>3
      <4> DEFINE b == BlockIn(c)
      <4> HIDE DEF b
      <4> QED
        BY <4>1, <4>2, BracketIs, Zenon DEF b
    <3> QED
      BY <3>1, <3>2, <3>3
  <2>5. Bracket(Bracket(BlockIn(c), a), d) = Bracket(BlockIn(c), a)
    <3> HIDE DEF i, c, a
    <3>1. d.e = "delta" /\ d.k = k /\ d.i = i
      BY DEF Ev
    <3> HIDE DEF d
    <3> QED
      BY <1>2, <2>2, <2>4, <3>1, BracketIs
  <2>6. m \o BlockDelta(s, k).emit = (c \o <<a>>) \o <<d>>
    <3>1. CloseBlock(s) \in Seq(Event)
      BY BlockIsClosed DEF Mute
    <3>2. <<a, d>> = <<a>> \o <<d>> /\ <<a>> \in Seq(Event) /\ <<d>> \in Seq(Event)
      <4> HIDE DEF a, d
      <4> QED
        BY <2>2, Pairs
    <3> HIDE DEF a, d
    <3> QED
      BY <2>1, <3>1, <3>2, Associates, SMTT(30)
  <2>7. BlockIn(m \o BlockDelta(s, k).emit) = Bracket(Bracket(BlockIn(c), a), d)
    <3> HIDE DEF a, d, c
    <3> QED
      BY <2>2, <2>3, <2>6, BlockGoesOn, ZenonT(40)
  <2>8. BlockDelta(s, k).s.block = k /\ BlockDelta(s, k).s.index = i
    <3> HIDE DEF i
    <3> QED
      BY <2>1 DEF Locals
  <2> HIDE DEF a, c, d, i
  <2> QED
    BY <1>2, <2>4, <2>5, <2>7, <2>8 DEF Tracks
<1> QED
  BY <1>4, <1>5

(* A tool call leaves its block open.                                      *)
LEMMA ToolUseTracks ==
  ASSUME NEW m \in Seq(Event), NEW s \in Locals, Tracks(BlockIn(m), s)
  PROVE  Tracks(BlockIn(m \o ToolUse(s).emit), ToolUse(s).s)
<1> DEFINE i == IF s.block = "" THEN s.index ELSE s.index + 1
           a == Ev("block start", "call", i)
           c == m \o CloseBlock(s)
<1>1. i \in Nat /\ i \in Int
  <2>1. s.index \in Nat
    BY DEF Locals
  <2>2. \A n \in Nat : n \in Int /\ n + 1 \in Nat /\ n + 1 \in Int
    OBVIOUS
  <2> QED
    BY <2>1, <2>2, Zenon
<1>2. "call" \in Word /\ "block start" \in EventKind
  BY WordsTyped, ClaudeKinds, Zenon
<1>3. ToolUse(s).emit = CloseBlock(s) \o <<a>> /\ ToolUse(s).s = [s EXCEPT !.block = "call", !.index = i]
  BY DEF ToolUse
<1>4. a \in Event
  <2> HIDE DEF i
  <2> QED
    BY <1>1, <1>2, TextIsEvent, Zenon
<1>5. c \in Seq(Event) /\ BlockIn(c) \in Block /\ BlockIn(c).ok /\ BlockIn(c).open = "" /\ BlockIn(c).next = i
  BY CloseTracks
<1>6. a.e = "block start" /\ a.k = "call" /\ a.i = i
  BY DEF Ev
<1>7. m \o ToolUse(s).emit = c \o <<a>>
  <2>1. CloseBlock(s) \in Seq(Event)
    BY BlockIsClosed DEF Mute
  <2> HIDE DEF a
  <2>2. <<a>> \in Seq(Event)
    BY <1>4
  <2> QED
    BY <1>3, <2>1, <2>2, Associates
<1>8. ToolUse(s).s.block = "call" /\ ToolUse(s).s.index = i
  <2> HIDE DEF i
  <2> QED
    BY <1>3 DEF Locals
<1> HIDE DEF a, c, i
<1>9. /\ Bracket(BlockIn(c), a).ok /\ Bracket(BlockIn(c), a).open = a.k
      /\ Bracket(BlockIn(c), a).next = a.i + 1
  <2>1. BlockIn(c).next = a.i
    BY <1>5, <1>6
  <2> DEFINE b == BlockIn(c)
  <2> HIDE DEF b
  <2> QED
    BY <1>4, <1>5, <1>6, <2>1, BracketIs, Zenon DEF b
<1>10. BlockIn(m \o ToolUse(s).emit) = Bracket(BlockIn(c), a)
  BY <1>4, <1>5, <1>7, BlockGoesOn
<1> QED
  BY <1>6, <1>8, <1>9, <1>10 DEF Tracks

(* Arguments that follow a call are in its block.                          *)
LEMMA ArgsTrack ==
  ASSUME NEW m \in Seq(Event), NEW s \in Locals, Tracks(BlockIn(m), s), s.block = "call"
  PROVE  Tracks(BlockIn(m \o <<Ev("delta", "args", s.index)>>), s)
<1> DEFINE d == Ev("delta", "args", s.index)
<1>1. s.index \in Int
  <2>1. s.index \in Nat
    BY DEF Locals
  <2> QED
    BY <2>1
<1>2. "args" \in Word /\ "delta" \in EventKind
  BY WordsTyped, ClaudeKinds, Zenon
<1>3. d \in Event
  BY <1>1, <1>2, TextIsEvent, Zenon
<1>4. d.e = "delta" /\ d.k = "args" /\ d.i = s.index
  BY DEF Ev
<1> HIDE DEF d
<1>5. BlockIn(m) \in Block
  BY <1>3, BlockGoesOn
<1>6. BlockIn(m).ok /\ BlockIn(m).open = "call" /\ BlockIn(m).next = d.i + 1
  BY <1>4 DEF Tracks
<1>7. BlockIn(m).open = IF d.k = "args" THEN "call" ELSE d.k
  BY <1>4, <1>6
<1>8. Bracket(BlockIn(m), d) = BlockIn(m)
  BY <1>3, <1>4, <1>5, <1>6, <1>7, BracketIs
<1>9. BlockIn(m \o <<d>>) = BlockIn(m)
  BY <1>3, <1>8, BlockGoesOn
<1> QED
  BY <1>9 DEF d

(* One line leaves the block open that the locals tell.                    *)
LEMMA ToClaudeTracks ==
  ASSUME NEW m \in Seq(Event), NEW s \in Locals, Tracks(BlockIn(m), s),
         NEW l, LineFacts("openai", l), l.t = "args" => s.block = "call"
  PROVE  /\ Tracks(BlockIn(m \o ToClaude(s, l).emit), ToClaude(s, l).s)
         /\ l.t \in {"call", "args"} => ToClaude(s, l).s.block = "call"
         /\ l.t \notin Piece => ToClaude(s, l).s.block = s.block
<1> DEFINE begun == [s EXCEPT !.started = TRUE]
           p == ClaudePart(s, l)
           c == m \o MessageStart(s)
<1>1. ToClaude(s, l).emit = MessageStart(s) \o p.emit /\ ToClaude(s, l).s = p.s
  BY DEF ToClaude, ClaudePart
<1>2. begun \in Locals
  BY MessageIsStarted
<1>3. c \in Seq(Event) /\ BlockIn(c) = BlockIn(m)
  BY StartTracks DEF Tracks
<1>4. begun.block = s.block /\ begun.index = s.index
  BY DEF Locals
<1>5. Tracks(BlockIn(c), begun)
  BY <1>3, <1>4 DEF Tracks
<1>6. l.t \in Piece <=> l.t \in {"text", "think", "call", "args"}
  BY DEF Piece
<1>13. p.s.block = begun.block /\ p.s.index = begun.index => (Tracks(BlockIn(c), begun) => Tracks(BlockIn(c), p.s))
  BY DEF Tracks
<1>14. c \o <<>> = c
  BY <1>3, Associates
<1>7. /\ Tracks(BlockIn(c \o p.emit), p.s)
      /\ l.t \in {"call", "args"} => p.s.block = "call"
      /\ l.t \notin Piece => p.s.block = s.block
  <2>1. CASE l.t \in {"text", "think"}
    <3>1. p = BlockDelta(begun, l.t)
      BY <2>1 DEF ClaudePart
    <3> HIDE DEF begun, c, p
    <3> QED
      BY <1>2, <1>3, <1>5, <1>6, <2>1, <3>1, BlockDeltaTracks
  <2>2. CASE l.t = "call"
    <3>1. p = ToolUse(begun)
      BY <2>2 DEF ClaudePart
    <3>2. p.s.block = "call"
      BY <1>2, <3>1, ToolUseTells
    <3> HIDE DEF begun, c, p
    <3> QED
      BY <1>2, <1>3, <1>5, <1>6, <2>2, <3>1, <3>2, ToolUseTracks
  <2>3. CASE l.t = "args"
    <3>1. p.emit = <<Ev("delta", "args", begun.index)>> /\ p.s = begun
      BY <1>4, <2>3 DEF ClaudePart
    <3>2. begun.block = "call"
      BY <1>4, <2>3
    <3> HIDE DEF begun, c, p
    <3> QED
      BY <1>2, <1>3, <1>5, <1>6, <2>3, <3>1, <3>2, ArgsTrack
  <2>4. CASE l.t = "finish"
    <3>1. p.emit = <<>> /\ p.s = [begun EXCEPT !.finish = l.reason]
      BY <2>4 DEF ClaudePart
    <3>2. p.s.block = begun.block /\ p.s.index = begun.index
      BY <1>2, <3>1 DEF Locals
    <3> HIDE DEF begun, c, p
    <3> QED
      BY <1>4, <1>5, <1>13, <1>14, <2>4, <3>1, <3>2
  <2>5. CASE l.t = "usage"
    <3>1. p.emit = <<>> /\ p.s = [begun EXCEPT !.usage = l.usage]
      BY <2>5 DEF ClaudePart
    <3>2. p.s.block = begun.block /\ p.s.index = begun.index
      BY <1>2, <3>1 DEF Locals
    <3> HIDE DEF begun, c, p
    <3> QED
      BY <1>4, <1>5, <1>13, <1>14, <2>5, <3>1, <3>2
  <2>6. CASE l.t \notin {"text", "think", "call", "args", "finish", "usage"}
    <3>1. p.emit = <<>> /\ p.s = begun
      BY <2>6 DEF ClaudePart
    <3> HIDE DEF begun, c, p
    <3> QED
      BY <1>4, <1>5, <1>14, <2>6, <3>1
  <2> QED
    BY <2>1, <2>2, <2>3, <2>4, <2>5, <2>6
<1>8. m \o ToClaude(s, l).emit = c \o p.emit
  <2>1. MessageStart(s) \in Seq(Event)
    BY MessageIsStarted DEF Mute
  <2>2. p.emit \in Seq(Event)
    BY ClaudePartMakes DEF Tells, Mute
  <2> HIDE DEF p
  <2>3. m \o (MessageStart(s) \o p.emit) = (m \o MessageStart(s)) \o p.emit
    <3>1. \A x, y \in Seq(Event) : m \o (x \o y) = (m \o x) \o y
      BY Associates
    <3> QED
      BY <2>1, <2>2, <3>1, Zenon
  <2> QED
    BY <1>1, <2>3
<1> HIDE DEF p, c
<1> QED
  BY <1>1, <1>7, <1>8

(* However the stream ends, the block is closed first.                      *)
LEMMA MessageDoneTracks ==
  ASSUME NEW m \in Seq(Event), NEW s \in Locals, Tracks(BlockIn(m), s)
  PROVE  /\ Finale(MessageDone(s)) /\ BlockIn(m \o MessageDone(s)).ok
         /\ LET e == CloseBlock(s) \o <<Ev("stop", "", 0)>> IN Finale(e) /\ BlockIn(m \o e).ok
<1> DEFINE k == OpenAIFinishReasonToClaude(s.finish)
           a == Ev("message delta", k, 0)
           e == Ev("stop", "", 0)
           c == m \o CloseBlock(s)
<1>1. k \in Word
  BY ReasonsAreWords DEF Locals
<1>2. 0 \in Int /\ "message delta" \in EventKind /\ "stop" \in EventKind
  <2>1. 0 \in Int
    OBVIOUS
  <2> QED
    BY <2>1, ClaudeKinds, Zenon
<1>3. a \in Event /\ e \in Event
  <2> HIDE DEF k
  <2> QED
    BY <1>1, <1>2, EmptyWord, TextIsEvent, Zenon
<1>4. a.e = "message delta" /\ e.e = "stop"
  BY DEF Ev
<1>5. c \in Seq(Event) /\ BlockIn(c) \in Block /\ BlockIn(c).ok /\ BlockIn(c).open = ""
  BY CloseTracks
<1>6. Bracket(BlockIn(c), a) = BlockIn(c) /\ Bracket(BlockIn(c), e) = BlockIn(c)
  <2> HIDE DEF a, e, c
  <2> QED
    BY <1>3, <1>4, <1>5, BracketIs
<1>7. BlockIn(c \o <<a>>) = BlockIn(c) /\ BlockIn(c \o <<e>>) = BlockIn(c) /\ BlockIn((c \o <<a>>) \o <<e>>) = BlockIn(c)
  <2> HIDE DEF a, e, c
  <2>1. c \o <<a>> \in Seq(Event) /\ BlockIn(c \o <<a>>) = BlockIn(c)
    BY <1>3, <1>5, <1>6, BlockGoesOn
  <2>2. BlockIn(c \o <<e>>) = BlockIn(c)
    BY <1>3, <1>5, <1>6, BlockGoesOn
  <2>3. BlockIn((c \o <<a>>) \o <<e>>) = Bracket(BlockIn(c \o <<a>>), e)
    BY <1>3, <2>1, BlockGoesOn
  <2> QED
    BY <1>6, <2>1, <2>2, <2>3
<1>8. CloseBlock(s) \in Seq(Event) /\ Mute(CloseBlock(s))
  BY BlockIsClosed DEF Mute
<1>9. Mute(<<a>>) /\ Finale(<<e>>)
  <2> HIDE DEF k
  <2> QED
    BY <1>1, Murmurs, Sentences
<1>10. MessageDone(s) = CloseBlock(s) \o <<a, e>>
  BY DEF MessageDone
<1> HIDE DEF a, e, c
<1>11. <<a, e>> = <<a>> \o <<e>> /\ <<a>> \in Seq(Event) /\ <<e>> \in Seq(Event)
  BY <1>3, Pairs
<1>12. m \o MessageDone(s) = (c \o <<a>>) \o <<e>> /\ m \o (CloseBlock(s) \o <<e>>) = c \o <<e>>
  BY <1>8, <1>10, <1>11, Associates, SMTT(30) DEF c
<1>13. Finale(MessageDone(s)) /\ Finale(CloseBlock(s) \o <<e>>)
  <2>1. Finale(<<a, e>>)
    BY <1>9, InRow
  <2> QED
    BY <1>8, <1>9, <1>10, <2>1, Joined
<1> QED
  BY <1>5, <1>7, <1>12, <1>13 DEF e

(* OpenAI to Responses.                                                     *)
LEMMA SilentRow ==
  ASSUME NEW b \in Seq({e \in Event : Silent(e)})
  PROVE  Mute(b)
<1>1. b \in Seq(Event) /\ \A n \in DOMAIN b : Silent(b[n])
  OBVIOUS
<1> QED
  BY <1>1 DEF Mute, Quiet, Silent

(* The Responses events that frame an answer tell nothing of it.           *)
LEMMA TextIsDone ==
  ASSUME NEW s \in Locals
  PROVE  Mute(TextDone(s)) /\ Mute(ResponseCreated(s)) /\ Mute(FinishItems(s))
<1> DEFINE E == {e \in Event : Silent(e)}
           i == s.index
<1>1. i \in Int /\ s.callAt \in Seq(Nat)
  <2>1. i \in Nat
    BY DEF Locals
  <2> QED
    BY <2>1 DEF Locals
<1>2. Mute(TextDone(s))
  <2>1. Mute(<<Ev("text done", "", i)>>) /\ Mute(<<Ev("part done", "", i)>>) /\ Mute(<<Ev("item done", "message", i)>>)
    <3> HIDE DEF i
    <3> QED
      BY <1>1, Murmurs
  <2>2. Mute(<<Ev("text done", "", i), Ev("part done", "", i), Ev("item done", "message", i)>>)
    BY <2>1, InRow
  <2> QED
    BY <2>2, Alone DEF TextDone
<1>3. Mute(ResponseCreated(s))
  <2>1. Mute(<<Ev("start", "", 0)>>) /\ Mute(<<Ev("item added", "message", 0)>>) /\ Mute(<<Ev("part added", "text", 0)>>)
    BY Murmurs
  <2>2. Mute(<<Ev("start", "", 0), Ev("item added", "message", 0), Ev("part added", "text", 0)>>)
    BY <2>1, InRow
  <2> QED
    BY <2>2, Alone DEF ResponseCreated
<1>4. Mute(FinishItems(s))
  <2> DEFINE f == [n \in DOMAIN s.callAt |->
                    <<Ev("args done", "", s.callAt[n]), Ev("item done", "call", s.callAt[n])>>]
  <2>1. \A x \in Nat : Ev("args done", "", x) \in E /\ Ev("item done", "call", x) \in E
    <3>1. "args done" \in SilentKind /\ "item done" \in SilentKind
      BY KindsTyped
    <3>2. "" \in Word /\ "call" \in Word
      BY WordsTyped, Zenon
    <3>3. \A x \in Nat : x \in Int
      OBVIOUS
    <3>4. \A x \in Nat : Silent(Ev("args done", "", x)) /\ Silent(Ev("item done", "call", x))
      BY <3>1, <3>2, <3>3, EventsAre, Zenon
    <3> QED
      BY <3>4 DEF Silent
  <2>2. \A n \in DOMAIN s.callAt : s.callAt[n] \in Nat
    BY <1>1
  <2>3. f \in Seq(Seq(E))
    <3> HIDE DEF E
    <3>1. \A a, b \in E : <<a, b>> \in Seq(E)
      OBVIOUS
    <3>2. \A n \in DOMAIN s.callAt :
             <<Ev("args done", "", s.callAt[n]), Ev("item done", "call", s.callAt[n])>> \in Seq(E)
      BY <2>1, <2>2, <3>1
    <3>3. DOMAIN s.callAt = 1 .. Len(s.callAt) /\ Len(s.callAt) \in Nat
      BY <1>1
    <3>4. f \in [1 .. Len(s.callAt) -> Seq(E)]
      BY <3>2, <3>3
    <3> HIDE DEF f
    <3> QED
      BY <3>3, <3>4
  <2>4. FlattenSeq(f) \in Seq(E)
    <3> HIDE DEF f, E
    <3> QED
      BY <2>3, FlattenTyped
  <2>5. Mute(FlattenSeq(f))
    BY <2>4, SilentRow
  <2>6. FinishItems(s) = TextDone(s) \o FlattenSeq(f)
    BY DEF FinishItems
  <2> HIDE DEF f
  <2> QED
    BY <1>2, <2>5, <2>6, Joined
<1> QED
  BY <1>2, <1>3, <1>4

(* The last of the calls has an index.                                     *)
LEMMA LastIsKnown ==
  ASSUME NEW s \in Locals, s.callAt # <<>>
  PROVE  Last(s.callAt) \in Nat /\ Last(s.callAt) \in Int
<1>1. s.callAt \in Seq(Nat)
  BY DEF Locals
<1>2. s.callAt[Len(s.callAt)] \in Nat
  BY <1>1
<1> QED
  BY <1>2 DEF Last

(* A sequence with one element more.                                       *)
LEMMA AppendedIsNotEmpty ==
  ASSUME NEW E, NEW q \in Seq(E), NEW x \in E
  PROVE  Append(q, x) \in Seq(E) /\ Append(q, x) # <<>>
<1>1. Append(q, x) \in Seq(E) /\ Len(Append(q, x)) = Len(q) + 1 /\ Len(q) \in Nat
  OBVIOUS
<1>2. Append(q, x) # <<>>
  BY <1>1
<1> QED
  BY <1>1, <1>2

(* A Responses client is told a call once, at the item that is added.      *)
LEMMA FunctionCallTells ==
  ASSUME NEW s \in Locals
  PROVE  /\ FunctionCallAdded(s).s \in Locals /\ FunctionCallAdded(s).s.callAt # <<>>
         /\ Tells(FunctionCallAdded(s).emit, "call")
<1> DEFINE i == IF s.block = "text done" THEN s.index ELSE s.index + 1
<1>1. i \in Nat /\ i \in Int /\ i + 1 \in Nat
  <2>1. s.index \in Nat
    BY DEF Locals
  <2>2. \A n \in Nat : n \in Int /\ n + 1 \in Nat /\ n + 1 \in Int
    OBVIOUS
  <2> QED
    BY <2>1, <2>2, Zenon
<1>2. "text done" \in Word
  BY WordsTyped, Zenon
<1>3. FunctionCallAdded(s).emit = TextDone(s) \o <<Ev("item added", "call", i)>>
      /\ FunctionCallAdded(s).s = [s EXCEPT !.block = "text done", !.index = i + 1, !.callAt = Append(@, i)]
  BY DEF FunctionCallAdded
<1> HIDE DEF i
<1>4. s.callAt \in Seq(Nat) /\ Append(s.callAt, i) \in Seq(Nat) /\ Append(s.callAt, i) # <<>>
  <2>1. s.callAt \in Seq(Nat)
    BY DEF Locals
  <2> QED
    BY <1>1, <2>1, AppendedIsNotEmpty
<1>5. FunctionCallAdded(s).s \in Locals /\ FunctionCallAdded(s).s.callAt # <<>>
  BY <1>1, <1>2, <1>3, <1>4 DEF Locals
<1>6. Tells(<<Ev("item added", "call", i)>>, "call")
  BY <1>1, Sentences
<1>7. Tells(FunctionCallAdded(s).emit, "call")
  <2> DEFINE c == TextDone(s)
             d == <<Ev("item added", "call", i)>>
  <2>1. Mute(c) /\ Tells(d, "call") /\ FunctionCallAdded(s).emit = c \o d
    BY <1>3, <1>6, TextIsDone
  <2> HIDE DEF c, d
  <2> QED
    BY <2>1, Joined
<1> QED
  BY <1>5, <1>7

(* What ToResponses makes of a line, after the announcement.                *)
ResponsePart(s, l) ==
    LET begun == [s EXCEPT !.started = TRUE]
    IN  CASE l.t = "text" -> [emit |-> <<Ev("delta", "text", s.index)>>, s |-> [begun EXCEPT !.words = @ + 1]]
          [] l.t = "think" -> [emit |-> <<Ev("delta", "think", s.index)>>, s |-> begun]
          [] l.t = "call" -> FunctionCallAdded(begun)
          [] l.t = "args" -> [emit |-> <<Ev("delta", "args", Last(s.callAt))>>, s |-> begun]
          [] l.t = "finish" -> [emit |-> FinishItems(s), s |-> begun]
          [] l.t = "usage" -> [emit |-> <<>>, s |-> [begun EXCEPT !.usage = l.usage]]
          [] OTHER -> [emit |-> <<>>, s |-> begun]

(* What one line is for a Responses client, beside response.created.       *)
LEMMA ResponsePartMakes ==
  ASSUME NEW s \in Locals, NEW l, LineFacts("openai", l), l.t = "args" => s.callAt # <<>>
  PROVE  /\ ResponsePart(s, l).s \in Locals
         /\ IF l.t \in Piece THEN Tells(ResponsePart(s, l).emit, l.t) ELSE Mute(ResponsePart(s, l).emit)
         /\ s.callAt # <<>> \/ l.t = "call" => ResponsePart(s, l).s.callAt # <<>>
<1> DEFINE begun == [s EXCEPT !.started = TRUE]
           p == ResponsePart(s, l)
<1>1. l.t \in Piece <=> l.t \in {"text", "think", "call", "args"}
  BY DEF Piece
<1>2. begun \in Locals /\ begun.callAt = s.callAt
  <2>1. begun \in Locals
    BY MessageIsStarted
  <2> QED
    BY <2>1 DEF Locals
<1>3. s.index \in Int
  <2>1. s.index \in Nat
    BY DEF Locals
  <2> QED
    BY <2>1
<1>4. CASE l.t = "text"
  <2>1. p.emit = <<Ev("delta", "text", s.index)>> /\ p.s = [begun EXCEPT !.words = @ + 1]
    BY <1>4 DEF ResponsePart
  <2>2. p.s \in Locals /\ p.s.callAt = s.callAt
    <3> HIDE DEF p, begun
    <3> QED
      BY <1>2, <2>1 DEF Locals
  <2>3. Tells(p.emit, "text")
    BY <1>3, <2>1, Sentences
  <2> QED
    BY <1>1, <1>4, <2>2, <2>3
<1>5. CASE l.t = "think"
  <2>1. p.emit = <<Ev("delta", "think", s.index)>> /\ p.s = begun
    BY <1>5 DEF ResponsePart
  <2>2. Tells(p.emit, "think")
    BY <1>3, <2>1, Sentences
  <2> QED
    BY <1>1, <1>2, <1>5, <2>1, <2>2
<1>6. CASE l.t = "call"
  <2>1. p = FunctionCallAdded(begun)
    BY <1>6 DEF ResponsePart
  <2> QED
    BY <1>1, <1>2, <1>6, <2>1, FunctionCallTells
<1>7. CASE l.t = "args"
  <2>1. p.emit = <<Ev("delta", "args", Last(s.callAt))>> /\ p.s = begun
    BY <1>7 DEF ResponsePart
  <2>2. Tells(p.emit, "args")
    BY <1>7, <2>1, LastIsKnown, Sentences
  <2> QED
    BY <1>1, <1>2, <1>7, <2>1, <2>2
<1>8. CASE l.t = "finish"
  <2>1. p.emit = FinishItems(s) /\ p.s = begun
    BY <1>8 DEF ResponsePart
  <2> QED
    BY <1>1, <1>2, <1>8, <2>1, TextIsDone
<1>9. CASE l.t = "usage"
  <2>1. p.emit = <<>> /\ p.s = [begun EXCEPT !.usage = l.usage]
    BY <1>9 DEF ResponsePart
  <2>2. p.s \in Locals /\ p.s.callAt = s.callAt
    <3> HIDE DEF p
    <3> QED
      BY <1>2, <2>1 DEF Locals, LineFacts
  <2> QED
    BY <1>1, <1>9, <2>1, <2>2, Alone
<1>10. CASE l.t \notin {"text", "think", "call", "args", "finish", "usage"}
  <2>1. p.emit = <<>> /\ p.s = begun
    BY <1>10 DEF ResponsePart
  <2> QED
    BY <1>1, <1>2, <1>10, <2>1, Alone
<1> QED
  BY <1>4, <1>5, <1>6, <1>7, <1>8, <1>9, <1>10

(* What one line is for a Responses client.                                *)
LEMMA ToResponsesMakes ==
  ASSUME NEW s \in Locals, NEW l, LineFacts("openai", l), l.t = "args" => s.callAt # <<>>
  PROVE  /\ Makes("openai to responses", l, ToResponses(s, l))
         /\ s.callAt # <<>> \/ l.t = "call" => ToResponses(s, l).s.callAt # <<>>
<1> DEFINE p == ResponsePart(s, l)
<1>0. \A x : Keeps("openai to responses", x)
  BY DEF Keeps
<1>1. ToResponses(s, l).emit = ResponseCreated(s) \o p.emit /\ ToResponses(s, l).s = p.s
  BY DEF ToResponses, ResponsePart
<1>2. Mute(ResponseCreated(s))
  BY TextIsDone
<1>3. /\ p.s \in Locals /\ IF l.t \in Piece THEN Tells(p.emit, l.t) ELSE Mute(p.emit)
      /\ s.callAt # <<>> \/ l.t = "call" => p.s.callAt # <<>>
  BY ResponsePartMakes
<1> HIDE DEF p
<1>4. IF l.t \in Piece THEN Tells(ToResponses(s, l).emit, l.t) ELSE Mute(ToResponses(s, l).emit)
  BY <1>1, <1>2, <1>3, Joined
<1> QED
  BY <1>0, <1>1, <1>3, <1>4 DEF Makes

(* Responses to OpenAI.                                                     *)
(* What a handler makes of a line is what it writes and what it knows then. *)
Twofold(r) == r = [emit |-> r.emit, s |-> r.s]

(* What SendToolCallChunk keeps in s.block.                                 *)
TellsIds(s) == s.block \in {"", "fragments"}

(* The two parts of what is made of a line.                                *)
LEMMA IsTwofold ==
  ASSUME NEW a, NEW b, NEW r, r = [emit |-> a, s |-> b]
  PROVE  r.emit = a /\ r.s = b /\ Twofold(r)
BY DEF Twofold

(* The neighbours of an index.                                             *)
LEMMA Numbers ==
  \A n \in Nat : n \in Int /\ n + 1 \in Nat /\ n + 1 \in Int /\ n - 1 \in Int
OBVIOUS

(* sendToolCallChunk tells a call or a fragment of its arguments.          *)
LEMMA ToolCallTells ==
  ASSUME NEW s \in Locals, NEW l, l.t \in {"call", "args", "fragment"},
         l.t = "args" => s.callAt # <<>>, TellsIds(s),
         NEW r, r = SendToolCallChunk(s, l)
  PROVE  /\ Twofold(r)
         /\ r.s \in Locals /\ TellsIds(r.s)
         /\ IF l.t = "fragment" THEN Mute(r.emit) ELSE Tells(r.emit, l.t)
         /\ s.callAt # <<>> \/ l.t = "call" => r.s.callAt # <<>>
<1> DEFINE i == s.index
<1>1. i \in Nat /\ i \in Int /\ i - 1 \in Int
  <2>1. i \in Nat
    BY DEF Locals
  <2> QED
    BY <2>1, Numbers, Zenon
<1>2. "" \in Word /\ "fragments" \in Word
  BY WordsTyped, Zenon
<1>3. s.callAt \in Seq(Nat) /\ Append(s.callAt, i) \in Seq(Nat) /\ Append(s.callAt, i) # <<>>
  <2>1. s.callAt \in Seq(Nat)
    BY DEF Locals
  <2> QED
    BY <1>1, <2>1, AppendedIsNotEmpty
<1>4. CASE l.t = "call"
  <2>1. r = [emit |-> <<Ev("delta", "call", i)>>, s |-> [s EXCEPT !.index = @ + 1, !.callAt = Append(@, i), !.block = ""]]
    BY <1>4 DEF SendToolCallChunk
  <2>4. r.emit = <<Ev("delta", "call", i)>> /\ r.s = [s EXCEPT !.index = @ + 1, !.callAt = Append(@, i), !.block = ""] /\ Twofold(r)
    <3> DEFINE a == <<Ev("delta", "call", i)>>
               b == [s EXCEPT !.index = @ + 1, !.callAt = Append(@, i), !.block = ""]
    <3>1. r = [emit |-> a, s |-> b]
      BY <2>1
    <3> HIDE DEF a, b
    <3>2. r.emit = a /\ r.s = b /\ Twofold(r)
      BY <3>1, IsTwofold
    <3> QED
      BY <3>2 DEF a, b
  <2>2. Tells(r.emit, "call")
    BY <1>1, <2>4, Sentences
  <2>3. r.s \in Locals /\ r.s.callAt = Append(s.callAt, i) /\ r.s.block = ""
    <3>1. i + 1 \in Nat
      BY <1>1, Numbers
    <3> QED
      BY <1>2, <1>3, <2>4, <3>1 DEF Locals
  <2> QED
    BY <1>3, <1>4, <2>2, <2>3, <2>4 DEF TellsIds
<1>5. CASE l.t = "args"
  <2>1. r = [emit |-> <<Ev("delta", "args", Last(s.callAt))>>, s |-> s]
    BY <1>5 DEF SendToolCallChunk
  <2>4. r.emit = <<Ev("delta", "args", Last(s.callAt))>> /\ r.s = s /\ Twofold(r)
    <3> DEFINE a == <<Ev("delta", "args", Last(s.callAt))>>
               b == s
    <3>1. r = [emit |-> a, s |-> b]
      BY <2>1
    <3> HIDE DEF a, b
    <3>2. r.emit = a /\ r.s = b /\ Twofold(r)
      BY <3>1, IsTwofold
    <3> QED
      BY <3>2 DEF a, b
  <2>2. Tells(r.emit, "args")
    BY <1>5, <2>4, LastIsKnown, Sentences
  <2> QED
    BY <1>5, <2>2, <2>4
<1>6. CASE l.t = "fragment" /\ s.block = "fragments"
  <2>1. r = [emit |-> <<Ev("nameless call", "", i - 1)>>, s |-> s]
    BY <1>6 DEF SendToolCallChunk
  <2>4. r.emit = <<Ev("nameless call", "", i - 1)>> /\ r.s = s /\ Twofold(r)
    <3> DEFINE a == <<Ev("nameless call", "", i - 1)>>
               b == s
    <3>1. r = [emit |-> a, s |-> b]
      BY <2>1
    <3> HIDE DEF a, b
    <3>2. r.emit = a /\ r.s = b /\ Twofold(r)
      BY <3>1, IsTwofold
    <3> QED
      BY <3>2 DEF a, b
  <2>2. Mute(r.emit)
    BY <1>1, <2>4, Murmurs
  <2> QED
    BY <1>6, <2>2, <2>4
<1>7. CASE l.t = "fragment" /\ s.block = ""
  <2>1. r = [emit |-> <<Ev("nameless call", "", i)>>, s |-> [s EXCEPT !.index = @ + 1, !.block = "fragments"]]
    BY <1>7 DEF SendToolCallChunk
  <2>4. r.emit = <<Ev("nameless call", "", i)>> /\ r.s = [s EXCEPT !.index = @ + 1, !.block = "fragments"] /\ Twofold(r)
    <3> DEFINE a == <<Ev("nameless call", "", i)>>
               b == [s EXCEPT !.index = @ + 1, !.block = "fragments"]
    <3>1. r = [emit |-> a, s |-> b]
      BY <2>1
    <3> HIDE DEF a, b
    <3>2. r.emit = a /\ r.s = b /\ Twofold(r)
      BY <3>1, IsTwofold
    <3> QED
      BY <3>2 DEF a, b
  <2>2. Mute(r.emit)
    BY <1>1, <2>4, Murmurs
  <2>3. r.s \in Locals /\ r.s.callAt = s.callAt /\ r.s.block = "fragments"
    <3>1. i + 1 \in Nat
      BY <1>1, Numbers
    <3> QED
      BY <1>2, <2>4, <3>1 DEF Locals
  <2> QED
    BY <1>7, <2>2, <2>3, <2>4 DEF TellsIds
<1> QED
  BY <1>4, <1>5, <1>6, <1>7 DEF TellsIds

(* response.completed tells nothing.                                       *)
LEMMA CompletedMakes ==
  ASSUME NEW s \in Locals, NEW l, LineFacts("responses", l), NEW r, r = ResponseCompleted(s, l)
  PROVE  r.s \in Locals /\ Mute(r.emit) /\ r.s.callAt = s.callAt /\ r.s.block = s.block
<1> DEFINE k == IF s.callAt # <<>> /\ ~s.text THEN "tool_calls" ELSE "stop"
<1>1. k \in Word
  <2>1. "tool_calls" \in Word /\ "stop" \in Word
    BY WordsTyped, Zenon
  <2> QED
    BY <2>1
<1> HIDE DEF k
<1>2. r.emit = SendStartIfNeeded(s) \o <<Ev("finish", k, 0)>>
      /\ r.s = [s EXCEPT !.started = TRUE, !.finish = "sent", !.usage = [l.usage EXCEPT !.cached = 0]]
  BY DEF ResponseCompleted, k
<1>3. Mute(<<Ev("finish", k, 0)>>) /\ Mute(SendStartIfNeeded(s))
  BY <1>1, Murmurs, MessageIsStarted
<1>4. Mute(r.emit)
  BY <1>2, <1>3, Joined
<1>5. [l.usage EXCEPT !.cached = 0] \in Usage
  BY DEF LineFacts, Usage
<1>6. "sent" \in Word
  BY WordsTyped, Zenon
<1>7. r.s \in Locals /\ r.s.callAt = s.callAt /\ r.s.block = s.block
  BY <1>2, <1>5, <1>6 DEF Locals
<1> QED
  BY <1>4, <1>7

(* Text that is counted leaves the other locals as they are.               *)
LEMMA WordsGrow ==
  ASSUME NEW s \in Locals, NEW x \in BOOLEAN
  PROVE  LET r == [s EXCEPT !.started = TRUE, !.words = @ + 1, !.text = x]
         IN  r \in Locals /\ r.callAt = s.callAt /\ r.block = s.block
<1>1. s.words + 1 \in Nat
  BY DEF Locals
<1> QED
  BY <1>1 DEF Locals

(* The Responses to OpenAI handler tells the piece of a line.              *)
LEMMA ResponsesToChatMakes ==
  ASSUME NEW s \in Locals, NEW l, LineFacts("responses", l), l.t = "args" => s.callAt # <<>>,
         TellsIds(s), NEW r, r = ResponsesToChat(s, l)
  PROVE  /\ Makes("responses to openai", l, r)
         /\ s.callAt # <<>> \/ l.t = "call" => r.s.callAt # <<>>
         /\ TellsIds(r.s)
<1>0. \A x : Keeps("responses to openai", x)
  BY DEF Keeps
<1>1. l.t \in Piece <=> l.t \in {"text", "think", "call", "args"}
  BY DEF Piece
<1>6. \A x : x.block = s.block => TellsIds(x)
  BY DEF TellsIds
<1>2. CASE l.t \in {"text", "think"}
  <2>1. r.emit = SendStartIfNeeded(s) \o <<Ev("delta", l.t, 0)>>
        /\ r.s = [s EXCEPT !.started = TRUE, !.words = @ + 1, !.text = @ \/ l.t = "text"]
    BY <1>2 DEF ResponsesToChat
  <2>2. Mute(SendStartIfNeeded(s)) /\ Tells(<<Ev("delta", l.t, 0)>>, l.t)
    BY <1>2, MessageIsStarted, PlainPieces
  <2>3. Tells(r.emit, l.t)
    BY <2>1, <2>2, Joined
  <2>4. r.s \in Locals /\ r.s.callAt = s.callAt /\ r.s.block = s.block
    <3> DEFINE x == s.text \/ l.t = "text"
    <3>1. x \in BOOLEAN
      OBVIOUS
    <3>2. r.s = [s EXCEPT !.started = TRUE, !.words = @ + 1, !.text = x]
      BY <2>1
    <3> HIDE DEF x
    <3> QED
      BY <3>1, <3>2, WordsGrow, ZenonT(40)
  <2> QED
    BY <1>0, <1>1, <1>2, <1>6, <2>3, <2>4 DEF Makes
<1>3. CASE l.t \in {"call", "args", "fragment"}
  <2> DEFINE c == SendToolCallChunk(s, l)
  <2>1. r = [c EXCEPT !.s.words = @ + 1]
    BY <1>3 DEF ResponsesToChat
  <2>2. /\ Twofold(c) /\ c.s \in Locals /\ TellsIds(c.s)
        /\ IF l.t = "fragment" THEN Mute(c.emit) ELSE Tells(c.emit, l.t)
        /\ s.callAt # <<>> \/ l.t = "call" => c.s.callAt # <<>>
    BY <1>3, ToolCallTells
  <2> HIDE DEF c
  <2>3. r.emit = c.emit /\ r.s = [c.s EXCEPT !.words = @ + 1]
    <3>1. "s" \in DOMAIN c /\ "emit" \in DOMAIN c
      BY <2>2 DEF Twofold
    <3> QED
      BY <2>1, <3>1
  <2>4. r.s \in Locals /\ r.s.callAt = c.s.callAt /\ r.s.block = c.s.block
    BY <2>2, <2>3 DEF Locals
  <2>5. TellsIds(r.s)
    BY <2>2, <2>4 DEF TellsIds
  <2> QED
    BY <1>0, <1>1, <1>3, <2>2, <2>3, <2>4, <2>5 DEF Makes
<1>4. CASE l.t = "finish" /\ l.reason = "completed"
  <2>1. r = ResponseCompleted(s, l)
    BY <1>4 DEF ResponsesToChat
  <2> QED
    BY <1>1, <1>4, <1>6, <2>1, CompletedMakes DEF Makes
<1>5. CASE l.t \notin {"text", "think", "call", "args", "fragment"} /\ ~(l.t = "finish" /\ l.reason = "completed")
  <2>1. r.emit = <<>> /\ r.s = s
    BY <1>5 DEF ResponsesToChat
  <2> QED
    BY <1>1, <1>5, <2>1, Alone DEF Makes
<1> QED
  BY <1>2, <1>3, <1>4, <1>5

(* The end of a stream from a Responses upstream.                          *)
LEMMA ChatEnds ==
  ASSUME NEW s \in Locals
  PROVE  Finale(ChatEnd(s))
<1> DEFINE a == SendStartIfNeeded(s)
           b == IF s.finish = "sent" THEN <<>> ELSE <<Ev("finish", "stop", 0)>>
           c == <<Ev("stop", "", 0)>>
<1>1. Mute(a) /\ Mute(b) /\ Finale(c)
  BY MessageIsStarted, Murmurs, Alone, Sentences
<1>2. ChatEnd(s) = (a \o b) \o c
  BY DEF ChatEnd
<1> HIDE DEF a, b, c
<1>3. Mute(a \o b)
  BY <1>1, Joined
<1> QED
  BY <1>1, <1>2, <1>3, Joined

(* What a handler must know of a line it reads.                             *)
Ready(h, s, l) ==
    /\ h \in {"openai to responses", "responses to openai"} /\ l.t = "args" => s.callAt # <<>>
    /\ h = "responses to openai" => TellsIds(s)

(* Every handler tells the piece of a line and no other.                   *)
LEMMA OnLineMakes ==
  ASSUME NEW h \in AllHandlers, NEW s \in Locals, NEW l, LineFacts(Speaks[h], l), Ready(h, s, l)
  PROVE  /\ Makes(h, l, OnLine(h, s, l))
         /\ h \in {"openai to responses", "responses to openai"} /\ (s.callAt # <<>> \/ l.t = "call") =>
               OnLine(h, s, l).s.callAt # <<>>
         /\ h = "responses to openai" => TellsIds(OnLine(h, s, l).s)
<1>1. CASE h = "openai to claude"
  <2>1. OnLine(h, s, l) = ToClaude(s, l)
    BY <1>1 DEF OnLine
  <2>2. LineFacts("openai", l)
    BY <1>1, Vocabulary
  <2> QED
    BY <1>1, <2>1, <2>2, ToClaudeMakes
<1>2. CASE h = "openai to gemini"
  <2>1. OnLine(h, s, l) = ToGemini(s, l)
    BY <1>2 DEF OnLine
  <2>2. LineFacts("openai", l)
    BY <1>2, Vocabulary
  <2> QED
    BY <1>2, <2>1, <2>2, GeminiInboundMakes
<1>3. CASE h = "openai to responses"
  <2>1. OnLine(h, s, l) = ToResponses(s, l)
    BY <1>3 DEF OnLine
  <2>2. LineFacts("openai", l)
    BY <1>3, Vocabulary
  <2> QED
    BY <1>3, <2>1, <2>2, ToResponsesMakes DEF Ready
<1>4. CASE h = "responses to openai"
  <2>1. OnLine(h, s, l) = ResponsesToChat(s, l)
    BY <1>4 DEF OnLine
  <2>2. LineFacts("responses", l)
    BY <1>4, Vocabulary
  <2> QED
    BY <1>4, <2>1, <2>2, ResponsesToChatMakes DEF Ready
<1>5. CASE h = "claude to openai"
  <2>1. OnLine(h, s, l) = ClaudeToOpenAI(s, l)
    BY <1>5 DEF OnLine
  <2>2. LineFacts("claude", l)
    BY <1>5, Vocabulary
  <2> QED
    BY <1>5, <2>1, <2>2, ClaudeMakes
<1>6. CASE h = "claude native"
  <2>1. OnLine(h, s, l) = ClaudeNative(s, l)
    BY <1>6 DEF OnLine
  <2>2. LineFacts("claude", l)
    BY <1>6, Vocabulary
  <2> QED
    BY <1>6, <2>1, <2>2, ClaudeNativeMakes
<1>7. CASE h = "gemini to openai"
  <2>1. OnLine(h, s, l) = GeminiToOpenAI(s, l)
    BY <1>7 DEF OnLine
  <2>2. LineFacts("gemini", l)
    BY <1>7, Vocabulary
  <2> QED
    BY <1>7, <2>1, <2>2, GeminiMakes
<1>8. CASE h = "gemini native"
  <2>1. OnLine(h, s, l) = GeminiNative(s, l)
    BY <1>8 DEF OnLine
  <2>2. LineFacts("gemini", l)
    BY <1>8, Vocabulary
  <2> QED
    BY <1>8, <2>1, <2>2, GeminiNativeMakes
<1>9. CASE h = "ollama"
  <2>1. OnLine(h, s, l) = Ollama(s, l)
    BY <1>9 DEF OnLine
  <2>2. LineFacts("ollama", l)
    BY <1>9, Vocabulary
  <2> QED
    BY <1>9, <2>1, <2>2, OllamaMakes
<1>10. CASE h = "coze"
  <2>1. OnLine(h, s, l) = Coze(s, l)
    BY <1>10 DEF OnLine
  <2>2. LineFacts("coze", l)
    BY <1>10, Vocabulary
  <2> QED
    BY <1>10, <2>1, <2>2, CozeMakes
<1>11. CASE h = "dify"
  <2>1. OnLine(h, s, l) = Dify(s, l)
    BY <1>11 DEF OnLine
  <2>2. LineFacts("dify", l)
    BY <1>11, Vocabulary
  <2> QED
    BY <1>11, <2>1, <2>2, DifyMakes
<1> QED
  BY <1>1, <1>2, <1>3, <1>4, <1>5, <1>6, <1>7, <1>8, <1>9, <1>10, <1>11 DEF AllHandlers

(* What the end of a stream may bring: nothing, or the client's end from a  *)
(* handler that returns.                                                    *)
EndReason == {"", "done", "error", "client_gone"}
Result == {"none", "ok", "error"}
Outcome(o) ==
    /\ o.emit = <<>> \/ (Finale(o.emit) /\ o.ret # "none")
    /\ o.ending \in EndReason /\ o.ret \in Result

(* The parts of how a stream ends.                                         *)
LEMMA StopIs ==
  \A e, x, y : Stop(e, x, y).emit = e /\ Stop(e, x, y).ending = x /\ Stop(e, x, y).ret = y
BY DEF Stop

(* The end reasons and results.                                            *)
LEMMA EndsTyped ==
  /\ "" \in EndReason /\ "done" \in EndReason /\ "error" \in EndReason /\ "client_gone" \in EndReason
  /\ "none" \in Result /\ "ok" \in Result /\ "error" \in Result /\ "ok" # "none" /\ "error" # "none"
BY DEF EndReason, Result

(* An end either writes nothing or writes what ends the client's stream.   *)
LEMMA StopsAre ==
  /\ \A x \in EndReason, y \in Result : Outcome(Stop(<<>>, x, y))
  /\ \A e : \A x \in EndReason, y \in Result : Finale(e) /\ y # "none" => Outcome(Stop(e, x, y))
  /\ Outcome(GoOn)
<1>1. ASSUME NEW x \in EndReason, NEW y \in Result PROVE Outcome(Stop(<<>>, x, y))
  BY StopIs DEF Outcome
<1>2. ASSUME NEW e, NEW x \in EndReason, NEW y \in Result, Finale(e), y # "none" PROVE Outcome(Stop(e, x, y))
  BY <1>2, StopIs DEF Outcome
<1>3. Outcome(GoOn)
  <2>1. GoOn = Stop(<<>>, "", "none")
    BY DEF GoOn, Stop
  <2>2. Outcome(Stop(<<>>, "", "none"))
    BY <1>1, EndsTyped, Zenon
  <2> QED
    BY <2>1, <2>2
<1> QED
  BY <1>1, <1>2, <1>3

(* The ends of the handlers.                                                *)
LEMMA StopsOf ==
  /\ \A e : Finale(e) => /\ Outcome(Stop(e, "done", "ok")) /\ Outcome(Stop(e, "error", "ok"))
                          /\ Outcome(Stop(e, "client_gone", "ok")) /\ Outcome(Stop(e, "client_gone", "error"))
  /\ Outcome(Stop(<<>>, "done", "ok")) /\ Outcome(Stop(<<>>, "done", "none"))
  /\ Outcome(Stop(<<>>, "error", "none")) /\ Outcome(Stop(<<>>, "error", "error")) /\ Outcome(Stop(<<>>, "error", "ok"))
  /\ Outcome(Stop(<<>>, "client_gone", "ok")) /\ Outcome(Stop(<<>>, "client_gone", "error"))
<1>1. ASSUME NEW e, Finale(e)
      PROVE  /\ Outcome(Stop(e, "done", "ok")) /\ Outcome(Stop(e, "error", "ok"))
             /\ Outcome(Stop(e, "client_gone", "ok")) /\ Outcome(Stop(e, "client_gone", "error"))
  <2>1. \A x \in EndReason, y \in Result : y # "none" => Outcome(Stop(e, x, y))
    BY <1>1, StopsAre, Zenon
  <2> QED
    BY <2>1, EndsTyped
<1>2. Outcome(Stop(<<>>, "done", "ok")) /\ Outcome(Stop(<<>>, "done", "none"))
  BY EndsTyped, StopsAre, Zenon
<1>3. Outcome(Stop(<<>>, "error", "none")) /\ Outcome(Stop(<<>>, "error", "error")) /\ Outcome(Stop(<<>>, "error", "ok"))
  BY EndsTyped, StopsAre, Zenon
<1>5. Outcome(Stop(<<>>, "client_gone", "ok")) /\ Outcome(Stop(<<>>, "client_gone", "error"))
  BY EndsTyped, StopsAre, Zenon
<1> QED
  BY <1>1, <1>2, <1>3, <1>5

(* What the handlers write at the end ends the client's stream.            *)
LEMMA FinalesAre ==
  ASSUME NEW s \in Locals
  PROVE  /\ Finale(GeminiInboundEnd(s)) /\ Finale(<<Ev("stop", "", 0)>>)
         /\ Finale(ChatEnd(s)) /\ Finale(ClaudeEndChunk(s))
         /\ Finale(MessageDone(s)) /\ Finale(CloseBlock(s) \o <<Ev("stop", "", 0)>>)
<1> DEFINE k == OpenAIFinishReasonToGemini(s.finish)
           c == OpenAIFinishReasonToClaude(s.finish)
<1>1. k \in Word /\ c \in Word
  BY ReasonsAreWords DEF Locals
<1>2. GeminiInboundEnd(s) = <<Ev("finish", k, 0), Ev("stop", "", 0)>>
      /\ MessageDone(s) = CloseBlock(s) \o <<Ev("message delta", c, 0), Ev("stop", "", 0)>>
  BY DEF GeminiInboundEnd, MessageDone
<1>3. Finale(<<Ev("stop", "", 0)>>)
  BY Sentences
<1>4. Mute(CloseBlock(s))
  BY BlockIsClosed
<1> DEFINE a == <<Ev("finish", k, 0), Ev("stop", "", 0)>>
           b == <<Ev("message delta", c, 0), Ev("stop", "", 0)>>
           d == <<Ev("stop", "", 0)>>
           e == CloseBlock(s)
<1> HIDE DEF k, c
<1>5. Mute(<<Ev("finish", k, 0)>>) /\ Mute(<<Ev("message delta", c, 0)>>)
  BY <1>1, Murmurs
<1>6. Finale(a) /\ Finale(b)
  BY <1>3, <1>5, InRow
<1>7. Finale(e \o b) /\ Finale(e \o d)
  <2> HIDE DEF b, d, e
  <2> QED
    BY <1>3, <1>4, <1>6, Joined DEF d, e
<1> QED
  BY <1>2, <1>3, <1>6, <1>7, ChatEnds, EndChunk

(* The terminator ends the stream at most once.                            *)
LEMMA DoneEnds ==
  ASSUME NEW h \in AllHandlers, NEW s \in Locals
  PROVE  /\ Outcome(OnDone(h, s))
         /\ h \in {"claude to openai", "claude native", "gemini native", "coze", "dify"} => OnDone(h, s).emit = <<>>
         /\ h \notin {"claude to openai", "claude native"} => OnDone(h, s).ret = "ok"
         /\ h = "claude to openai" => OnDone(h, s).ending = "done"
<1> DEFINE o == OnDone(h, s)
<1>1. CASE h \in {"openai to claude", "openai to gemini", "openai to responses", "responses to openai",
                  "gemini to openai", "ollama"}
  <2>1. \E e : Finale(e) /\ o = Stop(e, "done", "ok")
    BY <1>1, FinalesAre DEF OnDone
  <2> HIDE DEF o
  <2>2. PICK e : Finale(e) /\ o = Stop(e, "done", "ok")
    BY <2>1
  <2>3. Outcome(o) /\ o.ret = "ok"
    BY <2>2, StopsOf, StopIs
  <2> QED
    BY <1>1, <2>3 DEF o
<1>2. CASE h \in {"gemini native", "coze", "dify"}
  <2>1. o = Stop(<<>>, "done", "ok")
    BY <1>2 DEF OnDone
  <2> HIDE DEF o
  <2>2. Outcome(o) /\ o.ret = "ok" /\ o.emit = <<>>
    BY <2>1, StopsOf, StopIs
  <2> QED
    BY <1>2, <2>2 DEF o
<1>3. CASE h = "claude to openai"
  <2>1. o = Stop(<<>>, "done", "none")
    BY <1>3 DEF OnDone
  <2> HIDE DEF o
  <2>2. Outcome(o) /\ o.ending = "done" /\ o.emit = <<>>
    BY <2>1, StopsOf, StopIs
  <2> QED
    BY <1>3, <2>2 DEF o
<1>4. CASE h = "claude native"
  <2>1. o = GoOn
    BY <1>4 DEF OnDone
  <2> HIDE DEF o
  <2>2. Outcome(o) /\ o.emit = <<>>
    BY <2>1, StopsAre DEF GoOn
  <2> QED
    BY <1>4, <2>2 DEF o
<1> QED
  BY <1>1, <1>2, <1>3, <1>4 DEF AllHandlers

(* An error event ends the stream at most once.                            *)
LEMMA ErrorEnds ==
  ASSUME NEW h, NEW s \in Locals
  PROVE  Outcome(OnError(h, s))
<1>1. \/ OnError(h, s) = GoOn
      \/ OnError(h, s) = Stop(<<>>, "error", "none")
      \/ OnError(h, s) = Stop(<<>>, "", "error")
      \/ OnError(h, s) = Stop(ChatEnd(s), "error", "ok")
      \/ OnError(h, s) = Stop(<<>>, "error", "error")
  BY DEF OnError
<1>2. Outcome(Stop(<<>>, "", "error"))
  BY EndsTyped, StopsAre, Zenon
<1>3. Outcome(Stop(ChatEnd(s), "error", "ok"))
  BY StopsOf, FinalesAre
<1> QED
  BY <1>1, <1>2, <1>3, StopsAre, StopsOf, Zenon

(* The end of the body ends the stream, unless it was ended before.        *)
LEMMA EOFEnds ==
  ASSUME NEW h \in AllHandlers, NEW s \in Locals
  PROVE  /\ Outcome(OnEOF(h, s)) /\ OnEOF(h, s).ret = "ok"
         /\ h = "claude native" => OnEOF(h, s).emit = <<>>
         /\ h = "claude to openai" /\ ending # "" => OnEOF(h, s).emit = <<>>
<1> DEFINE o == OnEOF(h, s)
<1>1. CASE h = "openai to claude"
  <2> DEFINE e == CloseBlock(s) \o <<Ev("stop", "", 0)>>
  <2>1. o = Stop(e, "done", "ok")
    BY <1>1 DEF OnEOF
  <2>2. Finale(e)
    BY FinalesAre
  <2> HIDE DEF o, e
  <2>3. Outcome(o) /\ o.ret = "ok"
    BY <2>1, <2>2, StopsOf, StopIs
  <2> QED
    BY <1>1, <2>3 DEF o
<1>2. CASE h \in {"openai to gemini", "openai to responses", "responses to openai", "gemini to openai", "ollama"}
  <2>1. o = OnDone(h, s)
    BY <1>2 DEF OnEOF
  <2> HIDE DEF o
  <2>2. Outcome(o) /\ o.ret = "ok"
    BY <1>2, <2>1, DoneEnds
  <2> QED
    BY <1>2, <2>2 DEF o
<1>3. CASE h = "claude to openai"
  <2> DEFINE e == IF ending = "" THEN ClaudeEndChunk(s) ELSE <<>>
  <2>1. o = Stop(e, "done", "ok")
    BY <1>3 DEF OnEOF
  <2>2. Finale(e) \/ e = <<>>
    BY FinalesAre
  <2>3. ending # "" => e = <<>>
    OBVIOUS
  <2> HIDE DEF o, e
  <2>4. Outcome(o) /\ o.ret = "ok" /\ o.emit = e
    BY <2>1, <2>2, StopsOf, StopIs
  <2> QED
    BY <1>3, <2>3, <2>4 DEF o
<1>4. CASE h \in {"claude native", "gemini native", "coze", "dify"}
  <2>1. o = Stop(<<>>, "done", "ok")
    BY <1>4 DEF OnEOF
  <2> HIDE DEF o
  <2>2. Outcome(o) /\ o.ret = "ok" /\ o.emit = <<>>
    BY <2>1, StopsOf, StopIs
  <2> QED
    BY <1>4, <2>2 DEF o
<1> QED
  BY <1>1, <1>2, <1>3, <1>4 DEF AllHandlers

(* A read error ends the stream, or leaves it without an end.              *)
LEMMA BrokenEnds ==
  ASSUME NEW h \in AllHandlers, NEW s \in Locals
  PROVE  /\ Outcome(OnBroken(h, s)) /\ OnBroken(h, s).ret # "none"
         /\ h = "claude native" \/ (h = "claude to openai" /\ ending # "") => OnBroken(h, s).emit = <<>>
<1> DEFINE b == OnBroken(h, s)
           o == OnEOF(h, s)
           x == IF gone THEN "ok" ELSE "error"
<1>1. CASE h \in {"openai to gemini", "gemini to openai", "ollama"}
  <2>1. b = [o EXCEPT !.ret = x]
    BY <1>1 DEF OnBroken
  <2>2. \E e : Finale(e) /\ o = Stop(e, "done", "ok")
    <3>1. o = OnDone(h, s)
      BY <1>1 DEF OnEOF
    <3>2. \E e : Finale(e) /\ OnDone(h, s) = Stop(e, "done", "ok")
      BY <1>1, FinalesAre DEF OnDone
    <3> QED
      BY <3>1, <3>2
  <2>3. x = "ok" \/ x = "error"
    OBVIOUS
  <2> HIDE DEF b, o, x
  <2>4. PICK e : Finale(e) /\ o = Stop(e, "done", "ok")
    BY <2>2
  <2>5. b = Stop(e, "done", x)
    BY <2>1, <2>4 DEF Stop
  <2>6. x \in Result /\ x # "none" /\ "done" \in EndReason
    BY <2>3, EndsTyped
  <2>7. Outcome(Stop(e, "done", x))
    BY <2>4, <2>6, StopsAre, Zenon
  <2>8. b.ret = x
    BY <2>5, StopIs
  <2> QED
    BY <1>1, <2>5, <2>6, <2>7, <2>8 DEF b
<1>2. CASE h \in {"openai to claude", "openai to responses", "claude to openai"}
  <2>1. b = o \/ b = Stop(<<>>, "error", "error")
    BY <1>2 DEF OnBroken
  <2>2. Outcome(o) /\ o.ret = "ok"
    BY EOFEnds
  <2>3. h = "claude to openai" /\ ending # "" => o.emit = <<>>
    BY EOFEnds
  <2> HIDE DEF b, o
  <2>4. Outcome(b) /\ b.ret # "none"
    BY <2>1, <2>2, StopsOf, StopIs
  <2>5. o.emit = <<>> => b.emit = <<>>
    BY <2>1, StopIs
  <2> QED
    BY <1>2, <2>3, <2>4, <2>5 DEF b
<1>3. CASE h \in {"gemini native", "responses to openai", "claude native", "coze", "dify"}
  <2>1. \/ b = Stop(<<>>, "error", "ok")
        \/ b = Stop(ChatEnd(s), "error", "ok")
        \/ b = Stop(<<>>, "error", "error")
    BY <1>3 DEF OnBroken
  <2>2. Finale(ChatEnd(s))
    BY FinalesAre
  <2>3. h = "claude native" => b = Stop(<<>>, "error", "error")
    BY DEF OnBroken
  <2> HIDE DEF b
  <2>4. Outcome(b) /\ b.ret # "none"
    BY <2>1, <2>2, StopsOf, StopIs
  <2>5. b = Stop(<<>>, "error", "error") => b.emit = <<>>
    BY StopIs
  <2> QED
    BY <1>3, <2>3, <2>4, <2>5 DEF b
<1> QED
  BY <1>1, <1>2, <1>3 DEF AllHandlers

(* A client that has left gets at most one end.                            *)
LEMMA GoneEnds ==
  ASSUME NEW h, NEW s \in Locals
  PROVE  Outcome(OnGone(h, s)) /\ OnGone(h, s).ret # "none"
<1> DEFINE x == IF h \in {"coze", "dify", "responses to openai"} THEN "ok" ELSE "error"
           e == IF h = "responses to openai" THEN ChatEnd(s) ELSE <<>>
           o == OnGone(h, s)
<1>1. o = Stop(e, "client_gone", x)
  BY DEF OnGone
<1>2. x = "ok" \/ x = "error"
  OBVIOUS
<1>3. e = <<>> \/ Finale(e)
  BY FinalesAre
<1> HIDE DEF x, e, o
<1>4. Outcome(o) /\ o.ret # "none"
  BY <1>1, <1>2, <1>3, StopsOf, StopIs
<1> QED
  BY <1>4 DEF o

(* What a request is billed with is a usage.                                *)
LEMMA BillTyped ==
  ASSUME NEW h, NEW s \in Locals
  PROVE  Bill(h, s) \in Usage
<1>1. s.usage \in Usage /\ s.words \in Nat
  BY DEF Locals
<1>2. ClaudeInboundUsage(s.usage) \in Usage
  BY <1>1 DEF ClaudeInboundUsage, Usage
<1>3. ResponsesUsage(s) \in Usage
  BY <1>1 DEF ResponsesUsage, Usage
<1>4. ChatUsage(s) \in Usage
  <2>1. [NoUsage EXCEPT !.completion = s.words] \in Usage
    BY <1>1, UsagesTyped DEF Usage
  <2> QED
    BY <1>1, <2>1 DEF ChatUsage
<1>5. NoUsage \in Usage
  BY UsagesTyped
<1> QED
  BY <1>1, <1>2, <1>3, <1>4, <1>5 DEF Bill

(* What a step adds to the events: nothing said, a piece, or the end.       *)
Adds(b) ==
    /\ Made' = Made \o b
    /\ b = <<>> \/ ~Closed
    /\ Closed => Closed'
    /\ \/ said' = said /\ (Mute(b) \/ (Finale(b) /\ Closed'))
       \/ \E k : said' = Append(said, k) /\ Tells(b, k)

(* What is added so keeps the pieces told and the end behind them.         *)
LEMMA AddedIsMade ==
  ASSUME NEW b, Adds(b), Made \in Seq(Event), SaidIsMade, EndIsLast
  PROVE  SaidIsMade' /\ EndIsLast'
<1>1. b \in Seq(Event)
  BY DEF Adds, Mute, Finale, Tells
<1>2. SaidIsMade'
  <2>1. HeardIn(Made) = said
    BY DEF SaidIsMade, HeardIn
  <2>2. HeardIn(Made \o b) = said'
    <3>1. CASE said' = said /\ (Mute(b) \/ Finale(b))
      <4>1. Quiet(b)
        BY <3>1 DEF Mute, Finale
      <4> QED
        BY <1>1, <2>1, <3>1, <4>1, QuietIsNotHeard
    <3>2. ASSUME NEW k, said' = Append(said, k), Tells(b, k) PROVE HeardIn(Made \o b) = said'
      <4>1. Brings(b, k)
        BY <3>2 DEF Tells
      <4> QED
        BY <1>1, <2>1, <3>2, <4>1, BroughtIsHeard
    <3> QED
      BY <3>1, <3>2 DEF Adds
  <2>3. HeardIn(Made') = said'
    BY <2>2 DEF Adds
  <2> QED
    BY <2>3 DEF SaidIsMade, HeardIn
<1>3. EndIsLast'
  <2> DEFINE m == Made
  <2>1. m \in Seq(Event) /\ Made' = m \o b
    BY DEF Adds
  <2>2. \A n \in DOMAIN m : m[n].e = "stop" =>
           Closed /\ \A i \in DOMAIN m : i > n => ~IsDelta(m[i]) /\ m[i].e # "stop"
    BY DEF EndIsLast
  <2>3. \A n \in DOMAIN (m \o b) : (m \o b)[n].e = "stop" =>
           Closed' /\ \A i \in DOMAIN (m \o b) : i > n => ~IsDelta((m \o b)[i]) /\ (m \o b)[i].e # "stop"
    <3>1. CASE b = <<>>
      <4> HIDE DEF m
      <4>1. m \o b = m
        BY <2>1, <3>1
      <4>2. Closed => Closed'
        BY DEF Adds
      <4> QED
        BY <2>2, <4>1, <4>2
    <3>2. CASE ~Closed
      <4>1. \A n \in DOMAIN m : m[n].e # "stop"
        BY <2>2, <3>2
      <4>2. \/ \A n \in DOMAIN b : b[n].e # "stop"
            \/ Closed' /\ \A n \in DOMAIN b : b[n].e = "stop" <=> n = Len(b)
        BY DEF Adds, Mute, Tells, Finale
      <4> HIDE DEF m
      <4>3. /\ DOMAIN (m \o b) = 1 .. Len(m) + Len(b) /\ Len(m) \in Nat /\ Len(b) \in Nat
            /\ \A n \in DOMAIN (m \o b) :
                 \/ n \in DOMAIN m /\ (m \o b)[n] = m[n]
                 \/ n > Len(m) /\ n - Len(m) \in DOMAIN b /\ (m \o b)[n] = b[n - Len(m)]
        BY <1>1, <2>1
      <4>4. CASE \A n \in DOMAIN b : b[n].e # "stop"
        <5>1. \A n \in DOMAIN (m \o b) : (m \o b)[n].e # "stop"
          BY <4>1, <4>3, <4>4
        <5> QED
          BY <5>1
      <4>5. CASE Closed' /\ \A n \in DOMAIN b : b[n].e = "stop" <=> n = Len(b)
        <5>1. \A n \in DOMAIN (m \o b) : (m \o b)[n].e = "stop" => n = Len(m) + Len(b)
          <6>1. ASSUME NEW n \in DOMAIN (m \o b), (m \o b)[n].e = "stop" PROVE n = Len(m) + Len(b)
            <7>1. n \notin DOMAIN m \/ (m \o b)[n] # m[n]
              BY <4>1, <6>1
            <7>2. n > Len(m) /\ n - Len(m) \in DOMAIN b /\ (m \o b)[n] = b[n - Len(m)]
              BY <4>3, <7>1
            <7>3. b[n - Len(m)].e = "stop"
              BY <6>1, <7>2
            <7>4. n - Len(m) = Len(b)
              BY <4>5, <7>2, <7>3
            <7>5. n \in Int
              BY <4>3
            <7> QED
              BY <4>3, <7>4, <7>5
          <6> QED
            BY <6>1
        <5>2. \A n, i \in DOMAIN (m \o b) : n = Len(m) + Len(b) => ~(i > n)
          BY <4>3
        <5> QED
          BY <4>5, <5>1, <5>2
      <4> QED
        BY <4>2, <4>4, <4>5
    <3> QED
      BY <3>1, <3>2 DEF Adds
  <2>4. \A n \in DOMAIN Made' : Made'[n].e = "stop" =>
           Closed' /\ \A i \in DOMAIN Made' : i > n => ~IsDelta(Made'[i]) /\ Made'[i].e # "stop"
    <3> HIDE DEF m
    <3> QED
      BY <2>1, <2>3
  <2> QED
    BY <2>4 DEF EndIsLast, IsDelta
<1> QED
  BY <1>2, <1>3

(* The handler's side of a step.                                            *)
LEMMA HandlesMake ==
  ASSUME TypeOK, todo = <<>>, NEW s \in Locals, NEW e \in Seq(Event), NEW o, Outcome(o), Handles(s, e, o)
  PROVE  /\ Made = out /\ Made \in Seq(Event) /\ o.emit \in Seq(Event) /\ Made' = Made \o (e \o o.emit)
         /\ handler' = handler /\ gone' = gone /\ st' = s /\ ret' = o.ret
         /\ ending' = (IF ending = "" THEN o.ending ELSE ending)
         /\ st' \in Locals /\ todo' \in Seq(Event) /\ out' \in Seq(Event)
         /\ ending' \in EndReason /\ ret' \in Result /\ billed' \in Usage
<1>1. out \in Seq(Event) /\ ending \in EndReason /\ billed \in Usage
  BY DEF TypeOK, EndReason
<1>2. o.emit \in Seq(Event) /\ o.ending \in EndReason /\ o.ret \in Result
  <2>1. <<>> \in Seq(Event)
    OBVIOUS
  <2> QED
    BY <2>1 DEF Outcome, Finale
<1>3. Made = out
  <2>1. out \o <<>> = out
    BY <1>1
  <2> QED
    BY <2>1 DEF Made
<1>4. /\ st' = s /\ todo' = e \o o.emit /\ ret' = o.ret /\ handler' = handler /\ gone' = gone /\ out' = out
      /\ ending' = (IF ending = "" THEN o.ending ELSE ending)
      /\ billed' = (IF o.ret = "ok" THEN Bill(handler, s) ELSE billed)
  BY DEF Handles
<1>5. e \o o.emit \in Seq(Event)
  BY <1>2
<1>6. Made' = Made \o (e \o o.emit)
  BY <1>3, <1>4 DEF Made
<1>7. billed' \in Usage
  BY <1>1, <1>4, BillTyped
<1>8. ending' \in EndReason
  BY <1>1, <1>2, <1>4
<1> QED
  BY <1>1, <1>2, <1>3, <1>4, <1>5, <1>6, <1>7, <1>8

(* The upstream's side of a step.                                           *)
LEMMA ReportsTyped ==
  ASSUME NEW u \in Usage, NEW w \in Usage
  PROVE  [f \in DOMAIN u |-> IF w[f] > 0 THEN w[f] ELSE u[f]] \in Usage
<1> DEFINE r == [f \in DOMAIN u |-> IF w[f] > 0 THEN w[f] ELSE u[f]]
<1>1. DOMAIN u = {"prompt", "completion", "cached"}
  BY DEF Usage
<1>2. /\ u.prompt \in Nat /\ u.completion \in Nat /\ u.cached \in Nat
      /\ w.prompt \in Nat /\ w.completion \in Nat /\ w.cached \in Nat
  BY DEF Usage
<1>3. r.prompt \in Nat /\ r.completion \in Nat /\ r.cached \in Nat
  BY <1>1, <1>2
<1>4. r = [prompt |-> r.prompt, completion |-> r.completion, cached |-> r.cached]
  BY <1>1
<1> HIDE DEF r
<1>5. r \in Usage
  BY <1>3, <1>4 DEF Usage
<1> QED
  BY <1>5 DEF r

(* Where an upstream may be in its protocol.                               *)
Phases == {"talking", "finished", "over", "cut"}

(* The upstream's side of a step.                                          *)
LEMMA SpokenTyped ==
  ASSUME TypeOK, NEW l, l.reason \in Word, l.usage \in Usage, Spoken(l)
  PROVE  /\ lines' \in Nat /\ phase' \in Phases /\ reason' \in Word /\ reported' \in Usage
         /\ said' = (IF l.t \in CanSay(Speaks[handler]) /\ Keeps(handler, l.t) THEN Append(said, l.t) ELSE said)
         /\ said' \in Seq(Piece)
         /\ l.t \in {"done", "error"} => phase' = "over"
<1>1. /\ lines' = lines + 1
      /\ said' = (IF l.t \in CanSay(Speaks[handler]) /\ Keeps(handler, l.t) THEN Append(said, l.t) ELSE said)
      /\ phase' = CASE l.t = "finish" -> "finished"
                    [] l.t \in {"done", "error"} -> "over"
                    [] l.t \in {"eof", "broken"} -> IF phase = "over" THEN "over" ELSE "cut"
                    [] OTHER -> phase
      /\ reason' = (IF l.t = "finish" THEN l.reason ELSE reason)
      /\ reported' = [f \in DOMAIN reported |-> IF l.usage[f] > 0 THEN l.usage[f] ELSE reported[f]]
  BY DEF Spoken
<1>2. lines \in Nat /\ phase \in Phases /\ said \in Seq(Piece) /\ reason \in Word
      /\ reported \in Usage
  BY DEF TypeOK, Phases
<1>3. \A v : CanSay(v) \subseteq Piece
  BY DEF CanSay, Piece
<1>4. lines' \in Nat
  BY <1>1, <1>2
<1>5. phase' \in Phases /\ (l.t \in {"done", "error"} => phase' = "over")
  BY <1>1, <1>2 DEF Phases
<1>6. reason' \in Word
  BY <1>1, <1>2
<1>7. reported' \in Usage
  BY <1>1, <1>2, ReportsTyped
<1>8. said' \in Seq(Piece)
  <2>1. ASSUME NEW p \in Piece PROVE Append(said, p) \in Seq(Piece)
    BY <1>2
  <2> QED
    BY <1>1, <1>2, <1>3, <2>1
<1> QED
  BY <1>1, <1>4, <1>5, <1>6, <1>7, <1>8

(* What the handler makes of a line, junk included.                         *)
Reading(l) == IF l.t = "junk" THEN [emit |-> <<>>, s |-> st] ELSE OnLine(handler, st, l)

Calls(h) == h \in {"openai to responses", "responses to openai"}

(* What a handler makes of the line it reads.                              *)
LEMMA ReadingMakes ==
  ASSUME TypeOK, CallIsKnown, NEW l, LineFacts(Speaks[handler], l)
  PROVE  /\ Makes(handler, l, Reading(l))
         /\ Calls(handler) /\ (st.callAt # <<>> \/ l.t = "call") => Reading(l).s.callAt # <<>>
         /\ handler = "responses to openai" => TellsIds(Reading(l).s)
         /\ handler = "openai to claude" /\ l.t = "args" => st.block = "call"
<1>1. handler \in AllHandlers /\ st \in Locals
  BY HandlerAssumption DEF TypeOK
<1>2. l.t = "args" => said # <<>> /\ Last(said) \in {"call", "args"}
  BY DEF LineFacts
<1>3. Ready(handler, st, l)
  BY <1>2 DEF Ready, CallIsKnown, TellsIds
<1>4. handler = "openai to claude" /\ l.t = "args" => st.block = "call"
  BY <1>2 DEF CallIsKnown
<1>5. CASE l.t = "junk"
  <2>1. Reading(l).emit = <<>> /\ Reading(l).s = st
    BY <1>5 DEF Reading
  <2>2. l.t \notin Piece
    BY <1>5 DEF Piece
  <2>3. Makes(handler, l, Reading(l))
    BY <1>1, <2>1, <2>2, Alone DEF Makes
  <2> QED
    BY <1>3, <1>4, <1>5, <2>1, <2>3 DEF Ready
<1>6. CASE l.t # "junk"
  <2>1. Reading(l) = OnLine(handler, st, l)
    BY <1>6 DEF Reading
  <2>2. /\ Makes(handler, l, OnLine(handler, st, l))
        /\ Calls(handler) /\ (st.callAt # <<>> \/ l.t = "call") => OnLine(handler, st, l).s.callAt # <<>>
        /\ handler = "responses to openai" => TellsIds(OnLine(handler, st, l).s)
    BY <1>1, <1>3, OnLineMakes DEF Calls
  <2> QED
    BY <1>4, <2>1, <2>2
<1> QED
  BY <1>5, <1>6

(* How a line is answered.                                                  *)
Turn(l, s, e, o) ==
    \/ l.t = "done" /\ LeavesAtDone /\ s = st /\ e = <<>> /\ o = OnDone(handler, st)
    \/ l.t = "done" /\ ~LeavesAtDone /\ s = Reading(l).s /\ e = Reading(l).emit /\ o = OnDone(handler, s)
    \/ l.t = "error" /\ s = Reading(l).s /\ e = Reading(l).emit /\ o = OnError(handler, s)
    \/ l.t \notin {"done", "error"} /\ s = Reading(l).s /\ e = Reading(l).emit /\ o = GoOn

(* A line is read in a turn: the locals, the events and the outcome.       *)
LEMMA ReadLineIs ==
  ASSUME ReadLine
  PROVE  /\ ret = "none" /\ todo = <<>> /\ phase # "over"
         /\ \E l \in Lines(Speaks[handler]) : \E s, e, o : Spoken(l) /\ Turn(l, s, e, o) /\ Handles(s, e, o)
<1>1. ret = "none" /\ todo = <<>> /\ phase # "over"
  BY DEF ReadLine, Idle
<1>2. PICK l \in Lines(Speaks[handler]) :
        /\ Spoken(l)
        /\ CASE l.t = "done" /\ LeavesAtDone -> Handles(st, <<>>, OnDone(handler, st))
             [] l.t = "done" /\ ~LeavesAtDone -> Handles(Reading(l).s, Reading(l).emit, OnDone(handler, Reading(l).s))
             [] l.t = "error" -> Handles(Reading(l).s, Reading(l).emit, OnError(handler, Reading(l).s))
             [] OTHER -> Handles(Reading(l).s, Reading(l).emit, GoOn)
  BY Zenon DEF ReadLine, Reading
<1>3. \E s, e, o : Turn(l, s, e, o) /\ Handles(s, e, o)
  <2>1. CASE l.t = "done" /\ LeavesAtDone
    <3>1. Handles(st, <<>>, OnDone(handler, st))
      BY <1>2, <2>1
    <3>2. Turn(l, st, <<>>, OnDone(handler, st))
      BY <2>1 DEF Turn
    <3> QED
      BY <3>1, <3>2
  <2>2. CASE l.t = "done" /\ ~LeavesAtDone
    <3>1. Handles(Reading(l).s, Reading(l).emit, OnDone(handler, Reading(l).s))
      BY <1>2, <2>2
    <3>2. Turn(l, Reading(l).s, Reading(l).emit, OnDone(handler, Reading(l).s))
      BY <2>2 DEF Turn
    <3> QED
      BY <3>1, <3>2
  <2>3. CASE l.t = "error"
    <3>1. Handles(Reading(l).s, Reading(l).emit, OnError(handler, Reading(l).s))
      BY <1>2, <2>3
    <3>2. Turn(l, Reading(l).s, Reading(l).emit, OnError(handler, Reading(l).s))
      BY <2>3 DEF Turn
    <3> QED
      BY <3>1, <3>2
  <2>4. CASE l.t \notin {"done", "error"}
    <3>1. Handles(Reading(l).s, Reading(l).emit, GoOn)
      BY <1>2, <2>4
    <3>2. Turn(l, Reading(l).s, Reading(l).emit, GoOn)
      BY <2>4 DEF Turn
    <3> QED
      BY <3>1, <3>2
  <2> QED
    BY <2>1, <2>2, <2>3, <2>4
<1> QED
  BY <1>1, <1>2, <1>3

(* Nothing added is nothing.                                               *)
LEMMA EmptyAdds ==
  ASSUME NEW e \in Seq(Event)
  PROVE  <<>> \o e = e /\ e \o <<>> = e
OBVIOUS

(* What a handler makes of a line that is no piece.                         *)
LEMMA SilentLine ==
  ASSUME NEW e, Mute(e), NEW o, Outcome(o)
  PROVE  Mute(e \o o.emit) \/ (Finale(e \o o.emit) /\ o.ret # "none")
<1>1. CASE o.emit = <<>>
  <2>1. e \o o.emit = e
    BY <1>1, EmptyAdds DEF Mute
  <2> QED
    BY <2>1
<1>2. CASE Finale(o.emit) /\ o.ret # "none"
  BY <1>2, Joined
<1> QED
  BY <1>1, <1>2 DEF Outcome

(* A turn tells the line's piece, nothing, or the end.                     *)
LEMMA TurnMakes ==
  ASSUME TypeOK, CallIsKnown, NEW l, LineFacts(Speaks[handler], l), NEW s, NEW e, NEW o, Turn(l, s, e, o)
  PROVE  /\ s \in Locals /\ e \in Seq(Event) /\ Outcome(o)
         /\ \/ l.t \in Piece /\ Keeps(handler, l.t) /\ o.emit = <<>> /\ Tells(e, l.t)
            \/ ~(l.t \in Piece /\ Keeps(handler, l.t)) /\ Mute(e)
            \/ /\ l.t = "done" /\ o.emit = <<>> /\ Finale(e)
               /\ \/ o.ret = "ok" \/ handler = "claude native"
                  \/ handler = "claude to openai" /\ o.ending = "done"
<1>1. handler \in AllHandlers /\ st \in Locals
  BY HandlerAssumption DEF TypeOK
<1> DEFINE r == Reading(l)
<1>2. r.s \in Locals /\ IF l.t \in Piece /\ Keeps(handler, l.t) THEN Tells(r.emit, l.t)
                        ELSE Mute(r.emit) \/ (l.t = "done" /\ handler # "ollama" /\ Finale(r.emit))
  BY ReadingMakes DEF Makes
<1>3. "done" \notin Piece /\ "error" \notin Piece
  BY DEF Piece
<1>4. r.emit \in Seq(Event)
  BY <1>2 DEF Tells, Mute, Finale
<1>5. <<>> \in Seq(Event)
  OBVIOUS
<1> HIDE DEF r
<1>6. CASE l.t = "done" /\ LeavesAtDone /\ s = st /\ e = <<>> /\ o = OnDone(handler, st)
  <2>1. Outcome(o)
    BY <1>1, <1>6, DoneEnds
  <2> QED
    BY <1>1, <1>3, <1>5, <1>6, <2>1, Alone
<1>7. CASE l.t = "done" /\ ~LeavesAtDone /\ s = r.s /\ e = r.emit /\ o = OnDone(handler, s)
  <2>1. /\ Outcome(o)
        /\ handler \in {"claude to openai", "claude native", "gemini native", "coze", "dify"} => o.emit = <<>>
        /\ handler \notin {"claude to openai", "claude native"} => o.ret = "ok"
        /\ handler = "claude to openai" => o.ending = "done"
    BY <1>1, <1>2, <1>7, DoneEnds
  <2>2. Mute(e) \/ (handler # "ollama" /\ Finale(e))
    BY <1>2, <1>3, <1>7
  <2>3. handler # "ollama" => handler \in {"claude to openai", "claude native", "gemini native", "coze", "dify"}
    BY <1>1, <1>7 DEF AllHandlers, LeavesAtDone
  <2> QED
    BY <1>2, <1>3, <1>4, <1>7, <2>1, <2>2, <2>3
<1>8. CASE l.t = "error" /\ s = r.s /\ e = r.emit /\ o = OnError(handler, s)
  <2>1. Outcome(o)
    BY <1>2, <1>8, ErrorEnds
  <2> QED
    BY <1>2, <1>3, <1>4, <1>8, <2>1
<1>9. CASE l.t \notin {"done", "error"} /\ s = r.s /\ e = r.emit /\ o = GoOn
  <2>1. Outcome(o) /\ o.emit = <<>>
    BY <1>9, StopsAre DEF GoOn
  <2> QED
    BY <1>2, <1>4, <1>9, <2>1
<1> QED
  BY <1>6, <1>7, <1>8, <1>9 DEF Turn, r

(* What a turn adds to the events.                                         *)
LEMMA TurnAdds ==
  ASSUME TypeOK, CallIsKnown, ret = "none", todo = <<>>, phase # "over",
         NEW l, LineFacts(Speaks[handler], l), Spoken(l),
         NEW s, NEW e, NEW o, Turn(l, s, e, o), Handles(s, e, o)
  PROVE  Adds(e \o o.emit)
<1>1. /\ s \in Locals /\ e \in Seq(Event) /\ Outcome(o)
      /\ \/ l.t \in Piece /\ Keeps(handler, l.t) /\ o.emit = <<>> /\ Tells(e, l.t)
         \/ ~(l.t \in Piece /\ Keeps(handler, l.t)) /\ Mute(e)
         \/ /\ l.t = "done" /\ o.emit = <<>> /\ Finale(e)
            /\ \/ o.ret = "ok" \/ handler = "claude native"
               \/ handler = "claude to openai" /\ o.ending = "done"
  BY TurnMakes
<1>2. /\ Made' = Made \o (e \o o.emit) /\ handler' = handler /\ ret' = o.ret
      /\ ending' = (IF ending = "" THEN o.ending ELSE ending)
  BY <1>1, HandlesMake
<1>3. ~Closed
  BY DEF Closed
<1>4. l.t \in Piece /\ Keeps(handler, l.t) => said' = Append(said, l.t)
  BY SpokenTyped DEF LineFacts
<1>5. ~(l.t \in Piece /\ Keeps(handler, l.t)) => said' = said
  <2>1. \A v : CanSay(v) \subseteq Piece
    BY DEF CanSay, Piece
  <2> QED
    BY <2>1, SpokenTyped DEF LineFacts
<1>6. ret' # "none" => Closed'
  BY DEF Closed
<1>7. \/ said' = said /\ (Mute(e \o o.emit) \/ (Finale(e \o o.emit) /\ Closed'))
      \/ \E k : said' = Append(said, k) /\ Tells(e \o o.emit, k)
  <2>1. CASE l.t \in Piece /\ Keeps(handler, l.t) /\ o.emit = <<>> /\ Tells(e, l.t)
    <3>1. e \o o.emit = e
      BY <1>1, <2>1, EmptyAdds
    <3>2. said' = Append(said, l.t) /\ Tells(e \o o.emit, l.t)
      BY <1>4, <2>1, <3>1
    <3> QED
      BY <3>2
  <2>2. CASE ~(l.t \in Piece /\ Keeps(handler, l.t)) /\ Mute(e)
    BY <1>1, <1>2, <1>5, <1>6, <2>2, SilentLine
  <2>3. CASE /\ l.t = "done" /\ o.emit = <<>> /\ Finale(e)
             /\ \/ o.ret = "ok" \/ handler = "claude native"
                \/ handler = "claude to openai" /\ o.ending = "done"
    <3>1. e \o o.emit = e
      BY <1>1, <2>3, EmptyAdds
    <3>2. said' = said
      BY <1>5, <2>3 DEF Piece
    <3>3. phase' = "over"
      BY <2>3, SpokenTyped DEF LineFacts
    <3>4. Closed'
      BY <1>2, <2>3, <3>3 DEF Closed
    <3> QED
      BY <2>3, <3>1, <3>2, <3>4
  <2> QED
    BY <1>1, <2>1, <2>2, <2>3
<1> QED
  BY <1>2, <1>3, <1>7 DEF Adds

(* The invariant about blocks, in terms of what the locals track.          *)
LEMMA BlockIsTracked ==
  BlockIsOpen <=> (handler = "openai to claude" =>
                     BlockIn(Made).ok /\ (ret = "none" => Tracks(BlockIn(Made), st)))
BY DEF BlockIsOpen, Tracks, BlockIn

(* One line of an OpenAI stream for a Claude client.                        *)
LEMMA ClaudeLine ==
  ASSUME TypeOK, CallIsKnown, BlockIsOpen, ret = "none", todo = <<>>, handler = "openai to claude",
         NEW l, LineFacts(Speaks[handler], l), NEW s, NEW e, NEW o, Turn(l, s, e, o), Handles(s, e, o)
  PROVE  /\ BlockIn(Made').ok /\ (ret' = "none" => Tracks(BlockIn(Made'), st'))
         /\ l.t \in {"call", "args"} => st'.block = "call"
         /\ l.t \notin Piece => st'.block = st.block
<1>1. st \in Locals /\ LineFacts("openai", l) /\ (l.t = "args" => st.block = "call")
  BY ReadingMakes, Vocabulary DEF TypeOK
<1>2. s \in Locals /\ e \in Seq(Event) /\ Outcome(o)
  BY TurnMakes
<1>3. /\ Made \in Seq(Event) /\ o.emit \in Seq(Event) /\ Made' = Made \o (e \o o.emit) /\ st' = s /\ ret' = o.ret
  BY <1>2, HandlesMake
<1>4. Tracks(BlockIn(Made), st)
  BY BlockIsTracked
<1>5. "done" \notin Piece /\ "junk" \notin Piece
  BY DEF Piece
<1>6. CASE l.t = "done" /\ LeavesAtDone /\ s = st /\ e = <<>> /\ o = OnDone(handler, st)
  <2>1. o.emit = MessageDone(st) /\ o.ret = "ok"
    <3>1. OnDone(handler, st) = Stop(MessageDone(st), "done", "ok")
      BY DEF OnDone
    <3> DEFINE d == MessageDone(st)
    <3>2. o = Stop(d, "done", "ok")
      BY <1>6, <3>1
    <3> HIDE DEF d
    <3>4. Stop(d, "done", "ok").emit = d /\ Stop(d, "done", "ok").ret = "ok"
      BY DEF Stop
    <3>3. o.emit = d /\ o.ret = "ok"
      BY <3>2, <3>4, Zenon
    <3> QED
      BY <3>3 DEF d
  <2>2. Made' = Made \o MessageDone(st)
    BY <1>3, <1>6, <2>1, EmptyAdds
  <2>3. BlockIn(Made').ok
    BY <1>1, <1>3, <1>4, <2>2, MessageDoneTracks
  <2> QED
    BY <1>3, <1>5, <1>6, <2>1, <2>3
<1>7. CASE o.emit = <<>> /\ s = Reading(l).s /\ e = Reading(l).emit
  <2>1. Made' = Made \o Reading(l).emit
    BY <1>2, <1>3, <1>7, EmptyAdds
  <2>2. /\ Tracks(BlockIn(Made \o Reading(l).emit), Reading(l).s)
        /\ l.t \in {"call", "args"} => Reading(l).s.block = "call"
        /\ l.t \notin Piece => Reading(l).s.block = st.block
    <3>1. CASE l.t = "junk"
      <4>1. Reading(l).emit = <<>> /\ Reading(l).s = st
        BY <3>1 DEF Reading
      <4>2. Made \o <<>> = Made
        BY <1>3, EmptyAdds
      <4> QED
        BY <1>4, <3>1, <4>1, <4>2
    <3>2. CASE l.t # "junk"
      <4>1. Reading(l) = ToClaude(st, l)
        BY <3>2 DEF Reading, OnLine
      <4>2. /\ Tracks(BlockIn(Made \o ToClaude(st, l).emit), ToClaude(st, l).s)
            /\ l.t \in {"call", "args"} => ToClaude(st, l).s.block = "call"
            /\ l.t \notin Piece => ToClaude(st, l).s.block = st.block
        BY <1>1, <1>3, <1>4, ToClaudeTracks
      <4> QED
        BY <4>1, <4>2
    <3> QED
      BY <3>1, <3>2
  <2>3. BlockIn(Made').ok
    BY <2>1, <2>2 DEF Tracks
  <2> QED
    BY <1>3, <1>7, <2>1, <2>2, <2>3
<1>8. ASSUME o = OnError(handler, s) \/ o = GoOn PROVE o.emit = <<>>
  <2>1. OnError(handler, s) = GoOn
    BY DEF OnError
  <2>2. GoOn.emit = <<>>
    BY DEF GoOn
  <2> QED
    BY <1>8, <2>1, <2>2
<1>9. LeavesAtDone
  BY DEF LeavesAtDone
<1> QED
  BY <1>6, <1>7, <1>8, <1>9 DEF Turn

(* The last element is the one appended.                                   *)
LEMMA LastAppended ==
  ASSUME NEW p \in Seq(Piece), NEW k \in Piece
  PROVE  Last(Append(p, k)) = k
BY DEF Last

(* A line leaves its call known to the fragments that follow.              *)
LEMMA LineKeepsCalls ==
  ASSUME TypeOK, CallIsKnown, BlockIsOpen, ret = "none", todo = <<>>, phase # "over",
         NEW l, LineFacts(Speaks[handler], l), Spoken(l),
         NEW s, NEW e, NEW o, Turn(l, s, e, o), Handles(s, e, o)
  PROVE  CallIsKnown'
<1>1. s \in Locals /\ e \in Seq(Event) /\ Outcome(o)
  BY TurnMakes
<1>2. handler' = handler /\ st' = s
  BY <1>1, HandlesMake
<1>3. (s = st /\ l.t = "done") \/ s = Reading(l).s
  BY DEF Turn
<1>4. /\ Calls(handler) /\ (st.callAt # <<>> \/ l.t = "call") => Reading(l).s.callAt # <<>>
      /\ handler = "responses to openai" => TellsIds(Reading(l).s)
  BY ReadingMakes
<1>5. /\ said \in Seq(Piece) /\ said' \in Seq(Piece)
      /\ \/ said' = said /\ (l.t \in Piece => handler = "openai to gemini")
         \/ l.t \in Piece /\ said' = Append(said, l.t)
  <2>1. \A v : CanSay(v) \subseteq Piece
    BY DEF CanSay, Piece
  <2>2. said \in Seq(Piece)
    BY DEF TypeOK
  <2> QED
    BY <2>1, <2>2, SpokenTyped DEF LineFacts, Keeps
<1>6. l.t = "args" => said # <<>> /\ Last(said) \in {"call", "args"}
  BY DEF LineFacts
<1>7. handler = "responses to openai" => TellsIds(st')
  <2>1. handler = "responses to openai" => TellsIds(st)
    BY DEF CallIsKnown, TellsIds
  <2> QED
    BY <1>2, <1>3, <1>4, <2>1
<1>8. ASSUME said' # <<>>, Last(said') \in {"call", "args"}, Calls(handler) PROVE st'.callAt # <<>>
  <2>1. CASE l.t = "call"
    BY <1>2, <1>3, <1>4, <1>8, <2>1
  <2>2. CASE l.t # "call"
    <3>1. said # <<>> /\ Last(said) \in {"call", "args"}
      <4>1. CASE said' = said
        BY <1>8, <4>1
      <4>2. CASE l.t \in Piece /\ said' = Append(said, l.t)
        <5>1. l.t \in {"call", "args"}
          BY <1>5, <1>8, <4>2, LastAppended
        <5> QED
          BY <1>6, <2>2, <5>1
      <4> QED
        BY <1>5, <4>1, <4>2
    <3>2. st.callAt # <<>>
      BY <1>8, <3>1 DEF CallIsKnown, Calls
    <3> QED
      BY <1>2, <1>3, <1>4, <1>8, <3>2
  <2> QED
    BY <2>1, <2>2
<1>9. ASSUME said' # <<>>, Last(said') \in {"call", "args"}, handler = "openai to claude" PROVE st'.block = "call"
  <2>1. /\ l.t \in {"call", "args"} => st'.block = "call"
        /\ l.t \notin Piece => st'.block = st.block
    BY <1>9, ClaudeLine
  <2>2. CASE l.t \in Piece /\ said' = Append(said, l.t)
    <3>1. l.t \in {"call", "args"}
      BY <1>5, <1>9, <2>2, LastAppended
    <3> QED
      BY <2>1, <3>1
  <2>3. CASE said' = said /\ l.t \notin Piece
    <3>1. st.block = "call"
      BY <1>9, <2>3 DEF CallIsKnown
    <3> QED
      BY <2>1, <2>3, <3>1
  <2> QED
    BY <1>5, <1>9, <2>2, <2>3
<1> QED
  BY <1>2, <1>7, <1>8, <1>9 DEF CallIsKnown, Calls, TellsIds

(* No events are a sequence of events.                                     *)
LEMMA NoEvents == <<>> \in Seq(Event)
OBVIOUS

(* A step in which the handler returns: it adds its end, or nothing.        *)
LEMMA ReturnKeeps ==
  ASSUME TypeOK, CallIsKnown, BlockIsOpen, ret = "none", todo = <<>>,
         NEW o, Outcome(o), o.ret # "none", Handles(st, <<>>, o), said' = said,
         o.emit = <<>> \/ ~Closed,
         handler = "openai to claude" => o.emit = <<>> \/ o.emit = CloseBlock(st) \o <<Ev("stop", "", 0)>>
  PROVE  Adds(o.emit) /\ CallIsKnown' /\ BlockIsOpen'
<1>1. st \in Locals /\ <<>> \in Seq(Event)
  <2>1. <<>> \in Seq(Event)
    BY NoEvents, Zenon
  <2> QED
    BY <2>1 DEF TypeOK
<1>2. /\ Made \in Seq(Event) /\ o.emit \in Seq(Event) /\ Made' = Made \o (<<>> \o o.emit)
      /\ handler' = handler /\ st' = st /\ ret' = o.ret
  BY <1>1, HandlesMake
<1>3. Made' = Made \o o.emit
  BY <1>2, EmptyAdds
<1>4. Closed'
  BY <1>2 DEF Closed
<1>5. Mute(o.emit) \/ Finale(o.emit)
  BY Alone DEF Outcome
<1>6. Adds(o.emit)
  BY <1>3, <1>4, <1>5 DEF Adds
<1>7. CallIsKnown'
  BY <1>2 DEF CallIsKnown
<1>8. BlockIsOpen'
  <2>1. ASSUME handler = "openai to claude" PROVE BlockIn(Made').ok
    <3>1. Tracks(BlockIn(Made), st)
      BY <2>1, BlockIsTracked
    <3>2. CASE o.emit = <<>>
      <4>1. Made' = Made
        BY <1>2, <1>3, <3>2, EmptyAdds
      <4> QED
        BY <3>1, <4>1 DEF Tracks
    <3>3. CASE o.emit = CloseBlock(st) \o <<Ev("stop", "", 0)>>
      BY <1>1, <1>2, <1>3, <3>1, <3>3, MessageDoneTracks
    <3> QED
      BY <2>1, <3>2, <3>3
  <2> QED
    BY <1>2, <2>1 DEF BlockIsOpen, BlockIn
<1> QED
  BY <1>6, <1>7, <1>8

(* A line that is read keeps the invariant.                                *)
LEMMA ReadLineKeeps ==
  ASSUME ConverterInv, ReadLine
  PROVE  ConverterInv'
<1>0. TypeOK /\ CallIsKnown /\ SaidIsMade /\ EndIsLast /\ BlockIsOpen
  BY DEF ConverterInv
<1>1. /\ ret = "none" /\ todo = <<>> /\ phase # "over"
      /\ \E l \in Lines(Speaks[handler]) : \E s, e, o : Spoken(l) /\ Turn(l, s, e, o) /\ Handles(s, e, o)
  BY ReadLineIs
<1>2. PICK l \in Lines(Speaks[handler]) : \E s, e, o : Spoken(l) /\ Turn(l, s, e, o) /\ Handles(s, e, o)
  BY <1>1
<1>3. PICK s, e, o : Spoken(l) /\ Turn(l, s, e, o) /\ Handles(s, e, o)
  BY <1>2
<1>4. LineFacts(Speaks[handler], l)
  BY LinesAreSuch
<1>5. s \in Locals /\ e \in Seq(Event) /\ Outcome(o)
  BY <1>0, <1>3, <1>4, TurnMakes
<1>6. /\ Made \in Seq(Event)
      /\ handler' = handler /\ gone' = gone /\ st' = s /\ ret' = o.ret
      /\ st' \in Locals /\ todo' \in Seq(Event) /\ out' \in Seq(Event)
      /\ ending' \in EndReason /\ ret' \in Result /\ billed' \in Usage
  BY <1>0, <1>1, <1>3, <1>5, HandlesMake
<1>7. /\ lines' \in Nat /\ phase' \in Phases /\ reason' \in Word /\ reported' \in Usage
      /\ said' \in Seq(Piece)
  BY <1>0, <1>3, <1>4, SpokenTyped DEF LineFacts
<1>8. TypeOK'
  BY <1>0, <1>6, <1>7 DEF TypeOK, EndReason, Result, Phases
<1>9. CallIsKnown'
  BY <1>0, <1>1, <1>3, <1>4, LineKeepsCalls
<1>10. SaidIsMade' /\ EndIsLast'
  <2>1. Adds(e \o o.emit)
    BY <1>0, <1>1, <1>3, <1>4, TurnAdds
  <2> QED
    BY <1>0, <1>6, <2>1, AddedIsMade
<1>11. BlockIsOpen'
  <2>1. ASSUME handler = "openai to claude"
        PROVE  BlockIn(Made').ok /\ (ret' = "none" => Tracks(BlockIn(Made'), st'))
    BY <1>0, <1>1, <1>3, <1>4, <2>1, ClaudeLine
  <2> QED
    BY <1>6, <2>1 DEF BlockIsOpen, BlockIn, Tracks
<1> QED
  BY <1>8, <1>9, <1>10, <1>11 DEF ConverterInv

(* So does one that is read after the client has left.                     *)
LEMMA ReadLineGoneKeeps ==
  ASSUME ConverterInv, ReadLineGone
  PROVE  ConverterInv'
<1>0. TypeOK /\ CallIsKnown /\ SaidIsMade /\ EndIsLast /\ BlockIsOpen
  BY DEF ConverterInv
<1> DEFINE o == OnGone(handler, st)
<1>1. ret = "none" /\ todo = <<>> /\ phase # "over" /\ Handles(st, <<>>, o)
      /\ lines' = lines /\ phase' = phase /\ said' = said /\ reason' = reason /\ reported' = reported
  BY DEF ReadLineGone, Idle, upstream
<1>2. st \in Locals /\ <<>> \in Seq(Event)
  <2>1. <<>> \in Seq(Event)
    BY NoEvents, Zenon
  <2> QED
    BY <1>0, <2>1 DEF TypeOK
<1>3. Outcome(o) /\ o.ret # "none"
  BY <1>2, GoneEnds
<1>4. handler = "openai to claude" => o.emit = <<>>
  BY DEF OnGone, Stop
<1>5. ~Closed
  BY <1>1 DEF Closed
<1> HIDE DEF o
<1>6. /\ Made \in Seq(Event) /\ handler' = handler /\ gone' = gone
      /\ st' \in Locals /\ todo' \in Seq(Event) /\ out' \in Seq(Event)
      /\ ending' \in EndReason /\ ret' \in Result /\ billed' \in Usage
  BY <1>0, <1>1, <1>2, <1>3, HandlesMake
<1>7. TypeOK'
  BY <1>0, <1>1, <1>6 DEF TypeOK, EndReason, Result
<1>8. Adds(o.emit) /\ CallIsKnown' /\ BlockIsOpen'
  BY <1>0, <1>1, <1>3, <1>4, <1>5, ReturnKeeps
<1>9. SaidIsMade' /\ EndIsLast'
  BY <1>0, <1>6, <1>8, AddedIsMade
<1> QED
  BY <1>7, <1>8, <1>9 DEF ConverterInv

(* The ways in which the connection ends.                                  *)
LEMMA EndsAre ==
  ASSUME NEW l \in Ends
  PROVE  l.t \in {"eof", "broken"} /\ l.reason \in Word /\ l.usage \in Usage
<1>1. l = Line("eof", "", NoUsage) \/ l = Line("broken", "", NoUsage)
  BY DEF Ends
<1>2. l.t \in {"eof", "broken"} /\ l.reason = "" /\ l.usage = NoUsage
  <2>1. \E t \in {"eof", "broken"} : l = Line(t, "", NoUsage)
    BY <1>1
  <2>2. PICK t \in {"eof", "broken"} : l = Line(t, "", NoUsage)
    BY <2>1
  <2> QED
    BY <2>2, LineIs, ZenonT(40)
<1> QED
  BY <1>2, EmptyWord, UsagesTyped

(* The end of the connection keeps the invariant.                          *)
LEMMA ReadEndKeeps ==
  ASSUME ConverterInv, ReadEnd
  PROVE  ConverterInv'
<1>0. TypeOK /\ CallIsKnown /\ SaidIsMade /\ EndIsLast /\ BlockIsOpen
  BY DEF ConverterInv
<1>1. PICK l \in Ends : /\ Spoken(l)
                        /\ Handles(st, <<>>, IF l.t = "eof" THEN OnEOF(handler, st) ELSE OnBroken(handler, st))
  BY DEF ReadEnd
<1>2. ret = "none" /\ todo = <<>>
  BY DEF ReadEnd, Idle
<1>3. l.t \in {"eof", "broken"} /\ l.reason \in Word /\ l.usage \in Usage
  BY EndsAre
<1>4. st \in Locals /\ <<>> \in Seq(Event) /\ handler \in AllHandlers
  <2>1. <<>> \in Seq(Event)
    BY NoEvents, Zenon
  <2> QED
    BY <1>0, <2>1, HandlerAssumption DEF TypeOK
<1> DEFINE o == IF l.t = "eof" THEN OnEOF(handler, st) ELSE OnBroken(handler, st)
<1>5. Outcome(o) /\ o.ret # "none"
  BY <1>3, <1>4, EOFEnds, BrokenEnds
<1>6. handler = "openai to claude" => o.emit = <<>> \/ o.emit = CloseBlock(st) \o <<Ev("stop", "", 0)>>
  <2>1. ASSUME handler = "openai to claude" PROVE OnEOF(handler, st).emit = CloseBlock(st) \o <<Ev("stop", "", 0)>>
    BY <2>1 DEF OnEOF, Stop
  <2>2. ASSUME handler = "openai to claude" PROVE OnBroken(handler, st).emit = <<>> \/ OnBroken(handler, st) = OnEOF(handler, st)
    BY <2>2 DEF OnBroken, Stop
  <2> QED
    BY <2>1, <2>2
<1>7. o.emit = <<>> \/ ~Closed
  <2>1. ASSUME Closed PROVE o.emit = <<>>
    <3>1. phase = "over" /\ (handler = "claude native" \/ (handler = "claude to openai" /\ ending # ""))
      BY <1>2, <2>1 DEF Closed
    <3> QED
      BY <1>3, <1>4, <3>1, EOFEnds, BrokenEnds
  <2> QED
    BY <2>1
<1>8. Handles(st, <<>>, o)
  BY <1>1
<1> HIDE DEF o
<1>9. /\ Made \in Seq(Event) /\ handler' = handler /\ gone' = gone
      /\ st' \in Locals /\ todo' \in Seq(Event) /\ out' \in Seq(Event)
      /\ ending' \in EndReason /\ ret' \in Result /\ billed' \in Usage
  BY <1>0, <1>2, <1>4, <1>5, <1>8, HandlesMake
<1>10. /\ lines' \in Nat /\ phase' \in Phases /\ reason' \in Word /\ reported' \in Usage
       /\ said' = (IF l.t \in CanSay(Speaks[handler]) /\ Keeps(handler, l.t) THEN Append(said, l.t) ELSE said)
       /\ said' \in Seq(Piece)
  BY <1>0, <1>1, <1>3, SpokenTyped
<1>11. said' = said
  <2>1. \A v : CanSay(v) \subseteq Piece
    BY DEF CanSay, Piece
  <2>2. l.t \notin Piece
    BY <1>3 DEF Piece
  <2> QED
    BY <1>10, <2>1, <2>2
<1>12. TypeOK'
  BY <1>0, <1>9, <1>10 DEF TypeOK, EndReason, Result, Phases
<1>13. Adds(o.emit) /\ CallIsKnown' /\ BlockIsOpen'
  BY <1>0, <1>2, <1>5, <1>6, <1>7, <1>8, <1>11, ReturnKeeps
<1>14. SaidIsMade' /\ EndIsLast'
  BY <1>0, <1>9, <1>13, AddedIsMade
<1> QED
  BY <1>12, <1>13, <1>14 DEF ConverterInv

(* An event that moves from what is to be written to what is written.       *)
LEMMA EventMoves ==
  ASSUME NEW s \in Seq(Event), NEW b \in Seq(Event), b # <<>>
  PROVE  /\ Head(b) \in Event /\ Tail(b) \in Seq(Event) /\ Append(s, Head(b)) \in Seq(Event)
         /\ Append(s, Head(b)) \o Tail(b) = s \o b
<1>1. Head(b) \in Event /\ Tail(b) \in Seq(Event) /\ Append(s, Head(b)) \in Seq(Event) /\ Len(b) >= 1
  OBVIOUS
<1> DEFINE p == Append(s, Head(b)) \o Tail(b)
           q == s \o b
<1>2. p \in Seq(Event) /\ q \in Seq(Event) /\ Len(p) = Len(s) + Len(b) /\ Len(q) = Len(s) + Len(b)
  BY <1>1
<1>3. ASSUME NEW i \in 1 .. Len(p) PROVE p[i] = q[i]
  <2>1. CASE i <= Len(s)
    BY <1>1, <2>1
  <2>2. CASE i = Len(s) + 1
    BY <1>1, <2>2
  <2>3. CASE i > Len(s) + 1
    BY <1>1, <1>2, <2>3
  <2> QED
    BY <2>1, <2>2, <2>3
<1> HIDE DEF p, q
<1>4. p = q
  BY <1>2, <1>3, SameSequence
<1> QED
  BY <1>1, <1>4 DEF p, q

(* Writing an event leaves what has been made as it is.                     *)
LEMMA WriteIs ==
  ASSUME TypeOK, Write
  PROVE  /\ out \in Seq(Event) /\ todo \in Seq(Event) /\ todo # <<>> /\ Made \in Seq(Event)
         /\ out' = Append(out, Head(todo)) /\ todo' = Tail(todo) /\ Head(todo) \in Event
         /\ out' \in Seq(Event) /\ todo' \in Seq(Event) /\ Made' = Made
         /\ handler' = handler /\ phase' = phase /\ said' = said /\ st' = st /\ ending' = ending /\ ret' = ret
<1>1. /\ out \in Seq(Event) /\ todo \in Seq(Event) /\ todo # <<>>
      /\ out' = Append(out, Head(todo)) /\ todo' = Tail(todo)
      /\ handler' = handler /\ phase' = phase /\ said' = said /\ st' = st /\ ending' = ending /\ ret' = ret
  BY DEF TypeOK, Write
<1>2. /\ Head(todo) \in Event /\ out' \in Seq(Event) /\ todo' \in Seq(Event)
      /\ Append(out, Head(todo)) \o Tail(todo) = out \o todo
  BY <1>1, EventMoves
<1>3. Made' = Made
  BY <1>1, <1>2 DEF Made
<1>4. Made \in Seq(Event)
  BY <1>1 DEF Made
<1> QED
  BY <1>1, <1>2, <1>3, <1>4

(* What the invariant tells beside the types is about these alone.          *)
LEMMA NothingMadeKeeps ==
  ASSUME CallIsKnown, SaidIsMade, EndIsLast, BlockIsOpen, Made' = Made,
         handler' = handler, phase' = phase, said' = said, st' = st, ending' = ending, ret' = ret
  PROVE  CallIsKnown' /\ SaidIsMade' /\ EndIsLast' /\ BlockIsOpen'
<1>1. CallIsKnown'
  BY DEF CallIsKnown
<1>2. SaidIsMade'
  BY DEF SaidIsMade
<1>3. Closed' = Closed
  BY DEF Closed
<1>4. EndIsLast'
  BY <1>3, ZenonT(40) DEF EndIsLast, IsDelta
<1>5. BlockIsOpen'
  BY DEF BlockIsOpen
<1> QED
  BY <1>1, <1>2, <1>4, <1>5

(* Writing an event keeps the invariant.                                   *)
LEMMA WriteKeeps ==
  ASSUME ConverterInv, Write
  PROVE  ConverterInv'
<1>0. TypeOK /\ CallIsKnown /\ SaidIsMade /\ EndIsLast /\ BlockIsOpen
  BY DEF ConverterInv
<1>1. /\ out' \in Seq(Event) /\ todo' \in Seq(Event) /\ Made' = Made
      /\ handler' = handler /\ phase' = phase /\ said' = said /\ st' = st /\ ending' = ending /\ ret' = ret
  BY <1>0, WriteIs
<1>2. TypeOK'
  BY <1>0, <1>1 DEF TypeOK, Write
<1>3. CallIsKnown' /\ SaidIsMade' /\ EndIsLast' /\ BlockIsOpen'
  BY <1>0, <1>1, NothingMadeKeeps
<1> QED
  BY <1>2, <1>3 DEF ConverterInv

(* A client that leaves keeps the invariant.                               *)
LEMMA ClientLeavesKeeps ==
  ASSUME ConverterInv, ClientLeaves
  PROVE  ConverterInv'
<1>0. TypeOK /\ CallIsKnown /\ SaidIsMade /\ EndIsLast /\ BlockIsOpen
  BY DEF ConverterInv
<1>1. /\ Made' = Made /\ handler' = handler /\ phase' = phase /\ said' = said /\ st' = st
      /\ ending' = ending /\ ret' = ret
  BY DEF ClientLeaves, Made
<1>2. TypeOK'
  BY <1>0 DEF TypeOK, ClientLeaves
<1>3. CallIsKnown' /\ SaidIsMade' /\ EndIsLast' /\ BlockIsOpen'
  BY <1>0, <1>1, NothingMadeKeeps
<1> QED
  BY <1>2, <1>3 DEF ConverterInv

(* A step of anybody else keeps the invariant.                             *)
LEMMA NothingKeeps ==
  ASSUME ConverterInv, UNCHANGED vars
  PROVE  ConverterInv'
<1>0. TypeOK /\ CallIsKnown /\ SaidIsMade /\ EndIsLast /\ BlockIsOpen
  BY DEF ConverterInv
<1>1. /\ Made' = Made /\ handler' = handler /\ phase' = phase /\ said' = said /\ st' = st
      /\ ending' = ending /\ ret' = ret
  BY DEF vars, Made
<1>2. TypeOK'
  BY <1>0 DEF TypeOK, vars
<1>3. CallIsKnown' /\ SaidIsMade' /\ EndIsLast' /\ BlockIsOpen'
  BY <1>0, <1>1, NothingMadeKeeps
<1> QED
  BY <1>2, <1>3 DEF ConverterInv

(* A handler starts with nothing made.                                      *)
LEMMA NothingMade ==
  ASSUME Init
  PROVE  ConverterInv
<1>1. <<>> \in Seq(Event) /\ <<>> \in Seq(Piece) /\ <<>> \in Seq(Nat)
  OBVIOUS
<1>2. Fresh \in Locals
  <2>1. "" \in Word
    BY EmptyWord
  <2> QED
    BY <1>1, <2>1, UsagesTyped DEF Fresh, Locals
<1>3. TypeOK
  BY <1>1, <1>2, UsagesTyped, EmptyWord DEF Init, TypeOK
<1>4. Made = <<>>
  BY <1>1, EmptyAdds DEF Init, Made
<1>5. CallIsKnown
  BY DEF Init, CallIsKnown, Fresh
<1>6. SaidIsMade
  BY <1>4, NothingHeard DEF Init, SaidIsMade, HeardIn
<1>7. EndIsLast
  BY <1>4 DEF EndIsLast
<1>8. BlockIsOpen
  <2>1. FoldLeft(Bracket, NoBlock, Made) = NoBlock
    BY <1>4, NothingHeard DEF BlockIn
  <2>2. NoBlock.ok = TRUE /\ NoBlock.open = "" /\ NoBlock.next = 0
    BY DEF NoBlock
  <2>3. st.block = "" /\ st.index = 0
    BY DEF Init, Fresh
  <2> QED
    BY <2>1, <2>2, <2>3 DEF BlockIsOpen
<1> QED
  BY <1>3, <1>5, <1>6, <1>7, <1>8 DEF ConverterInv

(* What holds of a handler after every step.                                *)
THEOREM ConverterInvariant == Spec => []ConverterInv
<1>1. Init => ConverterInv
  BY NothingMade
<1>2. ConverterInv /\ [Next]_vars => ConverterInv'
  BY ReadLineKeeps, ReadLineGoneKeeps, ReadEndKeeps, WriteKeeps, ClientLeavesKeeps, NothingKeeps DEF Next
<1> QED
  BY <1>1, <1>2, PTL DEF Spec

(* A client that has seen a block misplaced does not forget it.             *)
LEMMA MisplacedStays ==
  ASSUME NEW s \in Seq(Event), NEW b \in Seq(Event), BlockIn(s \o b).ok
  PROVE  BlockIn(s).ok
<1> DEFINE P(j) == j <= Len(b) => (BlockIn(s \o SubSeq(b, 1, j)).ok => BlockIn(s).ok)
           T == {j \in Nat : P(j)}
<1>1. 0 \in T
  BY OneByOne
<1>2. ASSUME NEW j \in T PROVE j + 1 \in T
  <2>1. j \in Nat /\ P(j)
    OBVIOUS
  <2>2. CASE j + 1 <= Len(b)
    <3>1. j < Len(b) /\ j \in 0 .. Len(b) /\ j + 1 \in DOMAIN b /\ j <= Len(b)
      BY <2>1, <2>2
    <3>2. /\ s \o SubSeq(b, 1, j + 1) = Append(s \o SubSeq(b, 1, j), b[j + 1])
          /\ b[j + 1] \in Event /\ s \o SubSeq(b, 1, j) \in Seq(Event)
      BY <2>1, <3>1, OneByOne
    <3> DEFINE x == BlockIn(s \o SubSeq(b, 1, j))
               e == b[j + 1]
    <3>3. BlockIn(s \o SubSeq(b, 1, j + 1)) = Bracket(x, e) /\ x \in Block /\ e \in Event
      BY <3>2, BlockAppends
    <3>4. Bracket(x, e).ok => x.ok
      <4> HIDE DEF x, e
      <4> QED
        BY <3>3 DEF Bracket, Block
    <3> QED
      BY <2>1, <3>1, <3>3, <3>4
  <2> QED
    BY <2>1, <2>2
<1>3. T = Nat
  <2>1. T \in SUBSET Nat
    OBVIOUS
  <2> HIDE DEF T
  <2> QED
    BY <1>1, <1>2, <2>1, AllNaturals
<1>4. P(Len(b))
  <2>1. Len(b) \in Nat
    OBVIOUS
  <2> QED
    BY <1>3, <2>1
<1>5. Len(b) <= Len(b) /\ s \o SubSeq(b, 1, Len(b)) = s \o b
  BY OneByOne
<1> QED
  BY <1>4, <1>5

(* The types of the handlers' variables.                                    *)
THEOREM ConverterTypes == Spec => []TypeOK
<1>1. ConverterInv => TypeOK
  BY DEF ConverterInv
<1> QED
  BY <1>1, ConverterInvariant, PTL

(* What a Claude client has been sent by handleClaudeInboundStream is       *)
(* bracketed after every event, whatever the upstream sent.                 *)
THEOREM BlocksBracketed == Spec => []BlocksAreBracketed
<1>1. ConverterInv => BlocksAreBracketed
  <2> SUFFICES ASSUME ConverterInv, handler = "openai to claude" PROVE BlockIn(out).ok
    BY DEF BlocksAreBracketed, BlockIn
  <2>1. out \in Seq(Event) /\ todo \in Seq(Event)
    BY DEF ConverterInv, TypeOK
  <2>2. BlockIn(out \o todo).ok
    BY DEF ConverterInv, BlockIsOpen, BlockIn, Made
  <2> QED
    BY <2>1, <2>2, MisplacedStays
<1> QED
  BY <1>1, ConverterInvariant, PTL

(* The client is told once that the answer is over.                         *)
StopsIn(s) == {n \in DOMAIN s : s[n].e = "stop"}

(* One more event to the ends.                                             *)
LEMMA StopsAppend ==
  ASSUME NEW s \in Seq(Event), NEW e \in Event
  PROVE  StopsIn(Append(s, e)) = IF e.e = "stop" THEN StopsIn(s) \cup {Len(s) + 1} ELSE StopsIn(s)
<1> DEFINE r == Append(s, e)
<1>1. /\ DOMAIN r = 1 .. Len(s) + 1 /\ DOMAIN s = 1 .. Len(s) /\ Len(s) \in Nat
      /\ r[Len(s) + 1] = e /\ \A i \in 1 .. Len(s) : r[i] = s[i]
  OBVIOUS
<1> HIDE DEF r
<1>2. \A i \in DOMAIN r : i \in DOMAIN s \/ i = Len(s) + 1
  BY <1>1
<1>3. DOMAIN s \subseteq DOMAIN r /\ Len(s) + 1 \in DOMAIN r
  BY <1>1
<1>4. \A n : n \in StopsIn(r) <=> n \in StopsIn(s) \/ (n = Len(s) + 1 /\ e.e = "stop")
  BY <1>1, <1>2, <1>3 DEF StopsIn
<1> QED
  BY <1>4 DEF r

(* The events still to be written follow those that are.                    *)
LEMMA NextIsMade ==
  ASSUME NEW s \in Seq(Event), NEW b \in Seq(Event), b # <<>>
  PROVE  /\ Len(s) + 1 \in DOMAIN (s \o b) /\ (s \o b)[Len(s) + 1] = Head(b)
         /\ \A n \in DOMAIN s : n \in DOMAIN (s \o b) /\ n < Len(s) + 1 /\ (s \o b)[n] = s[n]
         /\ \A n \in DOMAIN Tail(b) : /\ Len(s) + 1 + n \in DOMAIN (s \o b) /\ Len(s) + 1 + n > Len(s) + 1
                                      /\ (s \o b)[Len(s) + 1 + n] = Tail(b)[n]
OBVIOUS

(* A write of an event of each sort.                                        *)
LEMMA StopIsWritten ==
  ASSUME ConverterInv, Write, Head(todo).e = "stop"
  PROVE  Client!Close
<1>0. TypeOK /\ SaidIsMade /\ EndIsLast
  BY DEF ConverterInv
<1>1. /\ out \in Seq(Event) /\ todo \in Seq(Event) /\ todo # <<>> /\ Made \in Seq(Event)
      /\ out' = Append(out, Head(todo)) /\ todo' = Tail(todo) /\ Head(todo) \in Event
      /\ out' \in Seq(Event) /\ todo' \in Seq(Event) /\ Made' = Made /\ said' = said
  BY <1>0, WriteIs
<1> DEFINE p == Len(out) + 1
<1>2. /\ p \in DOMAIN Made /\ Made[p] = Head(todo)
      /\ \A n \in DOMAIN out : n \in DOMAIN Made /\ n < p /\ Made[n] = out[n]
      /\ \A n \in DOMAIN todo' : p + n \in DOMAIN Made /\ p + n > p /\ Made[p + n] = todo'[n]
  BY <1>1, NextIsMade DEF Made
<1>3. ~IsDelta(Head(todo))
  BY DEF IsDelta
<1>4. StopsIn(out) = {}
  <2>1. \A n \in DOMAIN out : out[n].e # "stop"
    BY <1>0, <1>2 DEF EndIsLast
  <2> QED
    BY <2>1 DEF StopsIn
<1>5. StopsIn(out') = {p}
  BY <1>1, <1>4, StopsAppend
<1>6. Quiet(todo')
  BY <1>0, <1>2 DEF EndIsLast, Quiet
<1>7. HeardIn(out') = HeardIn(out)
  BY <1>1, <1>3, HeardAppends DEF Hearing
<1>8. HeardIn(out') = said
  <2>1. HeardIn(out' \o todo') = said
    BY <1>0, <1>1 DEF SaidIsMade, HeardIn, Made
  <2> QED
    BY <1>1, <1>6, <2>1, QuietIsNotHeard
<1>9. Over = 0 /\ Over' = 1
  <2>1. Cardinality({}) = 0
    BY FS_EmptySet
  <2>2. Cardinality({p}) = 1
    BY FS_Singleton
  <2> QED
    BY <1>4, <1>5, <2>1, <2>2 DEF Over, StopsIn
<1>10. Heard = said /\ Heard' = Heard
  BY <1>7, <1>8 DEF Heard, HeardIn
<1> QED
  BY <1>1, <1>9, <1>10 DEF Client!Close

(* A piece that is written is the next one the upstream has said.          *)
LEMMA DeltaIsWritten ==
  ASSUME ConverterInv, Write, IsDelta(Head(todo))
  PROVE  Client!Hear
<1>0. TypeOK /\ SaidIsMade /\ EndIsLast
  BY DEF ConverterInv
<1>1. /\ out \in Seq(Event) /\ todo \in Seq(Event) /\ todo # <<>> /\ Made \in Seq(Event)
      /\ out' = Append(out, Head(todo)) /\ todo' = Tail(todo) /\ Head(todo) \in Event
      /\ out' \in Seq(Event) /\ todo' \in Seq(Event) /\ Made' = Made /\ said' = said
  BY <1>0, WriteIs
<1> DEFINE p == Len(out) + 1
           k == Head(todo).k
<1>2. /\ p \in DOMAIN Made /\ Made[p] = Head(todo)
      /\ \A n \in DOMAIN out : n \in DOMAIN Made /\ n < p /\ Made[n] = out[n]
  BY <1>1, NextIsMade DEF Made
<1>3. Head(todo).e # "stop"
  BY DEF IsDelta
<1>4. StopsIn(out) = {}
  <2>1. \A n \in DOMAIN out : out[n].e # "stop"
    BY <1>0, <1>2 DEF EndIsLast
  <2> QED
    BY <2>1 DEF StopsIn
<1>5. StopsIn(out') = {}
  BY <1>1, <1>3, <1>4, StopsAppend
<1>6. HeardIn(out) \in Seq(Word) /\ HeardIn(out') = Append(HeardIn(out), k)
  BY <1>1, HeardAppends DEF Hearing
<1>7. /\ HeardIn(out') \in Seq(Word) /\ said \in Seq(Word) /\ Len(HeardIn(out')) <= Len(said)
      /\ \A i \in 1 .. Len(HeardIn(out')) : said[i] = HeardIn(out')[i]
  <2>1. HeardIn(out' \o todo') = said
    BY <1>0, <1>1 DEF SaidIsMade, HeardIn, Made
  <2> QED
    BY <1>1, <2>1, HeardStays
<1>8. Len(HeardIn(out)) < Len(said) /\ said[Len(HeardIn(out)) + 1] = k
  <2>1. k \in Word
    BY <1>1 DEF Event
  <2> DEFINE h == HeardIn(out)
  <2>2. Len(Append(h, k)) = Len(h) + 1 /\ Append(h, k)[Len(h) + 1] = k /\ Len(h) \in Nat
    BY <1>6, <2>1
  <2> HIDE DEF h, k
  <2>3. Len(h) + 1 \in 1 .. Len(h) + 1
    BY <2>2
  <2> QED
    BY <1>6, <1>7, <2>2, <2>3 DEF h
<1>9. Over = 0 /\ Over' = Over
  <2>1. Cardinality({}) = 0
    BY FS_EmptySet
  <2> QED
    BY <1>4, <1>5, <2>1 DEF Over, StopsIn
<1>10. Heard = HeardIn(out) /\ Heard' = HeardIn(out')
  BY DEF Heard, HeardIn
<1> QED
  BY <1>1, <1>6, <1>8, <1>9, <1>10 DEF Client!Hear

(* Other events are not heard.                                             *)
LEMMA OtherIsWritten ==
  ASSUME ConverterInv, Write, ~IsDelta(Head(todo)), Head(todo).e # "stop"
  PROVE  said' = said /\ Heard' = Heard /\ Over' = Over
<1>0. TypeOK
  BY DEF ConverterInv
<1>1. /\ out \in Seq(Event) /\ out' = Append(out, Head(todo)) /\ Head(todo) \in Event /\ said' = said
  BY <1>0, WriteIs
<1>2. HeardIn(out') = HeardIn(out)
  BY <1>1, HeardAppends DEF Hearing
<1>3. StopsIn(out') = StopsIn(out)
  BY <1>1, StopsAppend
<1> QED
  BY <1>1, <1>2, <1>3 DEF Heard, HeardIn, Over, StopsIn

(* What the upstream says is added to the pieces; the client hears nothing. *)
LEMMA LineIsSaid ==
  ASSUME NEW l, Spoken(l), out' = out
  PROVE  [Client!Next]_(Client!vars)
<1>1. Heard' = Heard /\ Over' = Over
  BY DEF Heard, Over
<1>2. CASE said' = said
  BY <1>1, <1>2 DEF Client!vars
<1>3. CASE l.t \in CanSay(Speaks[handler]) /\ said' = Append(said, l.t)
  <2>1. \A v : CanSay(v) \subseteq Piece
    BY DEF CanSay, Piece
  <2>2. l.t \in Piece
    BY <1>3, <2>1
  <2> QED
    BY <1>1, <1>3, <2>2 DEF Client!Next, Client!Say
<1> QED
  BY <1>2, <1>3 DEF Spoken

(* Every handler delivers: what relay/channel translates reaches the client *)
(* as Delivery promises.                                                    *)
THEOREM ConvertersDeliver == Spec => ImplementsDelivery
<1>1. Init => Client!Init
  <2> SUFFICES ASSUME Init PROVE Client!Init
    OBVIOUS
  <2>1. out = <<>> /\ said = <<>>
    BY DEF Init
  <2>2. Heard = <<>>
    BY <2>1, NothingHeard DEF Heard, HeardIn
  <2>3. {n \in DOMAIN out : out[n].e = "stop"} = {}
    BY <2>1
  <2>4. Over = 0
    BY <2>3, FS_EmptySet DEF Over
  <2> QED
    BY <2>1, <2>2, <2>4 DEF Client!Init
<1>2. ConverterInv /\ [Next]_vars => [Client!Next]_(Client!vars)
  <2> SUFFICES ASSUME ConverterInv, [Next]_vars PROVE [Client!Next]_(Client!vars)
    OBVIOUS
  <2>1. CASE ReadLine
    <3>1. \E l : Spoken(l)
      BY <2>1, ReadLineIs DEF ConverterInv
    <3>2. out' = out
      BY <2>1 DEF ReadLine, Handles
    <3> QED
      BY <3>1, <3>2, LineIsSaid
  <2>2. CASE ReadEnd
    <3>1. \E l : Spoken(l)
      BY <2>2 DEF ReadEnd
    <3>2. out' = out
      BY <2>2 DEF ReadEnd, Handles
    <3> QED
      BY <3>1, <3>2, LineIsSaid
  <2>3. CASE Write
    <3>1. CASE Head(todo).e = "stop"
      BY <2>3, <3>1, StopIsWritten DEF Client!Next
    <3>2. CASE IsDelta(Head(todo))
      BY <2>3, <3>2, DeltaIsWritten DEF Client!Next
    <3>3. CASE ~IsDelta(Head(todo)) /\ Head(todo).e # "stop"
      BY <2>3, <3>3, OtherIsWritten DEF Client!vars
    <3> QED
      BY <3>1, <3>2, <3>3
  <2>4. CASE ReadLineGone \/ ClientLeaves \/ UNCHANGED vars
    <3>1. said' = said /\ out' = out
      BY <2>4 DEF ReadLineGone, upstream, Handles, ClientLeaves, vars
    <3> QED
      BY <3>1 DEF Heard, Over, Client!vars
  <2> QED
    BY <2>1, <2>2, <2>3, <2>4 DEF Next
<1> QED
  BY <1>1, <1>2, ConverterInvariant, PTL DEF Spec, ImplementsDelivery, Client!Spec

-----------------------------------------------------------------------------
(* What a line's usage and reason are, and when it comes.                   *)
UsageFacts(v, l) ==
    /\ l.t \notin {"open", "finish", "usage", "done"} => l.usage = NoUsage
    /\ l.t = "open" => lines = 0 /\ l.usage.completion = 0 /\ (v # "claude" => l.usage = NoUsage)
    /\ l.t = "finish" =>
          /\ phase = "talking" /\ l.reason \in Reasons(v)
          /\ v = "claude" => l.usage.prompt = 0 /\ l.usage.completion > 0
          /\ v \in {"gemini", "responses"} => l.usage.prompt > 0 /\ l.usage.completion > 0
          /\ v \notin {"claude", "gemini", "responses"} => l.usage = NoUsage
          /\ v \notin {"ollama", "dify"}
    /\ l.t = "error" => v # "openai"
    /\ l.t = "usage" => v = "openai" /\ l.usage.prompt > 0 /\ l.usage.completion > 0 /\ phase = "finished"
    /\ l.t = "done" => IF v \in {"ollama", "dify"} THEN l.usage.prompt > 0 /\ l.usage.completion > 0 ELSE l.usage = NoUsage
    /\ l.t \in Piece \cup {"fragment"} => phase = "talking"

(* The fields of a usage record.                                           *)
LEMMA UsageFields ==
  /\ \A x, y, z : LET u == [prompt |-> x, completion |-> y, cached |-> z]
                  IN  u.prompt = x /\ u.completion = y /\ u.cached = z
  /\ NoUsage.prompt = 0 /\ NoUsage.completion = 0 /\ NoUsage.cached = 0
BY DEF NoUsage

(* A line an upstream sends is one of five sorts.                           *)
LEMMA LinesAreMade ==
  ASSUME NEW v, NEW l \in Lines(v)
  PROVE  /\ \/ l.usage = NoUsage /\ l.t \in CanSay(v) \cup {"junk", "fragment", "other", "error"}
            \/ l.t = "open" /\ l.usage = OpenUsage(v)
            \/ l.t = "done" /\ l.usage = DoneUsage(v)
            \/ l.reason \in Reasons(v) /\ l.t = "finish" /\ l.usage = FinishUsage(v)
            \/ l.t = "usage" /\ \E c \in {0, 1} : l.usage = [prompt |-> 2, completion |-> 3, cached |-> c]
         /\ MayCome(v, l)
<1> DEFINE Fits(t, r, u) ==
               \/ u = NoUsage /\ t \in CanSay(v) \cup {"junk", "fragment", "other", "error"}
               \/ t = "open" /\ u = OpenUsage(v)
               \/ t = "done" /\ u = DoneUsage(v)
               \/ r \in Reasons(v) /\ t = "finish" /\ u = FinishUsage(v)
               \/ t = "usage" /\ \E c \in {0, 1} : u = [prompt |-> 2, completion |-> 3, cached |-> c]
<1>1. \E t, r, u : l = Line(t, r, u) /\ Fits(t, r, u)
  <2>1. \/ l \in {Line(t, "", NoUsage) : t \in CanSay(v) \cup {"junk", "fragment", "other", "error"}}
        \/ l \in {Line("open", "", OpenUsage(v)), Line("done", "", DoneUsage(v))}
        \/ l \in {Line("finish", r, FinishUsage(v)) : r \in Reasons(v)}
        \/ l \in {Line("usage", "", [prompt |-> 2, completion |-> 3, cached |-> c]) : c \in {0, 1}}
    BY Zenon DEF Lines, LinesOf
  <2>2. CASE l \in {Line(t, "", NoUsage) : t \in CanSay(v) \cup {"junk", "fragment", "other", "error"}}
    BY <2>2, Zenon
  <2>3. CASE l \in {Line("open", "", OpenUsage(v)), Line("done", "", DoneUsage(v))}
    BY <2>3, Zenon
  <2>4. CASE l \in {Line("finish", r, FinishUsage(v)) : r \in Reasons(v)}
    BY <2>4, Zenon
  <2>5. CASE l \in {Line("usage", "", [prompt |-> 2, completion |-> 3, cached |-> c]) : c \in {0, 1}}
    BY <2>5, Zenon
  <2> QED
    BY <2>1, <2>2, <2>3, <2>4, <2>5
<1>2. PICK t, r, u : l = Line(t, r, u) /\ Fits(t, r, u)
  BY <1>1
<1>3. l.t = t /\ l.reason = r /\ l.usage = u
  BY <1>2, LineIs
<1>4. Fits(l.t, l.reason, l.usage)
  BY <1>2, <1>3
<1>5. MayCome(v, l)
  BY DEF Lines
<1> QED
  BY <1>4, <1>5

(* What the rules of a protocol say about when a line comes.                *)
LEMMA LinesHaveTheirTime ==
  ASSUME NEW v, NEW l, MayCome(v, l)
  PROVE  /\ l.t \in {"text", "think", "call", "args", "fragment", "finish"} => phase = "talking"
         /\ l.t = "open" => lines = 0
         /\ l.t = "usage" => v = "openai" /\ phase = "finished"
         /\ l.t = "finish" => v \notin {"ollama", "dify"}
         /\ l.t = "error" => v # "openai"
BY DEF MayCome

(* The usages that come with a line.                                       *)
LEMMA UsagesOfLines ==
  ASSUME NEW v
  PROVE  /\ OpenUsage(v).completion = 0 /\ (v # "claude" => OpenUsage(v) = NoUsage)
         /\ v = "claude" => FinishUsage(v).prompt = 0 /\ FinishUsage(v).completion > 0
         /\ v \in {"gemini", "responses"} => FinishUsage(v).prompt > 0 /\ FinishUsage(v).completion > 0
         /\ v \notin {"claude", "gemini", "responses"} => FinishUsage(v) = NoUsage
         /\ IF v \in {"ollama", "dify"} THEN DoneUsage(v).prompt > 0 /\ DoneUsage(v).completion > 0
            ELSE DoneUsage(v) = NoUsage
<1>1. OpenUsage(v).completion = 0 /\ (v # "claude" => OpenUsage(v) = NoUsage)
  BY UsageFields DEF OpenUsage
<1>2. v = "claude" => FinishUsage(v).prompt = 0 /\ FinishUsage(v).completion > 0
  BY DEF FinishUsage
<1>3. v \in {"gemini", "responses"} => FinishUsage(v).prompt > 0 /\ FinishUsage(v).completion > 0
  BY DEF FinishUsage
<1>4. v \notin {"claude", "gemini", "responses"} => FinishUsage(v) = NoUsage
  BY DEF FinishUsage
<1>5. IF v \in {"ollama", "dify"} THEN DoneUsage(v).prompt > 0 /\ DoneUsage(v).completion > 0
      ELSE DoneUsage(v) = NoUsage
  BY DEF DoneUsage
<1> QED
  BY <1>1, <1>2, <1>3, <1>4, <1>5

(* What a handler may rely on in what a line reports.                      *)
LEMMA LinesReport ==
  ASSUME NEW v, NEW l \in Lines(v)
  PROVE  UsageFacts(v, l)
<1>0. CanSay(v) \subseteq Piece /\ Piece = {"text", "think", "call", "args"}
  BY DEF CanSay, Piece
<1>1. /\ l.t \in {"text", "think", "call", "args", "fragment", "finish"} => phase = "talking"
      /\ l.t = "open" => lines = 0
      /\ l.t = "usage" => v = "openai" /\ phase = "finished"
      /\ l.t = "finish" => v \notin {"ollama", "dify"}
      /\ l.t = "error" => v # "openai"
  BY LinesAreMade, LinesHaveTheirTime
<1>2. CASE l.usage = NoUsage /\ l.t \in CanSay(v) \cup {"junk", "fragment", "other", "error"}
  BY <1>0, <1>1, <1>2 DEF UsageFacts
<1>3. CASE l.t = "open" /\ l.usage = OpenUsage(v)
  BY <1>0, <1>1, <1>3, UsagesOfLines DEF UsageFacts
<1>4. CASE l.t = "done" /\ l.usage = DoneUsage(v)
  BY <1>0, <1>1, <1>4, UsagesOfLines DEF UsageFacts
<1>5. CASE l.reason \in Reasons(v) /\ l.t = "finish" /\ l.usage = FinishUsage(v)
  BY <1>0, <1>1, <1>5, UsagesOfLines DEF UsageFacts
<1>6. CASE l.t = "usage" /\ \E c \in {0, 1} : l.usage = [prompt |-> 2, completion |-> 3, cached |-> c]
  BY <1>0, <1>1, <1>6 DEF UsageFacts
<1> QED
  BY <1>2, <1>3, <1>4, <1>5, <1>6, LinesAreMade

(* What a sequence of events says of the end.                              *)
LEMMA Saying ==
  /\ \A W : Says(<<>>, W)
  /\ \A e, k, i, W : e \notin {"finish", "message delta"} \/ k \in W => Says(<<Ev(e, k, i)>>, W)
  /\ \A a, b, W : Says(<<a>>, W) /\ Says(<<b>>, W) => Says(<<a, b>>, W)
  /\ \A b, V, W : Says(b, V) /\ V \subseteq W => Says(b, W)
<1>1. ASSUME NEW W PROVE Says(<<>>, W)
  <2>1. \A n : n \notin DOMAIN <<>>
    OBVIOUS
  <2> QED
    BY <2>1 DEF Says
<1>2. ASSUME NEW e, NEW k, NEW i, NEW W, e \notin {"finish", "message delta"} \/ k \in W
      PROVE  Says(<<Ev(e, k, i)>>, W)
  <2> DEFINE x == Ev(e, k, i)
  <2>1. x.e = e /\ x.k = k
    BY EventParts
  <2> HIDE DEF x
  <2>2. DOMAIN <<x>> = {1} /\ <<x>>[1] = x
    OBVIOUS
  <2>3. Says(<<x>>, W)
    BY <1>2, <2>1, <2>2 DEF Says
  <2> QED
    BY <2>3 DEF x
<1>3. ASSUME NEW a, NEW b, NEW W, Says(<<a>>, W), Says(<<b>>, W) PROVE Says(<<a, b>>, W)
  <2>1. <<a>>[1] = a /\ 1 \in DOMAIN <<a>> /\ <<b>>[1] = b /\ 1 \in DOMAIN <<b>>
    OBVIOUS
  <2>2. (a.e \in {"finish", "message delta"} => a.k \in W) /\ (b.e \in {"finish", "message delta"} => b.k \in W)
    BY <1>3, <2>1 DEF Says
  <2>3. DOMAIN <<a, b>> = {1, 2} /\ <<a, b>>[1] = a /\ <<a, b>>[2] = b
    OBVIOUS
  <2> QED
    BY <2>2, <2>3 DEF Says
<1>4. \A b, V, W : Says(b, V) /\ V \subseteq W => Says(b, W)
  BY DEF Says
<1> QED
  BY <1>1, <1>2, <1>3, <1>4

(* What one event says of the end.                                         *)
LEMMA Uttering ==
  ASSUME NEW W
  PROVE  /\ Says(<<>>, W)
         /\ \A k, i : Says(<<Ev("delta", k, i)>>, W)
         /\ Says(<<Ev("stop", "", 0)>>, W) /\ Says(<<Ev("start", "", 0)>>, W) /\ Says(<<Ev("empty", "", 0)>>, W)
         /\ \A k, i : /\ Says(<<Ev("block start", k, i)>>, W) /\ Says(<<Ev("block stop", k, i)>>, W)
                      /\ Says(<<Ev("nameless call", k, i)>>, W)
         /\ \A t, k, i : t \notin {"finish", "message delta"} => Says(<<Ev(t, k, i)>>, W)
         /\ \A k \in W : Says(<<Ev("finish", k, 0)>>, W) /\ Says(<<Ev("message delta", k, 0)>>, W)
<1>1. \A e, k, i : e \notin {"finish", "message delta"} \/ k \in W => Says(<<Ev(e, k, i)>>, W)
  BY Saying, Zenon
<1>2. \A e \in {"delta", "stop", "start", "empty", "block start", "block stop", "nameless call"} :
        e \notin {"finish", "message delta"}
  OBVIOUS
<1>3. \A e \in {"delta", "stop", "start", "empty", "block start", "block stop", "nameless call"} :
        \A k, i : Says(<<Ev(e, k, i)>>, W)
  BY <1>1, <1>2, Zenon
<1>4. \A k, i : Says(<<Ev("delta", k, i)>>, W)
  BY <1>3, Zenon
<1>5. Says(<<Ev("stop", "", 0)>>, W) /\ Says(<<Ev("start", "", 0)>>, W) /\ Says(<<Ev("empty", "", 0)>>, W)
  BY <1>3, Zenon
<1>6. \A k, i : /\ Says(<<Ev("block start", k, i)>>, W) /\ Says(<<Ev("block stop", k, i)>>, W)
               /\ Says(<<Ev("nameless call", k, i)>>, W)
  BY <1>3, Zenon
<1>7. \A t, k, i : t \notin {"finish", "message delta"} => Says(<<Ev(t, k, i)>>, W)
  BY <1>1, Zenon
<1>8. \A k \in W : Says(<<Ev("finish", k, 0)>>, W) /\ Says(<<Ev("message delta", k, 0)>>, W)
  BY <1>1, Zenon
<1>9. Says(<<>>, W)
  BY Saying, Zenon
<1> QED
  BY <1>4, <1>5, <1>6, <1>7, <1>8, <1>9, Zenon

(* Two events say what each of them says.                                  *)
LEMMA UtteringTwo ==
  ASSUME NEW a, NEW b, NEW W, Says(<<a>>, W), Says(<<b>>, W)
  PROVE  Says(<<a, b>>, W)
BY Saying, Zenon

(* Together two sequences say what each of them says.                      *)
LEMMA SayingMore ==
  ASSUME NEW a \in Seq(Event), NEW b \in Seq(Event), NEW W, Says(a, W), Says(b, W)
  PROVE  Says(a \o b, W)
<1>1. \A n \in DOMAIN (a \o b) : \/ n \in DOMAIN a /\ (a \o b)[n] = a[n]
                                 \/ n - Len(a) \in DOMAIN b /\ (a \o b)[n] = b[n - Len(a)]
  OBVIOUS
<1> QED
  BY <1>1 DEF Says

(* What a line does to the usage, the reason and the parts a handler keeps, *)
(* and what the client is told of the end.                                  *)
UsageRead(s, l, r) ==
    \/ l.usage = NoUsage /\ r.s.usage = s.usage
    \/ l.usage.prompt > 0 /\ l.usage.completion > 0 /\ r.s.usage \in {l.usage, [l.usage EXCEPT !.cached = 0]}
    \/ l.t = "open" /\ r.s.usage = l.usage
    \/ l.t = "finish" /\ l.usage.completion > 0 /\ r.s.usage = ClaudeUsage(s.usage, l)
    \/ l.t = "finish" /\ l.reason = "incomplete"
ReasonRead(h, s, l, r) ==
    /\ h \in {"openai to claude", "openai to gemini"} =>
          r.s.finish = IF l.t = "finish" THEN l.reason ELSE s.finish
    /\ h = "claude to openai" =>
          r.s.finish = IF l.t = "finish" THEN ClaudeStopReasonToOpenAI(l.reason) ELSE s.finish
    /\ h = "gemini to openai" =>
          r.s.finish = IF l.t = "finish" THEN GeminiFinishReasonToOpenAI(l.reason) ELSE s.finish
    /\ h = "responses to openai" =>
          r.s.finish = IF l.t = "finish" /\ l.reason = "completed" THEN "sent" ELSE s.finish
PartsRead(h, s, l, r) ==
    h = "responses to openai" => /\ r.s.callAt # <<>> <=> s.callAt # <<>> \/ l.t = "call"
                                 /\ r.s.text <=> s.text \/ l.t = "text"
DoneWords(h, s) ==
    CASE h = "claude to openai" -> {Stopped(s.finish)}
      [] h \in {"ollama", "dify"} -> {"stop"}
      [] OTHER -> {}
SaysRead(h, s, l, r) ==
    h # "openai to responses" =>
        /\ l.t \notin {"finish", "done"} => Says(r.emit, {})
        /\ l.t = "finish" => Says(r.emit, MaySay(h, l.reason, r.s))
        /\ l.t = "done" => Says(r.emit, DoneWords(h, s))
Reads(h, s, l, r) == UsageRead(s, l, r) /\ ReasonRead(h, s, l, r) /\ PartsRead(h, s, l, r) /\ SaysRead(h, s, l, r)

(* Ollama's lines.                                                         *)
LEMMA OllamaReads ==
  ASSUME NEW s \in Locals, NEW l, UsageFacts("ollama", l), NEW r, r = Ollama(s, l)
  PROVE  Reads("ollama", s, l, r)
<1>1. /\ l.t = "text" => r.emit = <<Ev("delta", "text", 0)>> /\ r.s = s
      /\ l.t = "done" => r.emit = <<Ev("finish", "stop", 0)>> /\ r.s.usage = l.usage
      /\ l.t \notin {"text", "done"} => r.emit = <<>> /\ r.s = s
  <2>1. s.usage \in Usage /\ "usage" \in DOMAIN s
    BY DEF Locals
  <2> QED
    BY <2>1 DEF Ollama
<1>2. l.t # "done" => l.usage = NoUsage
  BY DEF UsageFacts
<1>3. l.t = "done" => l.usage.prompt > 0 /\ l.usage.completion > 0
  BY DEF UsageFacts
<1>4. UsageRead(s, l, r)
  BY <1>1, <1>2, <1>3 DEF UsageRead
<1>5. \A W : l.t # "done" => Says(r.emit, W)
  BY <1>1, Uttering
<1>6. l.t = "done" => Says(r.emit, {"stop"})
  BY <1>1, Uttering
<1>7. SaysRead("ollama", s, l, r)
  BY <1>5, <1>6 DEF SaysRead, DoneWords
<1> QED
  BY <1>4, <1>7 DEF Reads, ReasonRead, PartsRead

(* Coze's lines.                                                           *)
LEMMA CozeReads ==
  ASSUME NEW s \in Locals, NEW l, UsageFacts("coze", l), NEW r, r = Coze(s, l)
  PROVE  Reads("coze", s, l, r)
<1>1. /\ l.t = "text" => r.emit = <<Ev("delta", "text", 0)>>
      /\ l.t = "finish" => r.emit = <<Ev("finish", "stop", 0)>>
      /\ l.t = "done" => r.emit = <<Ev("stop", "", 0)>>
      /\ l.t \notin {"text", "finish", "done"} => r.emit = <<>>
      /\ r.s = s
  BY DEF Coze
<1>2. l.t \notin {"open", "usage"} => l.usage = NoUsage
  BY DEF UsageFacts
<1>3. l.t \notin {"usage"} /\ (l.t = "open" => l.usage = NoUsage)
  BY DEF UsageFacts
<1>4. UsageRead(s, l, r)
  BY <1>1, <1>2, <1>3 DEF UsageRead
<1>5. \A W : l.t # "finish" => Says(r.emit, W)
  BY <1>1, Uttering
<1>6. l.t = "finish" => Says(r.emit, {"stop"})
  BY <1>1, Uttering
<1>7. MaySay("coze", l.reason, r.s) = {"stop"}
  BY DEF MaySay
<1>8. SaysRead("coze", s, l, r)
  BY <1>5, <1>6, <1>7 DEF SaysRead
<1> QED
  BY <1>4, <1>8 DEF Reads, ReasonRead, PartsRead

(* Dify's lines.                                                           *)
LEMMA DifyReads ==
  ASSUME NEW s \in Locals, NEW l, UsageFacts("dify", l), NEW r, r = Dify(s, l)
  PROVE  Reads("dify", s, l, r)
<1>1. /\ l.t = "text" => r.emit = <<Ev("delta", "text", 0)>> /\ r.s = s
      /\ l.t = "done" => r.emit = <<Ev("finish", "stop", 0), Ev("stop", "", 0)>> /\ r.s.usage = l.usage
      /\ l.t \notin {"text", "done"} => r.emit = <<>> /\ r.s = s
  <2>1. s.usage \in Usage /\ "usage" \in DOMAIN s
    BY DEF Locals
  <2> QED
    BY <2>1 DEF Dify
<1>2. l.t # "done" => l.usage = NoUsage
  BY DEF UsageFacts
<1>3. l.t = "done" => l.usage.prompt > 0 /\ l.usage.completion > 0
  BY DEF UsageFacts
<1>4. UsageRead(s, l, r)
  BY <1>1, <1>2, <1>3 DEF UsageRead
<1>5. \A W : l.t # "done" => Says(r.emit, W)
  BY <1>1, Uttering
<1>6. l.t = "done" => Says(r.emit, {"stop"})
  <2>1. Says(<<Ev("finish", "stop", 0)>>, {"stop"}) /\ Says(<<Ev("stop", "", 0)>>, {"stop"})
    BY Uttering
  <2> QED
    BY <1>1, <2>1, UtteringTwo
<1>7. SaysRead("dify", s, l, r)
  BY <1>5, <1>6 DEF SaysRead, DoneWords
<1> QED
  BY <1>4, <1>7 DEF Reads, ReasonRead, PartsRead

(* Gemini's lines, translated.                                             *)
LEMMA GeminiReads ==
  ASSUME NEW s \in Locals, NEW l, UsageFacts("gemini", l), NEW r, r = GeminiToOpenAI(s, l)
  PROVE  Reads("gemini to openai", s, l, r)
<1>1. /\ l.t \in {"text", "think"} => r.emit = <<Ev("delta", l.t, 0)>> /\ r.s = s
      /\ l.t = "call" => r.emit = <<Ev("delta", "call", 0)>> /\ r.s.usage = s.usage /\ r.s.finish = s.finish
      /\ l.t = "finish" => r.emit = <<>> /\ r.s.usage = l.usage /\ r.s.finish = GeminiFinishReasonToOpenAI(l.reason)
      /\ l.t \notin {"text", "think", "call", "finish"} => r.emit = <<>> /\ r.s = s
  <2>1. "usage" \in DOMAIN s /\ "finish" \in DOMAIN s /\ "index" \in DOMAIN s
    BY DEF Locals
  <2> QED
    BY <2>1 DEF GeminiToOpenAI
<1>2. l.t # "finish" => l.usage = NoUsage
  BY DEF UsageFacts
<1>3. l.t = "finish" => l.usage.prompt > 0 /\ l.usage.completion > 0
  BY DEF UsageFacts
<1>4. UsageRead(s, l, r)
  BY <1>1, <1>2, <1>3 DEF UsageRead
<1>5. Says(r.emit, {})
  BY <1>1, Uttering
<1>6. \A W : Says(r.emit, W)
  BY <1>5, Saying
<1>7. SaysRead("gemini to openai", s, l, r)
  BY <1>5, <1>6 DEF SaysRead
<1>8. ReasonRead("gemini to openai", s, l, r)
  BY <1>1 DEF ReasonRead
<1> QED
  BY <1>4, <1>7, <1>8 DEF Reads, PartsRead

(* Gemini's lines, passed on.                                              *)
LEMMA GeminiNativeReads ==
  ASSUME NEW s \in Locals, NEW l, UsageFacts("gemini", l), l.t \in LineKind, NEW r, r = GeminiNative(s, l)
  PROVE  Reads("gemini native", s, l, r)
<1>1. /\ l.t \in {"text", "think", "call"} => r.emit = <<Ev("delta", l.t, 0)>>
      /\ l.t = "finish" => r.emit = <<Ev("finish", l.reason, 0)>>
      /\ l.t = "done" => r.emit = <<Ev("stop", "", 0)>>
      /\ l.t \notin {"text", "think", "call", "finish", "done"} => r.emit = <<Ev(l.t, "", 0)>>
  BY DEF GeminiNative
<1>2. l.t # "finish" => l.usage = NoUsage
  BY DEF UsageFacts
<1>3. l.t = "finish" => l.usage.prompt > 0 /\ l.usage.completion > 0
  BY DEF UsageFacts
<1>4. r.s.usage = IF l.t = "finish" THEN l.usage ELSE s.usage
  <2>1. "usage" \in DOMAIN s
    BY DEF Locals
  <2> QED
    BY <2>1 DEF GeminiNative
<1>5. UsageRead(s, l, r)
  BY <1>2, <1>3, <1>4 DEF UsageRead
<1>6. \A W : l.t # "finish" => Says(r.emit, W)
  <2>1. l.t # "message delta"
    BY DEF LineKind, Piece
  <2> QED
    BY <1>1, <2>1, Uttering
<1>7. l.t = "finish" => Says(r.emit, {l.reason})
  BY <1>1, Uttering
<1>8. MaySay("gemini native", l.reason, r.s) = {l.reason}
  BY DEF MaySay
<1>9. SaysRead("gemini native", s, l, r)
  BY <1>6, <1>7, <1>8 DEF SaysRead
<1> QED
  BY <1>5, <1>9 DEF Reads, ReasonRead, PartsRead

(* What ends a message in the protocol of OpenAI.                          *)
LEMMA EndChunkSays ==
  ASSUME NEW s
  PROVE  Says(ClaudeEndChunk(s), {Stopped(s.finish)})
<1> DEFINE k == Stopped(s.finish)
<1>1. ClaudeEndChunk(s) = <<Ev("finish", k, 0), Ev("stop", "", 0)>>
  BY DEF ClaudeEndChunk, Stopped
<1> HIDE DEF k
<1>2. Says(<<Ev("finish", k, 0)>>, {k})
  BY Uttering
<1>3. Says(<<Ev("stop", "", 0)>>, {k})
  BY Uttering, Zenon
<1>4. Says(<<Ev("finish", k, 0), Ev("stop", "", 0)>>, {k})
  BY <1>2, <1>3, UtteringTwo, Zenon
<1> QED
  BY <1>1, <1>4 DEF k

(* Claude's lines, translated.                                             *)
LEMMA ClaudeReads ==
  ASSUME NEW s \in Locals, NEW l, UsageFacts("claude", l), NEW r, r = ClaudeToOpenAI(s, l)
  PROVE  Reads("claude to openai", s, l, r)
<1>1. /\ l.t = "open" => /\ r.emit = (IF s.started THEN <<>> ELSE <<Ev("start", "", 0)>>)
                         /\ r.s = [s EXCEPT !.started = TRUE, !.usage = ClaudeUsage(@, l)]
      /\ l.t \in {"text", "think"} => r.emit = <<Ev("delta", l.t, 0)>> /\ r.s = [s EXCEPT !.words = @ + 1]
      /\ l.t = "call" => r.emit = <<Ev("delta", "call", 0)>> /\ r.s = [s EXCEPT !.index = @ + 1]
      /\ l.t = "args" => r.emit = <<Ev("delta", "args", s.index - 1)>> /\ r.s = s
      /\ l.t = "finish" =>
            /\ r.emit = <<>>
            /\ r.s = [s EXCEPT !.finish = ClaudeStopReasonToOpenAI(l.reason), !.usage = ClaudeUsage(@, l)]
      /\ l.t = "done" => r.emit = ClaudeEndChunk(s) /\ r.s = s
      /\ l.t \notin {"open", "text", "think", "call", "args", "finish", "done"} => r.emit = <<>> /\ r.s = s
  BY DEF ClaudeToOpenAI
<1>2. "usage" \in DOMAIN s /\ "finish" \in DOMAIN s
  BY DEF Locals
<1>3. /\ r.s.usage = IF l.t \in {"open", "finish"} THEN ClaudeUsage(s.usage, l) ELSE s.usage
      /\ r.s.finish = IF l.t = "finish" THEN ClaudeStopReasonToOpenAI(l.reason) ELSE s.finish
  BY <1>1, <1>2
<1>4. l.t = "open" => ClaudeUsage(s.usage, l) = l.usage
  BY DEF ClaudeUsage
<1>5. l.t \notin {"open", "finish"} => l.usage = NoUsage
  BY DEF UsageFacts
<1>6. l.t = "finish" => l.usage.completion > 0
  BY DEF UsageFacts
<1>7. UsageRead(s, l, r)
  BY <1>3, <1>4, <1>5, <1>6 DEF UsageRead
<1>8. ReasonRead("claude to openai", s, l, r)
  BY <1>3 DEF ReasonRead
<1>9. ASSUME NEW W, l.t \notin {"open", "done"} PROVE Says(r.emit, W)
  <2>1. /\ Says(<<>>, W) /\ Says(<<Ev("delta", l.t, 0)>>, W) /\ Says(<<Ev("delta", "call", 0)>>, W)
        /\ Says(<<Ev("delta", "args", s.index - 1)>>, W)
    BY Uttering, Zenon
  <2>2. \/ r.emit = <<>> \/ r.emit = <<Ev("delta", l.t, 0)>> \/ r.emit = <<Ev("delta", "call", 0)>>
        \/ r.emit = <<Ev("delta", "args", s.index - 1)>>
    BY <1>1, <1>9
  <2> QED
    BY <2>1, <2>2, Zenon
<1>10. ASSUME NEW W, l.t = "open" PROVE Says(r.emit, W)
  <2>1. Says(<<>>, W) /\ Says(<<Ev("start", "", 0)>>, W)
    BY Uttering, Zenon
  <2> QED
    BY <1>1, <1>10, <2>1
<1>11. l.t = "done" => Says(r.emit, {Stopped(s.finish)})
  BY <1>1, EndChunkSays
<1>12. SaysRead("claude to openai", s, l, r)
  BY <1>9, <1>10, <1>11 DEF SaysRead, DoneWords
<1> QED
  BY <1>7, <1>8, <1>12 DEF Reads, PartsRead

(* Claude's lines, passed on.                                              *)
LEMMA ClaudeNativeReads ==
  ASSUME NEW s \in Locals, NEW l, UsageFacts("claude", l), l.t \in LineKind, NEW r, r = ClaudeNative(s, l)
  PROVE  Reads("claude native", s, l, r)
<1>1. /\ l.t \in {"text", "think", "call", "args"} => r.emit = <<Ev("delta", l.t, 0)>>
      /\ l.t = "finish" => r.emit = <<Ev("message delta", l.reason, 0)>>
      /\ l.t = "done" => r.emit = <<Ev("stop", "", 0)>>
      /\ l.t \notin {"text", "think", "call", "args", "finish", "done"} => r.emit = <<Ev(l.t, "", 0)>>
  BY DEF ClaudeNative
<1>2. "usage" \in DOMAIN s
  BY DEF Locals
<1>3. r.s.usage = IF l.t \in {"open", "finish"} THEN ClaudeUsage(s.usage, l) ELSE s.usage
  BY <1>2 DEF ClaudeNative
<1>4. l.t = "open" => ClaudeUsage(s.usage, l) = l.usage
  BY DEF ClaudeUsage
<1>5. l.t \notin {"open", "finish"} => l.usage = NoUsage
  BY DEF UsageFacts
<1>6. l.t = "finish" => l.usage.completion > 0
  BY DEF UsageFacts
<1>7. UsageRead(s, l, r)
  BY <1>3, <1>4, <1>5, <1>6 DEF UsageRead
<1>8. \A W : l.t # "finish" => Says(r.emit, W)
  <2>1. l.t # "message delta"
    BY DEF LineKind, Piece
  <2> QED
    BY <1>1, <2>1, Uttering
<1>9. l.t = "finish" => Says(r.emit, {l.reason})
  BY <1>1, Uttering
<1>10. MaySay("claude native", l.reason, r.s) = {l.reason}
  BY DEF MaySay
<1>11. SaysRead("claude native", s, l, r)
  BY <1>8, <1>9, <1>10 DEF SaysRead
<1> QED
  BY <1>7, <1>11 DEF Reads, ReasonRead, PartsRead

(* OpenAI's lines for a Gemini client.                                     *)
LEMMA GeminiInboundReads ==
  ASSUME NEW s \in Locals, NEW l, UsageFacts("openai", l), NEW r, r = ToGemini(s, l)
  PROVE  Reads("openai to gemini", s, l, r)
<1>1. /\ l.t \in {"text", "think", "call"} => r.emit = <<Ev("delta", l.t, 0)>> /\ r.s = s
      /\ l.t = "args" => r.emit = <<Ev("nameless call", "", 0)>> /\ r.s = s
      /\ l.t = "finish" => r.emit = <<Ev("empty", "", 0)>> /\ r.s = [s EXCEPT !.finish = l.reason]
      /\ l.t = "usage" => r.emit = <<>> /\ r.s = [s EXCEPT !.usage = l.usage]
      /\ l.t \notin {"text", "think", "call", "args", "finish", "usage"} => r.emit = <<>> /\ r.s = s
  BY DEF ToGemini
<1>2. "usage" \in DOMAIN s /\ "finish" \in DOMAIN s
  BY DEF Locals
<1>3. /\ r.s.usage = IF l.t = "usage" THEN l.usage ELSE s.usage
      /\ r.s.finish = IF l.t = "finish" THEN l.reason ELSE s.finish
  BY <1>1, <1>2
<1>4. l.t # "usage" => l.usage = NoUsage
  BY DEF UsageFacts
<1>5. l.t = "usage" => l.usage.prompt > 0 /\ l.usage.completion > 0
  BY DEF UsageFacts
<1>6. UsageRead(s, l, r)
  BY <1>3, <1>4, <1>5 DEF UsageRead
<1>7. ReasonRead("openai to gemini", s, l, r)
  BY <1>3 DEF ReasonRead
<1>8. ASSUME NEW W PROVE Says(r.emit, W)
  <2>1. Says(<<>>, W) /\ Says(<<Ev("empty", "", 0)>>, W) /\ Says(<<Ev("nameless call", "", 0)>>, W)
        /\ Says(<<Ev("delta", l.t, 0)>>, W)
    BY Uttering, Zenon
  <2> QED
    BY <1>1, <2>1
<1>9. SaysRead("openai to gemini", s, l, r)
  BY <1>8 DEF SaysRead
<1> QED
  BY <1>6, <1>7, <1>9 DEF Reads, PartsRead

(* What opens and closes a Claude client's blocks says nothing of the end. *)
LEMMA BlocksSayNothing ==
  ASSUME NEW s \in Locals, NEW W
  PROVE  /\ CloseBlock(s) \in Seq(Event) /\ Says(CloseBlock(s), W)
         /\ MessageStart(s) \in Seq(Event) /\ Says(MessageStart(s), W)
         /\ SendStartIfNeeded(s) \in Seq(Event) /\ Says(SendStartIfNeeded(s), W)
<1>1. CloseBlock(s) \in Seq(Event) /\ MessageStart(s) \in Seq(Event) /\ SendStartIfNeeded(s) \in Seq(Event)
  BY BlockIsClosed, MessageIsStarted DEF Mute
<1>2. Says(<<>>, W) /\ Says(<<Ev("start", "", 0)>>, W) /\ Says(<<Ev("block stop", s.block, s.index)>>, W)
  BY Uttering, Zenon
<1>3. Says(CloseBlock(s), W)
  BY <1>2, Zenon DEF CloseBlock
<1>4. Says(MessageStart(s), W) /\ Says(SendStartIfNeeded(s), W)
  BY <1>2, Zenon DEF MessageStart, SendStartIfNeeded
<1> QED
  BY <1>1, <1>3, <1>4

(* Nor does a part of an answer; and it leaves usage and reason alone.      *)
LEMMA BlockDeltaReads ==
  ASSUME NEW s \in Locals, NEW k \in {"text", "think"}, NEW W
  PROVE  /\ Says(BlockDelta(s, k).emit, W) /\ BlockDelta(s, k).emit \in Seq(Event)
         /\ BlockDelta(s, k).s.usage = s.usage /\ BlockDelta(s, k).s.finish = s.finish
<1> DEFINE i == IF s.block = "" THEN s.index ELSE s.index + 1
<1>1. BlockDelta(s, k).emit \in Seq(Event)
  BY BlockDeltaTells DEF Tells
<1>2. CASE s.block = k
  <2>1. BlockDelta(s, k).emit = <<Ev("delta", k, s.index)>> /\ BlockDelta(s, k).s = s
    BY <1>2 DEF BlockDelta
  <2>2. Says(<<Ev("delta", k, s.index)>>, W)
    BY Uttering, Zenon
  <2> QED
    BY <1>1, <2>1, <2>2
<1>3. CASE s.block # k
  <2> DEFINE c == CloseBlock(s)
             d == <<Ev("block start", k, i), Ev("delta", k, i)>>
  <2>1. BlockDelta(s, k).emit = c \o d /\ BlockDelta(s, k).s = [s EXCEPT !.block = k, !.index = i]
    BY <1>3 DEF BlockDelta
  <2>2. BlockDelta(s, k).s.usage = s.usage /\ BlockDelta(s, k).s.finish = s.finish
    <3> HIDE DEF i
    <3> QED
      BY <2>1 DEF Locals
  <2>3. Says(d, W)
    <3> HIDE DEF i
    <3>1. Says(<<Ev("block start", k, i)>>, W) /\ Says(<<Ev("delta", k, i)>>, W)
      BY Uttering, Zenon
    <3> QED
      BY <3>1, UtteringTwo, Zenon
  <2>4. d \in Seq(Event)
    <3>1. i \in Int
      <4>1. s.index \in Nat
        BY DEF Locals
      <4> QED
        BY <4>1, Numbers, Zenon
    <3> HIDE DEF i
    <3>2. Ev("block start", k, i) \in Event /\ Ev("delta", k, i) \in Event
      <4>1. "block start" \in EventKind /\ "delta" \in EventKind /\ k \in Word
        <5>1. "block start" \in EventKind /\ "delta" \in EventKind
          BY ClaudeKinds, Zenon
        <5> QED
          BY <5>1, WordsTyped
      <4> QED
        BY <3>1, <4>1, TextIsEvent, Zenon
    <3> DEFINE x == Ev("block start", k, i)
               y == Ev("delta", k, i)
    <3>3. x \in Event /\ y \in Event
      BY <3>2
    <3> HIDE DEF x, y
    <3>4. <<x, y>> \in Seq(Event)
      BY <3>3
    <3> QED
      BY <3>4 DEF x, y
  <2>5. c \in Seq(Event) /\ Says(c, W)
    BY BlocksSayNothing
  <2> HIDE DEF c, d
  <2>6. Says(c \o d, W)
    BY <2>3, <2>4, <2>5, SayingMore
  <2> QED
    BY <1>1, <2>1, <2>2, <2>6
<1> QED
  BY <1>2, <1>3

(* Nor does a tool call.                                                   *)
LEMMA ToolUseReads ==
  ASSUME NEW s \in Locals, NEW W
  PROVE  /\ Says(ToolUse(s).emit, W) /\ ToolUse(s).emit \in Seq(Event)
         /\ ToolUse(s).s.usage = s.usage /\ ToolUse(s).s.finish = s.finish
<1> DEFINE i == IF s.block = "" THEN s.index ELSE s.index + 1
           c == CloseBlock(s)
           d == <<Ev("block start", "call", i)>>
<1>1. ToolUse(s).emit \in Seq(Event)
  BY ToolUseTells DEF Tells
<1>2. ToolUse(s).emit = c \o d /\ ToolUse(s).s = [s EXCEPT !.block = "call", !.index = i]
  BY DEF ToolUse
<1>6. i \in Int
  <2>1. s.index \in Nat
    BY DEF Locals
  <2> QED
    BY <2>1, Numbers, Zenon
<1>3. ToolUse(s).s.usage = s.usage /\ ToolUse(s).s.finish = s.finish
  <2> HIDE DEF i
  <2> QED
    BY <1>2 DEF Locals
<1>4. Says(d, W) /\ d \in Seq(Event)
  <2> HIDE DEF i
  <2>1. Says(d, W)
    BY Uttering, Zenon
  <2>2. Tells(d, "call")
    BY <1>6, Sentences
  <2> QED
    BY <2>1, <2>2 DEF Tells
<1>5. c \in Seq(Event) /\ Says(c, W)
  BY BlocksSayNothing
<1> HIDE DEF c, d
<1>7. Says(c \o d, W)
  BY <1>4, <1>5, SayingMore
<1> QED
  BY <1>1, <1>2, <1>3, <1>7

(* OpenAI's lines for a Claude client, beside message_start.               *)
LEMMA ClaudePartReads ==
  ASSUME NEW s \in Locals, NEW l, UsageFacts("openai", l), NEW p, p = ClaudePart(s, l)
  PROVE  /\ p.s.usage = IF l.t = "usage" THEN l.usage ELSE s.usage
         /\ p.s.finish = IF l.t = "finish" THEN l.reason ELSE s.finish
         /\ p.emit \in Seq(Event) /\ \A W : Says(p.emit, W)
<1> DEFINE begun == [s EXCEPT !.started = TRUE]
<1>1. begun \in Locals
  BY MessageIsStarted
<1>2. begun.usage = s.usage /\ begun.finish = s.finish /\ "usage" \in DOMAIN begun /\ "finish" \in DOMAIN begun
  BY DEF Locals
<1>0. /\ <<>> \in Seq(Event) /\ (\A W : Says(<<>>, W))
  <2>1. <<>> \in Seq(Event)
    BY NoEvents, Zenon
  <2> QED
    BY <2>1, Uttering, Zenon
<1>3. CASE l.t \in {"text", "think"}
  <2>1. p = BlockDelta(begun, l.t)
    BY <1>3 DEF ClaudePart
  <2> HIDE DEF begun
  <2>2. \A W : /\ Says(BlockDelta(begun, l.t).emit, W) /\ BlockDelta(begun, l.t).emit \in Seq(Event)
               /\ BlockDelta(begun, l.t).s.usage = begun.usage /\ BlockDelta(begun, l.t).s.finish = begun.finish
    BY <1>1, <1>3, BlockDeltaReads
  <2> QED
    BY <1>2, <1>3, <2>1, <2>2
<1>4. CASE l.t = "call"
  <2>1. p = ToolUse(begun)
    BY <1>4 DEF ClaudePart
  <2> HIDE DEF begun
  <2>2. \A W : /\ Says(ToolUse(begun).emit, W) /\ ToolUse(begun).emit \in Seq(Event)
               /\ ToolUse(begun).s.usage = begun.usage /\ ToolUse(begun).s.finish = begun.finish
    BY <1>1, ToolUseReads
  <2> QED
    BY <1>2, <1>4, <2>1, <2>2
<1>5. CASE l.t = "args"
  <2>1. p.emit = <<Ev("delta", "args", s.index)>> /\ p.s = begun
    BY <1>5 DEF ClaudePart
  <2>2. ASSUME NEW W PROVE Says(p.emit, W)
    <3>1. Says(<<Ev("delta", "args", s.index)>>, W)
      BY Uttering, Zenon
    <3> QED
      BY <2>1, <3>1
  <2>3. p.emit \in Seq(Event)
    <3>1. s.index \in Int
      BY DEF Locals
    <3>2. Tells(<<Ev("delta", "args", s.index)>>, "args")
      BY <3>1, Sentences
    <3> QED
      BY <2>1, <3>2 DEF Tells
  <2> QED
    BY <1>2, <1>5, <2>1, <2>2, <2>3
<1>6. CASE l.t = "finish"
  <2>1. p.emit = <<>> /\ p.s = [begun EXCEPT !.finish = l.reason]
    BY <1>6 DEF ClaudePart
  <2> HIDE DEF begun
  <2>2. p.s.usage = begun.usage /\ p.s.finish = l.reason
    BY <1>2, <2>1
  <2> QED
    BY <1>0, <1>2, <1>6, <2>1, <2>2
<1>7. CASE l.t = "usage"
  <2>1. p.emit = <<>> /\ p.s = [begun EXCEPT !.usage = l.usage]
    BY <1>7 DEF ClaudePart
  <2> HIDE DEF begun
  <2>2. p.s.usage = l.usage /\ p.s.finish = begun.finish
    BY <1>2, <2>1
  <2> QED
    BY <1>0, <1>2, <1>7, <2>1, <2>2
<1>8. CASE l.t \notin {"text", "think", "call", "args", "finish", "usage"}
  <2>1. p.emit = <<>> /\ p.s = begun
    BY <1>8 DEF ClaudePart
  <2> HIDE DEF begun
  <2> QED
    BY <1>0, <1>2, <1>8, <2>1
<1> QED
  BY <1>3, <1>4, <1>5, <1>6, <1>7, <1>8

(* OpenAI's lines for a Claude client.                                     *)
LEMMA ToClaudeReads ==
  ASSUME NEW s \in Locals, NEW l, UsageFacts("openai", l), NEW r, r = ToClaude(s, l)
  PROVE  Reads("openai to claude", s, l, r)
<1> DEFINE p == ClaudePart(s, l)
           m == MessageStart(s)
<1>1. r.emit = m \o p.emit /\ r.s = p.s
  BY DEF ToClaude, ClaudePart
<1>2. /\ p.s.usage = IF l.t = "usage" THEN l.usage ELSE s.usage
      /\ p.s.finish = IF l.t = "finish" THEN l.reason ELSE s.finish
      /\ p.emit \in Seq(Event) /\ \A W : Says(p.emit, W)
  BY ClaudePartReads
<1>3. m \in Seq(Event) /\ \A W : Says(m, W)
  BY BlocksSayNothing
<1> HIDE DEF p, m
<1>4. \A W : Says(r.emit, W)
  BY <1>1, <1>2, <1>3, SayingMore
<1>5. l.t # "usage" => l.usage = NoUsage
  BY DEF UsageFacts
<1>6. l.t = "usage" => l.usage.prompt > 0 /\ l.usage.completion > 0
  BY DEF UsageFacts
<1>7. UsageRead(s, l, r)
  BY <1>1, <1>2, <1>5, <1>6 DEF UsageRead
<1>8. ReasonRead("openai to claude", s, l, r)
  BY <1>1, <1>2 DEF ReasonRead
<1>9. SaysRead("openai to claude", s, l, r)
  BY <1>4 DEF SaysRead
<1> QED
  BY <1>7, <1>8, <1>9 DEF Reads, PartsRead

(* OpenAI's lines for a Responses client, which is told no reason.         *)
LEMMA ToResponsesReads ==
  ASSUME NEW s \in Locals, NEW l, UsageFacts("openai", l), NEW r, r = ToResponses(s, l)
  PROVE  Reads("openai to responses", s, l, r)
<1> DEFINE begun == [s EXCEPT !.started = TRUE]
           p == ResponsePart(s, l)
<1>1. r.s = p.s
  BY DEF ToResponses, ResponsePart
<1>2. begun \in Locals /\ begun.usage = s.usage
  <2>1. begun \in Locals
    BY MessageIsStarted
  <2> QED
    BY <2>1 DEF Locals
<1>3. p.s.usage = IF l.t = "usage" THEN l.usage ELSE s.usage
  <2>1. /\ l.t = "text" => p.s = [begun EXCEPT !.words = @ + 1]
        /\ l.t = "call" => p.s = FunctionCallAdded(begun).s
        /\ l.t = "usage" => p.s = [begun EXCEPT !.usage = l.usage]
        /\ l.t \notin {"text", "call", "usage"} => p.s = begun
    BY DEF ResponsePart
  <2>2. FunctionCallAdded(begun).s.usage = begun.usage
    <3> HIDE DEF begun
    <3> QED
      BY <1>2 DEF FunctionCallAdded, Locals
  <2> HIDE DEF begun, p
  <2> QED
    BY <1>2, <2>1, <2>2 DEF Locals
<1> HIDE DEF p
<1>4. l.t # "usage" => l.usage = NoUsage
  BY DEF UsageFacts
<1>5. l.t = "usage" => l.usage.prompt > 0 /\ l.usage.completion > 0
  BY DEF UsageFacts
<1>6. UsageRead(s, l, r)
  BY <1>1, <1>3, <1>4, <1>5 DEF UsageRead
<1> QED
  BY <1>6 DEF Reads, ReasonRead, PartsRead, SaysRead

(* A call from a Responses upstream, its arguments and its fragments.       *)
LEMMA ToolCallReads ==
  ASSUME NEW s \in Locals, NEW l, l.t \in {"call", "args", "fragment"}, TellsIds(s),
         NEW r, r = SendToolCallChunk(s, l)
  PROVE  /\ r.s.usage = s.usage /\ r.s.finish = s.finish /\ r.s.text = s.text
         /\ r.s.callAt # <<>> <=> s.callAt # <<>> \/ l.t = "call"
         /\ \A W : Says(r.emit, W)
<1> DEFINE i == s.index
<1>0. s.index \in Nat /\ s.callAt \in Seq(Nat)
  BY DEF Locals
<1>1. CASE l.t = "call"
  <2>1. /\ r.emit = <<Ev("delta", "call", s.index)>>
        /\ r.s = [s EXCEPT !.index = @ + 1, !.callAt = Append(@, s.index), !.block = ""]
    BY <1>1 DEF SendToolCallChunk
  <2>2. Append(s.callAt, s.index) # <<>>
    BY <1>0, AppendedIsNotEmpty
  <2>3. r.s.usage = s.usage /\ r.s.finish = s.finish /\ r.s.text = s.text /\ r.s.callAt = Append(s.callAt, s.index)
    BY <2>1 DEF Locals
  <2>4. ASSUME NEW W PROVE Says(r.emit, W)
    <3>1. Says(<<Ev("delta", "call", s.index)>>, W)
      BY Uttering, Zenon
    <3> QED
      BY <2>1, <3>1
  <2> QED
    BY <1>1, <2>2, <2>3, <2>4
<1>2. CASE l.t = "args"
  <2>1. r.emit = <<Ev("delta", "args", Last(s.callAt))>> /\ r.s = s
    BY <1>2 DEF SendToolCallChunk
  <2>2. ASSUME NEW W PROVE Says(r.emit, W)
    <3>1. Says(<<Ev("delta", "args", Last(s.callAt))>>, W)
      BY Uttering, Zenon
    <3> QED
      BY <2>1, <3>1
  <2> QED
    BY <1>2, <2>1, <2>2
<1>3. CASE l.t = "fragment" /\ s.block = "fragments"
  <2>1. r.emit = <<Ev("nameless call", "", s.index - 1)>> /\ r.s = s
    BY <1>3 DEF SendToolCallChunk
  <2>2. ASSUME NEW W PROVE Says(r.emit, W)
    <3>1. Says(<<Ev("nameless call", "", s.index - 1)>>, W)
      BY Uttering, Zenon
    <3> QED
      BY <2>1, <3>1
  <2> QED
    BY <1>3, <2>1, <2>2
<1>4. CASE l.t = "fragment" /\ s.block = ""
  <2>1. r.emit = <<Ev("nameless call", "", s.index)>> /\ r.s = [s EXCEPT !.index = @ + 1, !.block = "fragments"]
    BY <1>4 DEF SendToolCallChunk
  <2>2. r.s.usage = s.usage /\ r.s.finish = s.finish /\ r.s.text = s.text /\ r.s.callAt = s.callAt
    BY <2>1 DEF Locals
  <2>3. ASSUME NEW W PROVE Says(r.emit, W)
    <3>1. Says(<<Ev("nameless call", "", s.index)>>, W)
      BY Uttering, Zenon
    <3> QED
      BY <2>1, <3>1
  <2> QED
    BY <1>4, <2>2, <2>3
<1> QED
  BY <1>1, <1>2, <1>3, <1>4 DEF TellsIds

(* response.completed says how the answer ended.                           *)
LEMMA CompletedReads ==
  ASSUME NEW s \in Locals, NEW l, NEW r, r = ResponseCompleted(s, l)
  PROVE  /\ r.s.usage = [l.usage EXCEPT !.cached = 0] /\ r.s.finish = "sent"
         /\ r.s.callAt = s.callAt /\ r.s.text = s.text
         /\ Says(r.emit, {IF s.callAt # <<>> /\ ~s.text THEN "tool_calls" ELSE "stop"})
<1> DEFINE k == IF s.callAt # <<>> /\ ~s.text THEN "tool_calls" ELSE "stop"
           a == SendStartIfNeeded(s)
<1>1. k \in Word
  <2>1. "tool_calls" \in Word /\ "stop" \in Word
    BY WordsTyped, Zenon
  <2> QED
    BY <2>1
<1> HIDE DEF k
<1>2. r.emit = a \o <<Ev("finish", k, 0)>>
      /\ r.s = [s EXCEPT !.started = TRUE, !.finish = "sent", !.usage = [l.usage EXCEPT !.cached = 0]]
  BY DEF ResponseCompleted, k
<1>3. /\ r.s.usage = [l.usage EXCEPT !.cached = 0] /\ r.s.finish = "sent"
      /\ r.s.callAt = s.callAt /\ r.s.text = s.text
  BY <1>2 DEF Locals
<1>4. Says(<<Ev("finish", k, 0)>>, {k}) /\ <<Ev("finish", k, 0)>> \in Seq(Event)
  BY <1>1, Uttering, Murmurs DEF Mute
<1>5. a \in Seq(Event) /\ Says(a, {k})
  BY BlocksSayNothing
<1> HIDE DEF a
<1>6. Says(r.emit, {k})
  BY <1>2, <1>4, <1>5, SayingMore, ZenonT(40)
<1> QED
  BY <1>3, <1>6 DEF k

(* The lines of a Responses upstream.                                      *)
LEMMA ResponsesToChatReads ==
  ASSUME NEW s \in Locals, NEW l, UsageFacts("responses", l), TellsIds(s), NEW r, r = ResponsesToChat(s, l)
  PROVE  Reads("responses to openai", s, l, r)
<1>1. /\ l.t \notin {"open", "finish"} => l.usage = NoUsage
      /\ l.t = "open" => l.usage = NoUsage
      /\ l.t = "finish" => l.usage.prompt > 0 /\ l.usage.completion > 0 /\ l.reason \in {"completed", "incomplete"}
  <2>1. Reasons("responses") = {"completed", "incomplete"}
    BY DEF Reasons
  <2> QED
    BY <2>1 DEF UsageFacts
<1>2. CASE l.t \in {"text", "think"}
  <2> DEFINE a == SendStartIfNeeded(s)
             d == <<Ev("delta", l.t, 0)>>
             x == s.text \/ l.t = "text"
  <2>1. r.emit = a \o d /\ r.s = [s EXCEPT !.started = TRUE, !.words = @ + 1, !.text = x]
    BY <1>2 DEF ResponsesToChat
  <2>2. x \in BOOLEAN /\ (x <=> s.text \/ l.t = "text")
    OBVIOUS
  <2>3. r.s.usage = s.usage /\ r.s.finish = s.finish /\ r.s.callAt = s.callAt /\ r.s.text = x
    <3> HIDE DEF x, a, d
    <3> QED
      BY <2>1 DEF Locals
  <2>4. d \in Seq(Event) /\ \A W : Says(d, W)
    <3>1. Tells(d, l.t)
      BY <1>2, PlainPieces
    <3>2. \A W : Says(d, W)
      BY Uttering, Zenon
    <3> QED
      BY <3>1, <3>2 DEF Tells
  <2>5. a \in Seq(Event) /\ \A W : Says(a, W)
    BY BlocksSayNothing
  <2> HIDE DEF a, d, x
  <2>6. \A W : Says(r.emit, W)
    BY <2>1, <2>4, <2>5, SayingMore
  <2>7. SaysRead("responses to openai", s, l, r)
    BY <2>6 DEF SaysRead
  <2>8. UsageRead(s, l, r)
    BY <1>1, <1>2, <2>3 DEF UsageRead
  <2>9. ReasonRead("responses to openai", s, l, r)
    BY <1>2, <2>3 DEF ReasonRead
  <2>10. PartsRead("responses to openai", s, l, r)
    BY <1>2, <2>2, <2>3 DEF PartsRead
  <2> QED
    BY <2>7, <2>8, <2>9, <2>10 DEF Reads
<1>3. CASE l.t \in {"call", "args", "fragment"}
  <2> DEFINE c == SendToolCallChunk(s, l)
  <2>1. r = [c EXCEPT !.s.words = @ + 1]
    BY <1>3 DEF ResponsesToChat
  <2>2. /\ c.s.usage = s.usage /\ c.s.finish = s.finish /\ c.s.text = s.text
        /\ c.s.callAt # <<>> <=> s.callAt # <<>> \/ l.t = "call"
        /\ \A W : Says(c.emit, W)
    BY <1>3, ToolCallReads
  <2>3. "emit" \in DOMAIN c /\ "s" \in DOMAIN c
    BY <1>3 DEF SendToolCallChunk, TellsIds
  <2> HIDE DEF c
  <2>4. r.emit = c.emit /\ r.s = [c.s EXCEPT !.words = @ + 1]
    BY <2>1, <2>3
  <2>5. r.s.usage = s.usage /\ r.s.finish = s.finish /\ r.s.text = s.text
        /\ (r.s.callAt # <<>> <=> s.callAt # <<>> \/ l.t = "call")
    BY <2>2, <2>4
  <2>7. SaysRead("responses to openai", s, l, r)
    BY <2>2, <2>4 DEF SaysRead
  <2>8. UsageRead(s, l, r)
    BY <1>1, <1>3, <2>5 DEF UsageRead
  <2>9. ReasonRead("responses to openai", s, l, r)
    BY <1>3, <2>5 DEF ReasonRead
  <2>10. PartsRead("responses to openai", s, l, r)
    BY <1>3, <2>5 DEF PartsRead
  <2> QED
    BY <2>7, <2>8, <2>9, <2>10 DEF Reads
<1>4. CASE l.t = "finish" /\ l.reason = "completed"
  <2> DEFINE k == IF s.callAt # <<>> /\ ~s.text THEN "tool_calls" ELSE "stop"
  <2>1. r = ResponseCompleted(s, l)
    BY <1>4 DEF ResponsesToChat
  <2>2. /\ r.s.usage = [l.usage EXCEPT !.cached = 0] /\ r.s.finish = "sent"
        /\ r.s.callAt = s.callAt /\ r.s.text = s.text /\ Says(r.emit, {k})
    BY <2>1, CompletedReads
  <2>3. MaySay("responses to openai", l.reason, r.s) = {k}
    BY <1>4, <2>2 DEF MaySay
  <2>7. SaysRead("responses to openai", s, l, r)
    BY <1>4, <2>2, <2>3 DEF SaysRead
  <2>8. UsageRead(s, l, r)
    BY <1>1, <1>4, <2>2 DEF UsageRead
  <2>9. ReasonRead("responses to openai", s, l, r)
    BY <1>4, <2>2 DEF ReasonRead
  <2>10. PartsRead("responses to openai", s, l, r)
    BY <1>4, <2>2 DEF PartsRead
  <2> QED
    BY <2>7, <2>8, <2>9, <2>10 DEF Reads
<1>5. CASE l.t \notin {"text", "think", "call", "args", "fragment"} /\ ~(l.t = "finish" /\ l.reason = "completed")
  <2>1. r.emit = <<>> /\ r.s = s
    BY <1>5 DEF ResponsesToChat
  <2>2. \A W : Says(r.emit, W)
    BY <2>1, Uttering
  <2>7. SaysRead("responses to openai", s, l, r)
    BY <2>2 DEF SaysRead
  <2>8. UsageRead(s, l, r)
    BY <1>1, <1>5, <2>1 DEF UsageRead
  <2>9. ReasonRead("responses to openai", s, l, r)
    BY <1>5, <2>1 DEF ReasonRead
  <2>10. PartsRead("responses to openai", s, l, r)
    BY <1>5, <2>1 DEF PartsRead
  <2> QED
    BY <2>7, <2>8, <2>9, <2>10 DEF Reads
<1> QED
  BY <1>2, <1>3, <1>4, <1>5

(* What every handler keeps and says of a line.                            *)
LEMMA OnLineReads ==
  ASSUME NEW h \in AllHandlers, NEW s \in Locals, NEW l, UsageFacts(Speaks[h], l), l.t \in LineKind,
         h = "responses to openai" => TellsIds(s)
  PROVE  Reads(h, s, l, OnLine(h, s, l))
<1>1. CASE h = "openai to claude"
  <2>1. OnLine(h, s, l) = ToClaude(s, l)
    BY <1>1 DEF OnLine
  <2>2. UsageFacts("openai", l)
    BY <1>1, Vocabulary
  <2>3. Reads("openai to claude", s, l, ToClaude(s, l))
    BY <2>2, ToClaudeReads
  <2> QED
    BY <1>1, <2>1, <2>3
<1>2. CASE h = "openai to gemini"
  <2>1. OnLine(h, s, l) = ToGemini(s, l)
    BY <1>2 DEF OnLine
  <2>2. UsageFacts("openai", l)
    BY <1>2, Vocabulary
  <2>3. Reads("openai to gemini", s, l, ToGemini(s, l))
    BY <2>2, GeminiInboundReads
  <2> QED
    BY <1>2, <2>1, <2>3
<1>3. CASE h = "openai to responses"
  <2>1. OnLine(h, s, l) = ToResponses(s, l)
    BY <1>3 DEF OnLine
  <2>2. UsageFacts("openai", l)
    BY <1>3, Vocabulary
  <2>3. Reads("openai to responses", s, l, ToResponses(s, l))
    BY <2>2, ToResponsesReads
  <2> QED
    BY <1>3, <2>1, <2>3
<1>4. CASE h = "responses to openai"
  <2>1. OnLine(h, s, l) = ResponsesToChat(s, l)
    BY <1>4 DEF OnLine
  <2>2. UsageFacts("responses", l)
    BY <1>4, Vocabulary
  <2>3. Reads("responses to openai", s, l, ResponsesToChat(s, l))
    BY <1>4, <2>2, ResponsesToChatReads
  <2> QED
    BY <1>4, <2>1, <2>3
<1>5. CASE h = "claude to openai"
  <2>1. OnLine(h, s, l) = ClaudeToOpenAI(s, l)
    BY <1>5 DEF OnLine
  <2>2. UsageFacts("claude", l)
    BY <1>5, Vocabulary
  <2>3. Reads("claude to openai", s, l, ClaudeToOpenAI(s, l))
    BY <2>2, ClaudeReads
  <2> QED
    BY <1>5, <2>1, <2>3
<1>6. CASE h = "claude native"
  <2>1. OnLine(h, s, l) = ClaudeNative(s, l)
    BY <1>6 DEF OnLine
  <2>2. UsageFacts("claude", l)
    BY <1>6, Vocabulary
  <2>3. Reads("claude native", s, l, ClaudeNative(s, l))
    BY <2>2, ClaudeNativeReads
  <2> QED
    BY <1>6, <2>1, <2>3
<1>7. CASE h = "gemini to openai"
  <2>1. OnLine(h, s, l) = GeminiToOpenAI(s, l)
    BY <1>7 DEF OnLine
  <2>2. UsageFacts("gemini", l)
    BY <1>7, Vocabulary
  <2>3. Reads("gemini to openai", s, l, GeminiToOpenAI(s, l))
    BY <2>2, GeminiReads
  <2> QED
    BY <1>7, <2>1, <2>3
<1>8. CASE h = "gemini native"
  <2>1. OnLine(h, s, l) = GeminiNative(s, l)
    BY <1>8 DEF OnLine
  <2>2. UsageFacts("gemini", l)
    BY <1>8, Vocabulary
  <2>3. Reads("gemini native", s, l, GeminiNative(s, l))
    BY <2>2, GeminiNativeReads
  <2> QED
    BY <1>8, <2>1, <2>3
<1>9. CASE h = "ollama"
  <2>1. OnLine(h, s, l) = Ollama(s, l)
    BY <1>9 DEF OnLine
  <2>2. UsageFacts("ollama", l)
    BY <1>9, Vocabulary
  <2>3. Reads("ollama", s, l, Ollama(s, l))
    BY <2>2, OllamaReads
  <2> QED
    BY <1>9, <2>1, <2>3
<1>10. CASE h = "coze"
  <2>1. OnLine(h, s, l) = Coze(s, l)
    BY <1>10 DEF OnLine
  <2>2. UsageFacts("coze", l)
    BY <1>10, Vocabulary
  <2>3. Reads("coze", s, l, Coze(s, l))
    BY <2>2, CozeReads
  <2> QED
    BY <1>10, <2>1, <2>3
<1>11. CASE h = "dify"
  <2>1. OnLine(h, s, l) = Dify(s, l)
    BY <1>11 DEF OnLine
  <2>2. UsageFacts("dify", l)
    BY <1>11, Vocabulary
  <2>3. Reads("dify", s, l, Dify(s, l))
    BY <2>2, DifyReads
  <2> QED
    BY <1>11, <2>1, <2>3
<1> QED
  BY <1>1, <1>2, <1>3, <1>4, <1>5, <1>6, <1>7, <1>8, <1>9, <1>10, <1>11 DEF AllHandlers

(* What a handler says of the end when it comes to it.                     *)
EndWords(h, s) ==
    CASE h = "openai to claude" -> {OpenAIFinishReasonToClaude(s.finish)}
      [] h = "openai to gemini" -> {OpenAIFinishReasonToGemini(s.finish)}
      [] h = "responses to openai" -> IF s.finish = "sent" THEN {} ELSE {"stop"}
      [] h \in {"claude to openai", "gemini to openai"} -> {Stopped(s.finish)}
      [] OTHER -> {}

(* A Claude message that ends says the reason kept, in Claude's words.      *)
LEMMA MessageDoneSays ==
  ASSUME NEW s \in Locals
  PROVE  Says(MessageDone(s), {OpenAIFinishReasonToClaude(s.finish)})
<1> DEFINE k == OpenAIFinishReasonToClaude(s.finish)
           c == CloseBlock(s)
           a == Ev("message delta", k, 0)
           b == Ev("stop", "", 0)
<1>1. k \in Word
  BY ReasonsAreWords DEF Locals
<1>2. MessageDone(s) = c \o <<a, b>>
  BY DEF MessageDone
<1>3. Says(<<a>>, {k}) /\ Says(<<b>>, {k})
  <2> HIDE DEF k
  <2>1. Says(<<Ev("message delta", k, 0)>>, {k})
    BY Uttering
  <2>2. Says(<<Ev("stop", "", 0)>>, {k})
    BY Uttering, Zenon
  <2> QED
    BY <2>1, <2>2
<1>4. a \in Event /\ b \in Event
  <2> HIDE DEF k
  <2>1. "message delta" \in EventKind
    BY ClaudeKinds
  <2>2. 0 \in Int
    OBVIOUS
  <2>3. Ev("message delta", k, 0) \in Event
    BY <1>1, <2>1, <2>2, TextIsEvent, Zenon
  <2>4. Ev("stop", "", 0) \in Event
    BY EventsAre, Zenon
  <2> QED
    BY <2>3, <2>4
<1>5. c \in Seq(Event) /\ Says(c, {k})
  BY BlocksSayNothing
<1> HIDE DEF k, c, a, b
<1>6. <<a, b>> \in Seq(Event)
  BY <1>4
<1>7. Says(<<a, b>>, {k})
  BY <1>3, UtteringTwo
<1>8. Says(c \o <<a, b>>, {k})
  BY <1>5, <1>6, <1>7, SayingMore
<1> QED
  BY <1>2, <1>8 DEF k

(* A Claude message that is cut says no reason.                            *)
LEMMA CutMessageSays ==
  ASSUME NEW s \in Locals, NEW W
  PROVE  Says(CloseBlock(s) \o <<Ev("stop", "", 0)>>, W)
<1> DEFINE c == CloseBlock(s)
           d == <<Ev("stop", "", 0)>>
<1>1. c \in Seq(Event) /\ Says(c, W)
  BY BlocksSayNothing
<1>2. d \in Seq(Event) /\ Says(d, W)
  <2>1. d \in Seq(Event)
    BY FinalesAre DEF Finale
  <2> QED
    BY <2>1, Uttering, Zenon
<1> HIDE DEF c, d
<1>3. Says(c \o d, W)
  BY <1>1, <1>2, SayingMore
<1> QED
  BY <1>3 DEF c, d

(* A Gemini answer that ends says the reason kept, in Gemini's words.       *)
LEMMA GeminiEndSays ==
  ASSUME NEW s
  PROVE  Says(GeminiInboundEnd(s), {OpenAIFinishReasonToGemini(s.finish)})
<1> DEFINE k == OpenAIFinishReasonToGemini(s.finish)
<1>1. GeminiInboundEnd(s) = <<Ev("finish", k, 0), Ev("stop", "", 0)>>
  BY DEF GeminiInboundEnd
<1> HIDE DEF k
<1>2. Says(<<Ev("finish", k, 0)>>, {k})
  BY Uttering
<1>3. Says(<<Ev("stop", "", 0)>>, {k})
  BY Uttering, Zenon
<1>4. Says(<<Ev("finish", k, 0), Ev("stop", "", 0)>>, {k})
  BY <1>2, <1>3, UtteringTwo, Zenon
<1> QED
  BY <1>1, <1>4 DEF k

(* A chat made of a Responses stream says stop at its end, unless it has   *)
(* said its reason before.                                                 *)
LEMMA ChatEndSays ==
  ASSUME NEW s \in Locals
  PROVE  Says(ChatEnd(s), IF s.finish = "sent" THEN {} ELSE {"stop"})
<1> DEFINE W == IF s.finish = "sent" THEN {} ELSE {"stop"}
           a == SendStartIfNeeded(s)
           b == IF s.finish = "sent" THEN <<>> ELSE <<Ev("finish", "stop", 0)>>
           c == <<Ev("stop", "", 0)>>
<1>1. ChatEnd(s) = a \o b \o c
  BY DEF ChatEnd
<1>2. a \in Seq(Event) /\ Says(a, W)
  BY BlocksSayNothing
<1>3. b \in Seq(Event) /\ Says(b, W)
  <2>1. <<>> \in Seq(Event) /\ Says(<<>>, W)
    BY NoEvents, Uttering, Zenon
  <2>2. <<Ev("finish", "stop", 0)>> \in Seq(Event)
    BY Murmurs DEF Mute
  <2>3. Says(<<Ev("finish", "stop", 0)>>, {"stop"})
    BY Uttering
  <2> QED
    BY <2>1, <2>2, <2>3
<1>4. c \in Seq(Event) /\ Says(c, W)
  <2>1. c \in Seq(Event)
    BY FinalesAre DEF Finale
  <2> QED
    BY <2>1, Uttering, Zenon
<1> HIDE DEF W, a, b, c
<1>5. a \o b \in Seq(Event) /\ Says(a \o b, W)
  BY <1>2, <1>3, SayingMore
<1>6. Says((a \o b) \o c, W)
  BY <1>4, <1>5, SayingMore
<1> QED
  BY <1>1, <1>6 DEF W

(* The terminator.                                                         *)
LEMMA DoneSays ==
  ASSUME NEW h \in AllHandlers, h # "openai to responses", NEW s \in Locals
  PROVE  Says(OnDone(h, s).emit, EndWords(h, s))
<1>0. Says(<<>>, EndWords(h, s)) /\ Says(<<Ev("stop", "", 0)>>, EndWords(h, s))
  BY Uttering, Zenon
<1>1. CASE h = "openai to claude"
  <2>1. OnDone(h, s).emit = MessageDone(s) /\ EndWords(h, s) = {OpenAIFinishReasonToClaude(s.finish)}
    BY <1>1 DEF OnDone, Stop, EndWords
  <2> QED
    BY <2>1, MessageDoneSays
<1>2. CASE h = "openai to gemini"
  <2>1. OnDone(h, s).emit = GeminiInboundEnd(s) /\ EndWords(h, s) = {OpenAIFinishReasonToGemini(s.finish)}
    BY <1>2 DEF OnDone, Stop, EndWords
  <2> QED
    BY <2>1, GeminiEndSays
<1>3. CASE h = "responses to openai"
  <2>1. OnDone(h, s).emit = ChatEnd(s) /\ EndWords(h, s) = IF s.finish = "sent" THEN {} ELSE {"stop"}
    BY <1>3 DEF OnDone, Stop, EndWords
  <2> QED
    BY <2>1, ChatEndSays
<1>4. CASE h = "gemini to openai"
  <2>1. OnDone(h, s).emit = ClaudeEndChunk(s) /\ EndWords(h, s) = {Stopped(s.finish)}
    BY <1>4 DEF OnDone, Stop, EndWords
  <2> QED
    BY <2>1, EndChunkSays
<1>5. CASE h = "ollama"
  <2>1. OnDone(h, s).emit = <<Ev("stop", "", 0)>>
    BY <1>5 DEF OnDone, Stop
  <2> QED
    BY <1>0, <2>1
<1>6. CASE h \in {"claude to openai", "claude native", "gemini native", "coze", "dify"}
  <2>1. OnDone(h, s).emit = <<>>
    BY <1>6, DoneEnds
  <2> QED
    BY <1>0, <2>1
<1> QED
  BY <1>1, <1>2, <1>3, <1>4, <1>5, <1>6 DEF AllHandlers

(* The end of the body.                                                    *)
LEMMA EOFSays ==
  ASSUME NEW h \in AllHandlers, h # "openai to responses", NEW s \in Locals
  PROVE  Says(OnEOF(h, s).emit, EndWords(h, s))
<1>0. Says(<<>>, EndWords(h, s))
  BY Uttering, Zenon
<1>1. CASE h = "openai to claude"
  <2>1. OnEOF(h, s).emit = CloseBlock(s) \o <<Ev("stop", "", 0)>>
    BY <1>1 DEF OnEOF, Stop
  <2> QED
    BY <2>1, CutMessageSays
<1>2. CASE h \in {"openai to gemini", "responses to openai", "gemini to openai", "ollama"}
  <2>1. OnEOF(h, s) = OnDone(h, s)
    BY <1>2 DEF OnEOF
  <2> QED
    BY <2>1, DoneSays
<1>3. CASE h = "claude to openai"
  <2>1. OnEOF(h, s).emit = (IF ending = "" THEN ClaudeEndChunk(s) ELSE <<>>)
    BY <1>3 DEF OnEOF, Stop
  <2>2. EndWords(h, s) = {Stopped(s.finish)}
    BY <1>3 DEF EndWords
  <2>3. Says(ClaudeEndChunk(s), EndWords(h, s))
    BY <2>2, EndChunkSays
  <2> QED
    BY <1>0, <2>1, <2>3, Zenon
<1>4. CASE h \in {"claude native", "gemini native", "coze", "dify"}
  <2>1. OnEOF(h, s).emit = <<>>
    BY <1>4 DEF OnEOF, Stop
  <2> QED
    BY <1>0, <2>1
<1> QED
  BY <1>1, <1>2, <1>3, <1>4 DEF AllHandlers

(* A read error.                                                           *)
LEMMA BrokenSays ==
  ASSUME NEW h \in AllHandlers, h # "openai to responses", NEW s \in Locals
  PROVE  Says(OnBroken(h, s).emit, EndWords(h, s))
<1>0. Says(<<>>, EndWords(h, s))
  BY Uttering, Zenon
<1>1. CASE h \in {"openai to gemini", "gemini to openai", "ollama"}
  <2>1. OnBroken(h, s) = [OnEOF(h, s) EXCEPT !.ret = IF gone THEN "ok" ELSE "error"]
    BY <1>1 DEF OnBroken
  <2> DEFINE o == OnEOF(h, s)
             x == IF gone THEN "ok" ELSE "error"
  <2>2. OnBroken(h, s).emit = OnEOF(h, s).emit
    <3>1. \E e : o = Stop(e, "done", "ok")
      <4>1. o = OnDone(h, s)
        BY <1>1 DEF OnEOF
      <4>2. \E e : OnDone(h, s) = Stop(e, "done", "ok")
        BY <1>1 DEF OnDone
      <4> QED
        BY <4>1, <4>2
    <3> HIDE DEF o, x
    <3>2. "emit" \in DOMAIN o
      <4>1. PICK e : o = Stop(e, "done", "ok")
        BY <3>1
      <4>2. o = [emit |-> e, ending |-> "done", ret |-> "ok"]
        BY <4>1 DEF Stop
      <4> QED
        BY <4>2
    <3>3. [o EXCEPT !.ret = x].emit = o.emit
      BY <3>2
    <3> QED
      BY <2>1, <3>3 DEF o, x
  <2> QED
    BY <2>2, EOFSays
<1>2. CASE h \in {"openai to claude", "claude to openai"}
  <2>1. OnBroken(h, s) = OnEOF(h, s) \/ OnBroken(h, s).emit = <<>>
    BY <1>2 DEF OnBroken, Stop
  <2> QED
    BY <1>0, <2>1, EOFSays
<1>3. CASE h = "responses to openai"
  <2>1. OnBroken(h, s).emit = ChatEnd(s) /\ EndWords(h, s) = IF s.finish = "sent" THEN {} ELSE {"stop"}
    BY <1>3 DEF OnBroken, Stop, EndWords
  <2> QED
    BY <2>1, ChatEndSays
<1>4. CASE h \in {"claude native", "gemini native", "coze", "dify"}
  <2>1. OnBroken(h, s).emit = <<>>
    BY <1>4 DEF OnBroken, Stop
  <2> QED
    BY <1>0, <2>1
<1> QED
  BY <1>1, <1>2, <1>3, <1>4 DEF AllHandlers

(* An error event, and a line read after the client has left.               *)
LEMMA OtherEndsSay ==
  ASSUME NEW h, NEW s \in Locals
  PROVE  Says(OnError(h, s).emit, EndWords(h, s)) /\ Says(OnGone(h, s).emit, EndWords(h, s))
<1>0. Says(<<>>, EndWords(h, s))
  BY Uttering, Zenon
<1>1. h # "responses to openai" => OnError(h, s).emit = <<>> /\ OnGone(h, s).emit = <<>>
  BY DEF OnError, OnGone, Stop, GoOn
<1>2. ASSUME h = "responses to openai" PROVE OnError(h, s).emit = ChatEnd(s) /\ OnGone(h, s).emit = ChatEnd(s)
  BY <1>2 DEF OnError, OnGone, Stop
<1>3. h = "responses to openai" => EndWords(h, s) = IF s.finish = "sent" THEN {} ELSE {"stop"}
  BY DEF EndWords
<1> QED
  BY <1>0, <1>1, <1>2, <1>3, ChatEndSays

(* What ReasonIsKept says, of any handler, reason and locals.               *)
Kept(h, r, s) ==
    /\ h \in {"openai to claude", "openai to gemini"} => s.finish = r
    /\ h = "claude to openai" => s.finish = ClaudeStopReasonToOpenAI(r)
    /\ h = "gemini to openai" => s.finish = GeminiFinishReasonToOpenAI(r)
    /\ h = "responses to openai" /\ r = "completed" => s.finish = "sent"

(* They are those of the handler, the reason and the locals of the state.  *)
LEMMA ReasonIsKeptIs == ReasonIsKept <=> Kept(handler, reason, st)
BY DEF ReasonIsKept, Kept

(* A handler that kept the reason says it at the end.                      *)
LEMMA KeptIsSaid ==
  ASSUME NEW h \in AllHandlers, NEW r, NEW s, Kept(h, r, s), h # "openai to responses"
  PROVE  EndWords(h, s) \subseteq MaySay(h, r, s) /\ DoneWords(h, s) \subseteq MaySay(h, r, s)
<1>0. "stop" \in Word
  BY WordsTyped, Zenon
<1>1. CASE h = "openai to claude"
  BY <1>1 DEF EndWords, DoneWords, MaySay, Kept
<1>2. CASE h = "openai to gemini"
  BY <1>2 DEF EndWords, DoneWords, MaySay, Kept
<1>3. CASE h = "responses to openai"
  BY <1>0, <1>3 DEF EndWords, DoneWords, MaySay, Kept
<1>4. CASE h = "claude to openai"
  BY <1>4 DEF EndWords, DoneWords, MaySay, Kept
<1>5. CASE h = "gemini to openai"
  BY <1>5 DEF EndWords, DoneWords, MaySay, Kept
<1>6. CASE h \in {"claude native", "gemini native"}
  BY <1>6 DEF EndWords, DoneWords
<1>7. CASE h \in {"ollama", "coze", "dify"}
  BY <1>7 DEF EndWords, DoneWords, MaySay
<1> QED
  BY <1>1, <1>2, <1>3, <1>4, <1>5, <1>6, <1>7 DEF AllHandlers

(* A line that is read keeps the reason.                                   *)
LEMMA ReasonGoesOn ==
  ASSUME NEW h, NEW r, NEW s, NEW l, NEW x, Kept(h, r, s), ReasonRead(h, s, l, x),
         NEW n, n = IF l.t = "finish" THEN l.reason ELSE r
  PROVE  Kept(h, n, x.s)
BY DEF Kept, ReasonRead

(* What was reported, field by field.                                      *)
LEMMA ReportsAre ==
  ASSUME reported \in Usage, NEW l, l.usage \in Usage, Spoken(l)
  PROVE  /\ reported'.prompt = IF l.usage.prompt > 0 THEN l.usage.prompt ELSE reported.prompt
         /\ reported'.completion = IF l.usage.completion > 0 THEN l.usage.completion ELSE reported.completion
         /\ reported'.cached = IF l.usage.cached > 0 THEN l.usage.cached ELSE reported.cached
         /\ reported' \in Usage
         /\ l.usage = NoUsage => reported' = reported
<1>1. reported' = [f \in DOMAIN reported |-> IF l.usage[f] > 0 THEN l.usage[f] ELSE reported[f]]
  BY DEF Spoken
<1>2. reported' \in Usage
  BY <1>1, ReportsTyped
<1>3. /\ reported'.prompt = IF l.usage.prompt > 0 THEN l.usage.prompt ELSE reported.prompt
      /\ reported'.completion = IF l.usage.completion > 0 THEN l.usage.completion ELSE reported.completion
      /\ reported'.cached = IF l.usage.cached > 0 THEN l.usage.cached ELSE reported.cached
  <2>1. "prompt" \in DOMAIN reported /\ "completion" \in DOMAIN reported /\ "cached" \in DOMAIN reported
    BY DEF Usage
  <2> QED
    BY <1>1, <2>1
<1>4. ASSUME l.usage = NoUsage PROVE reported' = reported
  <2>1. reported'.prompt = reported.prompt /\ reported'.completion = reported.completion
        /\ reported'.cached = reported.cached
    BY <1>3, <1>4, UsageFields
  <2> QED
    BY <1>2, <2>1 DEF Usage
<1> QED
  BY <1>2, <1>3, <1>4

(* The usage a handler keeps follows what is reported.                     *)
LEMMA UsageGoesOn ==
  ASSUME TypeOK, UpstreamIsKnown, UsageIsKept, NEW l, UsageFacts(Speaks[handler], l), l.usage \in Usage,
         Spoken(l), NEW x, UsageRead(st, l, x), st' = x.s
  PROVE  UsageIsKept'
<1>1. reported \in Usage /\ st.usage \in Usage
  BY DEF TypeOK, Locals
<1>2. /\ reported'.prompt = IF l.usage.prompt > 0 THEN l.usage.prompt ELSE reported.prompt
      /\ reported'.completion = IF l.usage.completion > 0 THEN l.usage.completion ELSE reported.completion
      /\ reported'.cached = IF l.usage.cached > 0 THEN l.usage.cached ELSE reported.cached
      /\ reported' \in Usage
  BY <1>1, ReportsAre
<1>3. reason' = IF l.t = "finish" THEN l.reason ELSE reason
  BY DEF Spoken
<1>4. l.t = "finish" => reason = ""
  BY DEF UsageFacts, UpstreamIsKnown
<1>5. reason' # "incomplete" => reason # "incomplete"
  BY <1>3, <1>4
<1> SUFFICES ASSUME reason' # "incomplete"
             PROVE  /\ x.s.usage.prompt = reported'.prompt /\ x.s.usage.completion = reported'.completion
                    /\ x.s.usage.cached \in {0, reported'.cached}
  BY DEF UsageIsKept
<1>6. st.usage.prompt = reported.prompt /\ st.usage.completion = reported.completion
      /\ st.usage.cached \in {0, reported.cached}
  BY <1>5 DEF UsageIsKept
<1>7. CASE l.usage = NoUsage /\ x.s.usage = st.usage
  BY <1>2, <1>6, <1>7, UsageFields
<1>8. CASE l.usage.prompt > 0 /\ l.usage.completion > 0 /\ x.s.usage \in {l.usage, [l.usage EXCEPT !.cached = 0]}
  <2>1. /\ x.s.usage.prompt = l.usage.prompt /\ x.s.usage.completion = l.usage.completion
        /\ x.s.usage.cached \in {0, l.usage.cached}
    BY <1>8 DEF Usage
  <2>2. l.usage.cached \in Nat
    BY DEF Usage
  <2> QED
    BY <1>2, <1>8, <2>1, <2>2
<1>9. CASE l.t = "open" /\ x.s.usage = l.usage
  <2>1. reported = NoUsage /\ l.usage.completion = 0
    BY <1>9 DEF UsageFacts, UpstreamIsKnown
  <2>2. l.usage.prompt \in Nat /\ l.usage.cached \in Nat
    BY DEF Usage
  <2> QED
    BY <1>2, <1>9, <2>1, <2>2, UsageFields
<1>10. CASE l.t = "finish" /\ l.usage.completion > 0 /\ x.s.usage = ClaudeUsage(st.usage, l)
  <2>1. /\ x.s.usage.prompt = IF l.usage.prompt > 0 THEN l.usage.prompt ELSE st.usage.prompt
        /\ x.s.usage.completion = l.usage.completion
        /\ x.s.usage.cached = IF l.usage.cached > 0 THEN l.usage.cached ELSE st.usage.cached
    BY <1>10 DEF ClaudeUsage
  <2> QED
    BY <1>2, <1>6, <1>10, <2>1
<1>11. CASE l.t = "finish" /\ l.reason = "incomplete"
  BY <1>3, <1>11
<1> QED
  BY <1>7, <1>8, <1>9, <1>10, <1>11 DEF UsageRead

(* What is known of the upstream is known after its next line.             *)
LEMMA UpstreamGoesOn ==
  ASSUME TypeOK, UpstreamIsKnown, NEW l, l.t \in LineKind, l.usage \in Usage, Spoken(l), handler' = handler,
         UsageFacts(Speaks[handler], l) \/ (l.t \in {"eof", "broken"} /\ l.usage = NoUsage)
  PROVE  UpstreamIsKnown'
<1>1. /\ lines' = lines + 1 /\ reason' = IF l.t = "finish" THEN l.reason ELSE reason
      /\ phase' = CASE l.t = "finish" -> "finished"
                    [] l.t \in {"done", "error"} -> "over"
                    [] l.t \in {"eof", "broken"} -> IF phase = "over" THEN "over" ELSE "cut"
                    [] OTHER -> phase
  BY DEF Spoken
<1>2. /\ reported'.completion = IF l.usage.completion > 0 THEN l.usage.completion ELSE reported.completion
      /\ l.usage = NoUsage => reported' = reported
  <2>1. reported \in Usage
    BY DEF TypeOK
  <2> QED
    BY <2>1, ReportsAre
<1>3. l.t = "finish" => l.reason \in Reasons(Speaks[handler])
  BY DEF UsageFacts
<1>4. reason' \in Reasons(Speaks[handler]) \cup {""}
  BY <1>1, <1>3 DEF UpstreamIsKnown
<1>5. phase' = "talking" => reason' = ""
  BY <1>1 DEF UpstreamIsKnown
<1>6. lines' # 0
  <2>1. lines \in Nat /\ lines' = lines + 1
    BY <1>1 DEF TypeOK
  <2> QED
    BY <2>1
<1>7. ASSUME handler = "coze" PROVE reported' = NoUsage
  <2>1. Speaks[handler] = "coze"
    BY <1>7, Vocabulary
  <2>2. l.usage = NoUsage
    BY <2>1 DEF UsageFacts
  <2> QED
    BY <1>2, <1>7, <2>2 DEF UpstreamIsKnown
<1>8. ASSUME Speaks[handler] \in {"claude", "gemini", "responses"}, reported'.completion > 0 PROVE reason' # ""
  <2>1. CASE l.t = "finish"
    <3>1. \A r \in Reasons(Speaks[handler]) : r # ""
      BY DEF Reasons
    <3> QED
      BY <1>1, <1>3, <2>1, <3>1
  <2>2. CASE l.t # "finish"
    <3>1. l.usage.completion = 0
      BY <1>8, <2>2, UsageFields DEF UsageFacts
    <3>2. reported.completion > 0
      BY <1>2, <1>8, <3>1
    <3> QED
      BY <1>1, <1>8, <2>2, <3>2 DEF UpstreamIsKnown
  <2> QED
    BY <2>1, <2>2
<1> QED
  BY <1>4, <1>5, <1>6, <1>7, <1>8 DEF UpstreamIsKnown

(* The kinds of what was said, with one piece more.                        *)
LEMMA KindsGrow ==
  ASSUME NEW q \in Seq(Piece), NEW k \in Piece
  PROVE  \A p : p \in Kinds(Append(q, k)) <=> p \in Kinds(q) \/ (p = k /\ p # "args")
<1>1. \A r, p : p \in Kinds(r) <=> p # "args" /\ \E i \in DOMAIN r : r[i] = p
  BY DEF Kinds, ToSet
<1>2. /\ DOMAIN Append(q, k) = DOMAIN q \cup {Len(q) + 1} /\ Append(q, k)[Len(q) + 1] = k
      /\ \A i \in DOMAIN q : Append(q, k)[i] = q[i]
  OBVIOUS
<1> DEFINE a == Append(q, k)
           n == Len(q) + 1
<1>3. DOMAIN a = DOMAIN q \cup {n} /\ a[n] = k /\ \A i \in DOMAIN q : a[i] = q[i]
  BY <1>2
<1> HIDE DEF a, n
<1>4. \A p : p \in Kinds(a) <=> p \in Kinds(q) \/ (p = k /\ p # "args")
  BY <1>1, <1>3
<1> QED
  BY <1>4 DEF a

(* A line is read in a turn as its handler reads it.                       *)
LEMMA TurnReads ==
  ASSUME TypeOK, CallIsKnown, NEW l, UsageFacts(Speaks[handler], l), l.t \in LineKind,
         NEW s, NEW e, NEW o, Turn(l, s, e, o), NEW x, x = [emit |-> e, s |-> s]
  PROVE  Reads(handler, st, l, x)
<1>1. handler \in AllHandlers /\ st \in Locals
  BY HandlerAssumption DEF TypeOK
<1>2. x.emit = e /\ x.s = s
  OBVIOUS
<1>3. handler = "responses to openai" => TellsIds(st)
  BY DEF CallIsKnown, TellsIds
<1>4. ASSUME e = <<>>, s = st, l.usage = NoUsage, l.t \notin {"finish", "call", "text"} PROVE Reads(handler, st, l, x)
  <2>1. \A W : Says(x.emit, W)
    <3>1. \A W : Says(<<>>, W)
      BY Uttering, Zenon
    <3> QED
      BY <1>2, <1>4, <3>1
  <2>2. SaysRead(handler, st, l, x)
    BY <2>1 DEF SaysRead
  <2>3. UsageRead(st, l, x)
    BY <1>2, <1>4 DEF UsageRead
  <2>4. ReasonRead(handler, st, l, x)
    BY <1>2, <1>4 DEF ReasonRead
  <2>5. PartsRead(handler, st, l, x)
    BY <1>2, <1>4 DEF PartsRead
  <2> QED
    BY <2>2, <2>3, <2>4, <2>5 DEF Reads
<1>5. CASE l.t = "done" /\ LeavesAtDone /\ s = st /\ e = <<>>
  <2>1. Speaks[handler] \notin {"ollama", "dify"}
    BY <1>5, Vocabulary DEF LeavesAtDone
  <2>2. l.usage = NoUsage
    BY <1>5, <2>1 DEF UsageFacts
  <2> QED
    BY <1>4, <1>5, <2>2
<1>6. CASE s = Reading(l).s /\ e = Reading(l).emit
  <2>1. CASE l.t = "junk"
    <3>1. e = <<>> /\ s = st
      BY <1>6, <2>1 DEF Reading
    <3>2. l.usage = NoUsage
      BY <2>1 DEF UsageFacts
    <3> QED
      BY <1>4, <2>1, <3>1, <3>2
  <2>2. CASE l.t # "junk"
    <3> DEFINE y == OnLine(handler, st, l)
    <3>1. Reading(l) = y
      BY <2>2 DEF Reading
    <3>2. Reads(handler, st, l, y)
      BY <1>1, <1>3, OnLineReads
    <3>3. x.emit = y.emit /\ x.s = y.s
      BY <1>2, <1>6, <3>1
    <3> HIDE DEF y
    <3> QED
      BY <3>2, <3>3 DEF Reads, UsageRead, ReasonRead, PartsRead, SaysRead
  <2> QED
    BY <2>1, <2>2
<1> QED
  BY <1>5, <1>6 DEF Turn

(* The parts a Responses stream has brought, after one line more.          *)
LEMMA PartsGoOn ==
  ASSUME TypeOK, PartsAreKept, NEW l, l.reason \in Word, l.usage \in Usage, Spoken(l), handler' = handler,
         NEW x, PartsRead(handler, st, l, x), st' = x.s
  PROVE  PartsAreKept'
<1> SUFFICES ASSUME handler = "responses to openai"
             PROVE  /\ x.s.callAt # <<>> <=> "call" \in Kinds(said')
                    /\ x.s.text <=> "text" \in Kinds(said')
  BY DEF PartsAreKept
<1>1. /\ x.s.callAt # <<>> <=> st.callAt # <<>> \/ l.t = "call"
      /\ x.s.text <=> st.text \/ l.t = "text"
  BY DEF PartsRead
<1>2. /\ st.callAt # <<>> <=> "call" \in Kinds(said)
      /\ st.text <=> "text" \in Kinds(said)
  BY DEF PartsAreKept
<1>3. said \in Seq(Piece)
  BY DEF TypeOK
<1>4. said' = IF l.t \in Piece THEN Append(said, l.t) ELSE said
  <2>1. said' = (IF l.t \in CanSay(Speaks[handler]) /\ Keeps(handler, l.t) THEN Append(said, l.t) ELSE said)
    BY SpokenTyped
  <2>2. CanSay(Speaks[handler]) = Piece
    <3>1. Speaks[handler] = "responses"
      BY Vocabulary
    <3> QED
      BY <3>1 DEF CanSay, Piece
  <2>3. Keeps(handler, l.t)
    BY DEF Keeps
  <2> QED
    BY <2>1, <2>2, <2>3
<1>5. \A p \in {"call", "text"} : p \in Kinds(said') <=> p \in Kinds(said) \/ l.t = p
  <2>1. CASE l.t \in Piece
    <3>1. \A p : p \in Kinds(Append(said, l.t)) <=> p \in Kinds(said) \/ (p = l.t /\ p # "args")
      BY <1>3, <2>1, KindsGrow
    <3>2. said' = Append(said, l.t)
      BY <1>4, <2>1
    <3> QED
      BY <3>1, <3>2
  <2>2. CASE l.t \notin Piece
    BY <1>4, <2>2 DEF Piece
  <2> QED
    BY <2>1, <2>2
<1> QED
  BY <1>1, <1>2, <1>5

(* What may be said does not change once the answer has ended.             *)
LEMMA WordsStay ==
  ASSUME NEW h, NEW r, NEW s, NEW l, NEW x, PartsRead(h, s, l, x), l.t \notin {"text", "call"}
  PROVE  MaySay(h, r, x.s) = MaySay(h, r, s)
<1>1. CASE h = "responses to openai"
  <2>1. (x.s.callAt # <<>> <=> s.callAt # <<>>) /\ (x.s.text <=> s.text)
    BY <1>1 DEF PartsRead
  <2>2. (x.s.callAt # <<>> /\ ~x.s.text) <=> (s.callAt # <<>> /\ ~s.text)
    BY <2>1
  <2>3. CASE s.callAt # <<>> /\ ~s.text
    BY <1>1, <2>2, <2>3 DEF MaySay
  <2>4. CASE ~(s.callAt # <<>> /\ ~s.text)
    BY <1>1, <2>2, <2>4 DEF MaySay
  <2> QED
    BY <2>3, <2>4
<1>2. CASE h # "responses to openai"
  BY <1>2 DEF MaySay
<1> QED
  BY <1>1, <1>2

(* A line that is read says no more of the end than it may.                *)
LEMMA TurnSays ==
  ASSUME TypeOK, CallIsKnown, UpstreamIsKnown, ReasonIsSaid, ret = "none", todo = <<>>,
         NEW l, LineFacts(Speaks[handler], l), UsageFacts(Speaks[handler], l), Spoken(l),
         NEW s, NEW e, NEW o, Turn(l, s, e, o), Handles(s, e, o), Kept(handler', reason', st')
  PROVE  ReasonIsSaid'
<1> DEFINE x == [emit |-> e, s |-> s]
           W == MaySay(handler, reason', s)
<1>1. x.emit = e /\ x.s = s
  OBVIOUS
<1>0. handler \in AllHandlers /\ l.t \in LineKind /\ st \in Locals
  BY HandlerAssumption DEF TypeOK, LineFacts
<1>2. Reads(handler, st, l, x)
  BY <1>0, TurnReads
<1>3. s \in Locals /\ e \in Seq(Event) /\ Outcome(o)
  BY TurnMakes
<1>4. /\ Made \in Seq(Event) /\ o.emit \in Seq(Event) /\ Made' = Made \o (e \o o.emit)
      /\ handler' = handler /\ st' = s /\ ret' = o.ret
  BY <1>3, HandlesMake
<1>5. reason' = IF l.t = "finish" THEN l.reason ELSE reason
  BY DEF Spoken
<1>6. phase' = "talking" => phase = "talking" /\ l.t \notin {"finish", "done", "error"}
  BY DEF Spoken
<1> HIDE DEF x, W
<1> SUFFICES ASSUME handler # "openai to responses"
             PROVE  Says(Made', W) /\ (ret' = "none" /\ phase' = "talking" => Says(Made', {}))
  BY <1>4 DEF ReasonIsSaid, W
<1>7. EndWords(handler, s) \subseteq W /\ DoneWords(handler, s) \subseteq W
  BY <1>0, <1>4, KeptIsSaid DEF W
<1>8. Says(o.emit, EndWords(handler, s)) /\ (l.t \notin {"done", "error"} => o.emit = <<>>)
  <2>1. CASE o = OnDone(handler, s) /\ l.t = "done"
    BY <1>0, <1>3, <2>1, DoneSays
  <2>2. CASE o = OnError(handler, s) /\ l.t = "error"
    BY <1>3, <2>2, OtherEndsSay
  <2>3. CASE o = GoOn
    <3>1. Says(<<>>, EndWords(handler, s))
      BY Uttering, Zenon
    <3> QED
      BY <2>3, <3>1 DEF GoOn
  <2>4. \/ o = OnDone(handler, s) /\ l.t = "done"
        \/ o = OnError(handler, s) /\ l.t = "error"
        \/ o = GoOn
    BY Zenon DEF Turn
  <2> QED
    BY <2>1, <2>2, <2>3, <2>4
<1>9. Says(e, W) /\ (l.t \notin {"finish", "done"} => Says(e, {}))
  <2>1. /\ l.t \notin {"finish", "done"} => Says(e, {})
        /\ l.t = "finish" => Says(e, MaySay(handler, l.reason, s))
        /\ l.t = "done" => Says(e, DoneWords(handler, st))
    BY <1>1, <1>2 DEF Reads, SaysRead
  <2>2. l.t = "done" => DoneWords(handler, st) = DoneWords(handler, s)
    <3>1. ASSUME l.t = "done", handler = "claude to openai" PROVE s.finish = st.finish
      BY <1>1, <1>2, <3>1 DEF Reads, ReasonRead
    <3> QED
      BY <3>1 DEF DoneWords
  <2>3. l.t = "finish" => Says(e, W)
    BY <1>5, <2>1 DEF W
  <2>4. l.t = "done" => Says(e, W)
    BY <1>7, <2>1, <2>2, Saying
  <2>5. l.t \notin {"finish", "done"} => Says(e, W)
    BY <2>1, Saying
  <2> QED
    BY <2>1, <2>3, <2>4, <2>5
<1>10. Says(o.emit, W)
  BY <1>7, <1>8, Saying
<1>11. Says(Made, W) /\ (phase = "talking" => Says(Made, {}))
  <2>1. Says(Made, MaySay(handler, reason, st)) /\ (phase = "talking" => Says(Made, {}))
    BY DEF ReasonIsSaid
  <2>2. CASE phase = "talking"
    BY <2>1, <2>2, Saying
  <2>3. CASE phase # "talking"
    <3>1. l.t \notin {"text", "call", "finish"}
      BY <2>3 DEF UsageFacts, Piece
    <3>2. reason' = reason
      BY <1>5, <3>1
    <3>3. PartsRead(handler, st, l, x)
      BY <1>2 DEF Reads
    <3>4. MaySay(handler, reason, x.s) = MaySay(handler, reason, st)
      BY <3>1, <3>3, WordsStay
    <3> QED
      BY <1>1, <2>1, <2>3, <3>2, <3>4 DEF W
  <2> QED
    BY <2>2, <2>3
<1>12. Says(Made', W)
  <2> DEFINE a == o.emit
             b == e \o a
  <2>1. a \in Seq(Event) /\ Says(a, W) /\ Says(e, W)
    BY <1>4, <1>9, <1>10
  <2> HIDE DEF a
  <2>2. b \in Seq(Event) /\ Says(b, W)
    <3>1. Says(e \o a, W)
      BY <1>3, <2>1, SayingMore
    <3>2. e \o a \in Seq(Event)
      BY <1>3, <2>1, Associates
    <3> QED
      BY <3>1, <3>2
  <2>3. Made' = Made \o b
    BY <1>4 DEF a
  <2> HIDE DEF b
  <2> QED
    BY <1>4, <1>11, <2>2, <2>3, SayingMore
<1>13. ASSUME phase' = "talking" PROVE Says(Made', {})
  <2>1. Says(e, {}) /\ o.emit = <<>> /\ Says(Made, {})
    BY <1>6, <1>8, <1>9, <1>11, <1>13
  <2>2. e \o o.emit = e
    BY <1>3, <2>1, EmptyAdds
  <2> QED
    BY <1>3, <1>4, <2>1, <2>2, SayingMore
<1> QED
  BY <1>12, <1>13

(* What gives the reason.                                                  *)
LEMMA Giving ==
  /\ \A b : GivesReason(b) <=> ~Says(b, {})
  /\ \A a, b \in Seq(Event) : GivesReason(a) \/ GivesReason(b) => GivesReason(a \o b)
  /\ \A k, i : GivesReason(<<Ev("finish", k, i)>>) /\ GivesReason(<<Ev("message delta", k, i)>>)
  /\ \A a, b : GivesReason(<<a>>) => GivesReason(<<a, b>>)
<1>1. \A b : GivesReason(b) <=> ~Says(b, {})
  BY DEF GivesReason, Says
<1>2. ASSUME NEW a \in Seq(Event), NEW b \in Seq(Event), GivesReason(a) \/ GivesReason(b)
      PROVE  GivesReason(a \o b)
  <2>1. CASE GivesReason(a)
    <3>1. PICK n \in DOMAIN a : a[n].e \in {"finish", "message delta"}
      BY <2>1 DEF GivesReason
    <3>2. n \in DOMAIN (a \o b) /\ (a \o b)[n] = a[n]
      OBVIOUS
    <3> QED
      BY <3>1, <3>2 DEF GivesReason
  <2>2. CASE GivesReason(b)
    <3>1. PICK n \in DOMAIN b : b[n].e \in {"finish", "message delta"}
      BY <2>2 DEF GivesReason
    <3>2. Len(a) + n \in DOMAIN (a \o b) /\ (a \o b)[Len(a) + n] = b[n]
      OBVIOUS
    <3> QED
      BY <3>1, <3>2 DEF GivesReason
  <2> QED
    BY <1>2, <2>1, <2>2
<1>0. \A x : DOMAIN <<x>> = {1} /\ <<x>>[1] = x
  OBVIOUS
<1>3. ASSUME NEW e \in {"finish", "message delta"}, NEW k, NEW i PROVE GivesReason(<<Ev(e, k, i)>>)
  <2> DEFINE x == Ev(e, k, i)
  <2>1. x.e = e
    BY EventParts
  <2> HIDE DEF x
  <2>2. 1 \in DOMAIN <<x>> /\ <<x>>[1] = x
    BY <1>0, Zenon
  <2>3. GivesReason(<<x>>)
    BY <2>1, <2>2 DEF GivesReason
  <2> QED
    BY <2>3 DEF x
<1>4. ASSUME NEW a, NEW b, GivesReason(<<a>>) PROVE GivesReason(<<a, b>>)
  <2>1. \A n \in DOMAIN <<a>> : <<a>>[n] = a
    OBVIOUS
  <2>2. a.e \in {"finish", "message delta"}
    BY <1>4, <2>1 DEF GivesReason
  <2>3. 1 \in DOMAIN <<a, b>> /\ <<a, b>>[1] = a
    OBVIOUS
  <2> QED
    BY <2>2, <2>3 DEF GivesReason
<1>5. \A k, i : GivesReason(<<Ev("finish", k, i)>>) /\ GivesReason(<<Ev("message delta", k, i)>>)
  BY <1>3, Zenon
<1> QED
  BY <1>1, <1>2, <1>4, <1>5

(* A chunk that ends an answer in the protocol of OpenAI gives it.          *)
LEMMA EndChunkGives ==
  ASSUME NEW s
  PROVE  GivesReason(ClaudeEndChunk(s)) /\ GivesReason(GeminiInboundEnd(s))
<1>1. \A k : GivesReason(<<Ev("finish", k, 0), Ev("stop", "", 0)>>)
  BY Giving, Zenon
<1>2. \E k : ClaudeEndChunk(s) = <<Ev("finish", k, 0), Ev("stop", "", 0)>>
  BY DEF ClaudeEndChunk
<1>3. \E k : GeminiInboundEnd(s) = <<Ev("finish", k, 0), Ev("stop", "", 0)>>
  BY DEF GeminiInboundEnd
<1> QED
  BY <1>1, <1>2, <1>3, Zenon

(* The lines that make a handler give the reason at once.                  *)
LEMMA LinesGive ==
  ASSUME NEW h, NEW s \in Locals, NEW l
  PROVE  /\ h \in {"claude native", "gemini native", "coze"} /\ l.t = "finish" => GivesReason(OnLine(h, s, l).emit)
         /\ h = "responses to openai" /\ l.t = "finish" /\ l.reason = "completed" => GivesReason(OnLine(h, s, l).emit)
         /\ h \in {"claude to openai", "ollama", "dify"} /\ l.t = "done" => GivesReason(OnLine(h, s, l).emit)
<1>1. ASSUME h = "claude native", l.t = "finish" PROVE GivesReason(OnLine(h, s, l).emit)
  <2>1. OnLine(h, s, l).emit = <<Ev("message delta", l.reason, 0)>>
    BY <1>1 DEF OnLine, ClaudeNative
  <2> QED
    BY <2>1, Giving
<1>2. ASSUME h = "gemini native", l.t = "finish" PROVE GivesReason(OnLine(h, s, l).emit)
  <2>1. OnLine(h, s, l).emit = <<Ev("finish", l.reason, 0)>>
    BY <1>2 DEF OnLine, GeminiNative
  <2> QED
    BY <2>1, Giving
<1>3. ASSUME h = "coze", l.t = "finish" PROVE GivesReason(OnLine(h, s, l).emit)
  <2>1. OnLine(h, s, l).emit = <<Ev("finish", "stop", 0)>>
    BY <1>3 DEF OnLine, Coze
  <2> QED
    BY <2>1, Giving
<1>4. ASSUME h = "responses to openai", l.t = "finish", l.reason = "completed" PROVE GivesReason(OnLine(h, s, l).emit)
  <2> DEFINE k == IF s.callAt # <<>> /\ ~s.text THEN "tool_calls" ELSE "stop"
             a == SendStartIfNeeded(s)
             d == <<Ev("finish", k, 0)>>
  <2>1. OnLine(h, s, l).emit = a \o d
    BY <1>4 DEF OnLine, ResponsesToChat, ResponseCompleted
  <2>2. k \in Word
    <3>1. "tool_calls" \in Word /\ "stop" \in Word
      BY WordsTyped, Zenon
    <3> QED
      BY <3>1
  <2>3. d \in Seq(Event) /\ GivesReason(d)
    <3> HIDE DEF k
    <3> QED
      BY <2>2, Murmurs, Giving DEF Mute
  <2>4. a \in Seq(Event)
    BY BlocksSayNothing
  <2> HIDE DEF a, d
  <2> QED
    BY <2>1, <2>3, <2>4, Giving
<1>5. ASSUME h = "claude to openai", l.t = "done" PROVE GivesReason(OnLine(h, s, l).emit)
  <2>1. OnLine(h, s, l).emit = ClaudeEndChunk(s)
    BY <1>5 DEF OnLine, ClaudeToOpenAI
  <2> QED
    BY <2>1, EndChunkGives
<1>6. ASSUME h = "ollama", l.t = "done" PROVE GivesReason(OnLine(h, s, l).emit)
  <2>1. OnLine(h, s, l).emit = <<Ev("finish", "stop", 0)>>
    BY <1>6 DEF OnLine, Ollama
  <2> QED
    BY <2>1, Giving
<1>7. ASSUME h = "dify", l.t = "done" PROVE GivesReason(OnLine(h, s, l).emit)
  <2>1. OnLine(h, s, l).emit = <<Ev("finish", "stop", 0), Ev("stop", "", 0)>>
    BY <1>7 DEF OnLine, Dify
  <2> QED
    BY <2>1, Giving, Zenon
<1> QED
  BY <1>1, <1>2, <1>3, <1>4, <1>5, <1>6, <1>7

(* The ends that give it, and those that do not.                           *)
LEMMA EndsGive ==
  ASSUME NEW h, NEW s \in Locals
  PROVE  /\ h \in {"openai to claude", "openai to gemini", "gemini to openai"} => GivesReason(OnDone(h, s).emit)
         /\ h \in {"openai to gemini", "gemini to openai"} =>
               GivesReason(OnEOF(h, s).emit) /\ GivesReason(OnBroken(h, s).emit)
         /\ h = "claude to openai" /\ ending = "" => GivesReason(OnEOF(h, s).emit)
         /\ h = "openai to claude" => Says(OnEOF(h, s).emit, {}) /\ Says(OnBroken(h, s).emit, {})
<1>1. ASSUME h \in {"openai to gemini", "gemini to openai"}
      PROVE  /\ GivesReason(OnDone(h, s).emit) /\ OnEOF(h, s) = OnDone(h, s)
             /\ OnBroken(h, s).emit = OnDone(h, s).emit
  <2> DEFINE o == OnDone(h, s)
             x == IF gone THEN "ok" ELSE "error"
  <2>1. \E e : GivesReason(e) /\ o = Stop(e, "done", "ok")
    BY <1>1, EndChunkGives DEF OnDone
  <2>2. OnEOF(h, s) = o /\ OnBroken(h, s) = [OnEOF(h, s) EXCEPT !.ret = x]
    BY <1>1 DEF OnEOF, OnBroken
  <2> HIDE DEF o, x
  <2>3. PICK e : GivesReason(e) /\ o = [emit |-> e, ending |-> "done", ret |-> "ok"]
    BY <2>1 DEF Stop
  <2>4. [o EXCEPT !.ret = x].emit = o.emit /\ o.emit = e
    BY <2>3
  <2> QED
    BY <2>2, <2>3, <2>4 DEF o
<1>2. ASSUME h = "openai to claude" PROVE GivesReason(OnDone(h, s).emit)
  <2> DEFINE k == OpenAIFinishReasonToClaude(s.finish)
             c == CloseBlock(s)
             d == <<Ev("message delta", k, 0), Ev("stop", "", 0)>>
  <2>1. OnDone(h, s).emit = c \o d
    BY <1>2 DEF OnDone, Stop, MessageDone
  <2>2. c \in Seq(Event)
    BY BlocksSayNothing
  <2>3. GivesReason(d)
    <3> HIDE DEF k
    <3> QED
      BY Giving, Zenon
  <2>4. d \in Seq(Event)
    <3>1. k \in Word
      BY ReasonsAreWords DEF Locals
    <3> HIDE DEF k
    <3>2. "message delta" \in EventKind
      BY ClaudeKinds
    <3>3. 0 \in Int /\ \A x, y \in Event : <<x, y>> \in Seq(Event)
      OBVIOUS
    <3>4. Ev("message delta", k, 0) \in Event
      BY <3>1, <3>2, <3>3, TextIsEvent, Zenon
    <3>5. Ev("stop", "", 0) \in Event
      BY EventsAre, Zenon
    <3> QED
      BY <3>3, <3>4, <3>5, Zenon
  <2> HIDE DEF c, d
  <2> QED
    BY <2>1, <2>2, <2>3, <2>4, Giving
<1>3. ASSUME h = "claude to openai", ending = "" PROVE GivesReason(OnEOF(h, s).emit)
  <2>1. OnEOF(h, s).emit = ClaudeEndChunk(s)
    BY <1>3 DEF OnEOF, Stop
  <2> QED
    BY <2>1, EndChunkGives
<1>4. ASSUME h = "openai to claude" PROVE Says(OnEOF(h, s).emit, {}) /\ Says(OnBroken(h, s).emit, {})
  <2>1. OnEOF(h, s).emit = CloseBlock(s) \o <<Ev("stop", "", 0)>>
    BY <1>4 DEF OnEOF, Stop
  <2>2. OnBroken(h, s) = OnEOF(h, s) \/ OnBroken(h, s).emit = <<>>
    BY <1>4 DEF OnBroken, Stop
  <2>3. Says(<<>>, {})
    BY Uttering, Zenon
  <2> QED
    BY <2>1, <2>2, <2>3, CutMessageSays
<1> QED
  BY <1>1, <1>2, <1>3, <1>4

(* The events that give no reason.                                         *)
Plain == {e \in Event : e.e \notin {"finish", "message delta"}}

(* Rows of them.                                                           *)
LEMMA PlainRows ==
  /\ \A b \in Seq(Plain) : Says(b, {})
  /\ \A t \in EventKind \ {"finish", "message delta"}, k \in Word, i \in Int : Ev(t, k, i) \in Plain
  /\ <<>> \in Seq(Plain)
  /\ \A a, b \in Seq(Plain) : a \o b \in Seq(Plain)
  /\ \A a \in Plain : <<a>> \in Seq(Plain)
  /\ \A a, b \in Plain : <<a, b>> \in Seq(Plain)
  /\ \A a, b, c \in Plain : <<a, b, c>> \in Seq(Plain)
<1>1. ASSUME NEW b \in Seq(Plain) PROVE Says(b, {})
  <2>1. \A n \in DOMAIN b : b[n] \in Plain
    OBVIOUS
  <2> QED
    BY <2>1 DEF Plain, Says
<1>2. ASSUME NEW t \in EventKind \ {"finish", "message delta"}, NEW k \in Word, NEW i \in Int
      PROVE  Ev(t, k, i) \in Plain
  BY DEF Ev, Event, Plain
<1> HIDE DEF Plain
<1>3. <<>> \in Seq(Plain)
  OBVIOUS
<1>4. \A a, b \in Seq(Plain) : a \o b \in Seq(Plain)
  OBVIOUS
<1>5. \A a \in Plain : <<a>> \in Seq(Plain)
  OBVIOUS
<1>6. \A a, b \in Plain : <<a, b>> \in Seq(Plain)
  OBVIOUS
<1>7. \A a, b, c \in Plain : <<a, b, c>> \in Seq(Plain)
  OBVIOUS
<1> QED
  BY <1>1, <1>2, <1>3, <1>4, <1>5, <1>6, <1>7

(* A Claude client is told the reason by no line of an OpenAI stream.      *)
LEMMA ClaudeTellsLater ==
  ASSUME NEW s \in Locals, NEW l, UsageFacts("openai", l)
  PROVE  Says(OnLine("openai to claude", s, l).emit, {})
<1> DEFINE p == ClaudePart(s, l)
           m == MessageStart(s)
<1>1. OnLine("openai to claude", s, l).emit = m \o p.emit
  <2>1. OnLine("openai to claude", s, l) = ToClaude(s, l)
    BY DEF OnLine
  <2>2. ToClaude(s, l).emit = m \o p.emit
    BY DEF ToClaude, ClaudePart
  <2> QED
    BY <2>1, <2>2, Zenon
<1>2. p.emit \in Seq(Event) /\ Says(p.emit, {})
  BY ClaudePartReads
<1>3. m \in Seq(Event) /\ Says(m, {})
  BY BlocksSayNothing
<1> HIDE DEF p, m
<1>4. Says(m \o p.emit, {})
  BY <1>2, <1>3, SayingMore
<1> QED
  BY <1>1, <1>4

(* What frames an answer in Responses' protocol gives no reason.           *)
LEMMA FramesArePlain ==
  ASSUME NEW s \in Locals
  PROVE  TextDone(s) \in Seq(Plain) /\ ResponseCreated(s) \in Seq(Plain) /\ FinishItems(s) \in Seq(Plain)
<1> DEFINE i == s.index
<1>1. i \in Int /\ s.callAt \in Seq(Nat) /\ 0 \in Int
  <2>1. i \in Nat
    BY DEF Locals
  <2> QED
    BY <2>1 DEF Locals
<1> HIDE DEF i
<1>0. "" \in Word /\ "message" \in Word /\ "text" \in Word /\ "call" \in Word
  BY WordsTyped, Zenon
<1>2. TextDone(s) \in Seq(Plain)
  <2>1. \A t \in {"text done", "part done", "item done"} : t \in EventKind \ {"finish", "message delta"}
    BY DEF EventKind
  <2>2. Ev("text done", "", i) \in Plain /\ Ev("part done", "", i) \in Plain /\ Ev("item done", "message", i) \in Plain
    BY <1>0, <1>1, <2>1, PlainRows, Zenon
  <2>3. <<Ev("text done", "", i), Ev("part done", "", i), Ev("item done", "message", i)>> \in Seq(Plain)
    BY <2>2, PlainRows, Zenon
  <2>4. <<>> \in Seq(Plain)
    BY PlainRows, Zenon
  <2> QED
    BY <2>3, <2>4, Zenon DEF TextDone, i
<1>3. ResponseCreated(s) \in Seq(Plain)
  <2>1. \A t \in {"start", "item added", "part added"} : t \in EventKind \ {"finish", "message delta"}
    BY DEF EventKind
  <2>2. Ev("start", "", 0) \in Plain /\ Ev("item added", "message", 0) \in Plain /\ Ev("part added", "text", 0) \in Plain
    BY <1>0, <1>1, <2>1, PlainRows, Zenon
  <2>3. <<Ev("start", "", 0), Ev("item added", "message", 0), Ev("part added", "text", 0)>> \in Seq(Plain)
    BY <2>2, PlainRows, Zenon
  <2>4. <<>> \in Seq(Plain)
    BY PlainRows, Zenon
  <2> QED
    BY <2>3, <2>4, Zenon DEF ResponseCreated
<1>4. FinishItems(s) \in Seq(Plain)
  <2> DEFINE f == [n \in DOMAIN s.callAt |->
                    <<Ev("args done", "", s.callAt[n]), Ev("item done", "call", s.callAt[n])>>]
  <2>1. \A x \in Nat : <<Ev("args done", "", x), Ev("item done", "call", x)>> \in Seq(Plain)
    <3>1. \A t \in {"args done", "item done"} : t \in EventKind \ {"finish", "message delta"}
      BY DEF EventKind
    <3>2. \A x \in Nat : x \in Int
      OBVIOUS
    <3>3. \A x \in Nat : Ev("args done", "", x) \in Plain /\ Ev("item done", "call", x) \in Plain
      BY <1>0, <3>1, <3>2, PlainRows, Zenon
    <3> QED
      BY <3>3, PlainRows, Zenon
  <2>2. \A n \in DOMAIN s.callAt : s.callAt[n] \in Nat
    BY <1>1
  <2>3. \A n \in DOMAIN s.callAt :
           <<Ev("args done", "", s.callAt[n]), Ev("item done", "call", s.callAt[n])>> \in Seq(Plain)
    BY <2>1, <2>2
  <2>4. DOMAIN s.callAt = 1 .. Len(s.callAt) /\ Len(s.callAt) \in Nat
    BY <1>1
  <2>5. f \in [1 .. Len(s.callAt) -> Seq(Plain)]
    BY <2>3, <2>4
  <2> HIDE DEF f
  <2>6. f \in Seq(Seq(Plain))
    BY <2>4, <2>5
  <2>7. FlattenSeq(f) \in Seq(Plain)
    BY <2>6, FlattenTyped
  <2>8. FinishItems(s) = TextDone(s) \o FlattenSeq(f)
    BY DEF FinishItems, f
  <2> QED
    BY <1>2, <2>7, <2>8, PlainRows, Zenon
<1> QED
  BY <1>2, <1>3, <1>4

(* A Responses client is told no reason.                                   *)
LEMMA ResponsesTellNoReason ==
  ASSUME NEW s \in Locals, NEW l, l.t = "args" => s.callAt # <<>>
  PROVE  /\ Says(OnLine("openai to responses", s, l).emit, {})
         /\ \A h : h = "openai to responses" =>
              /\ Says(OnDone(h, s).emit, {}) /\ Says(OnEOF(h, s).emit, {}) /\ Says(OnBroken(h, s).emit, {})
              /\ Says(OnError(h, s).emit, {}) /\ Says(OnGone(h, s).emit, {})
<1> DEFINE p == ResponsePart(s, l)
           begun == [s EXCEPT !.started = TRUE]
<1>0. <<>> \in Seq(Plain)
  BY PlainRows, Zenon
<1>1. begun \in Locals
  BY MessageIsStarted
<1>2. \A k \in {"text", "think", "call", "args"}, i \in Nat : <<Ev("delta", k, i)>> \in Seq(Plain) /\ <<Ev("item added", k, i)>> \in Seq(Plain)
  <2>1. \A t \in {"delta", "item added"} : t \in EventKind \ {"finish", "message delta"}
    BY DEF EventKind
  <2>2. \A i \in Nat : i \in Int
    OBVIOUS
  <2>3. \A k \in {"text", "think", "call", "args"} : k \in Word
    BY DEF Word, Piece
  <2>4. \A k \in {"text", "think", "call", "args"}, i \in Nat : Ev("delta", k, i) \in Plain /\ Ev("item added", k, i) \in Plain
    BY <2>1, <2>2, <2>3, PlainRows, Zenon
  <2> QED
    BY <2>4, PlainRows, Zenon
<1>3. s.index \in Nat
  BY DEF Locals
<1>4. p.emit \in Seq(Plain)
  <2>1. CASE l.t \in {"text", "think"}
    <3>1. p.emit = <<Ev("delta", l.t, s.index)>>
      BY <2>1 DEF ResponsePart
    <3> QED
      BY <1>2, <1>3, <2>1, <3>1
  <2>2. CASE l.t = "call"
    <3> DEFINE i == IF begun.block = "text done" THEN begun.index ELSE begun.index + 1
    <3>1. p.emit = TextDone(begun) \o <<Ev("item added", "call", i)>>
      BY <2>2 DEF ResponsePart, FunctionCallAdded
    <3>2. i \in Nat
      <4> HIDE DEF begun
      <4>1. begun.index \in Nat
        BY <1>1 DEF Locals
      <4>2. begun.index + 1 \in Nat
        BY <4>1
      <4> QED
        BY <4>1, <4>2, Zenon
    <3>3. TextDone(begun) \in Seq(Plain)
      BY <1>1, FramesArePlain
    <3> HIDE DEF i, begun, p
    <3>4. <<Ev("item added", "call", i)>> \in Seq(Plain)
      BY <1>2, <3>2
    <3> QED
      BY <3>1, <3>3, <3>4, PlainRows, Zenon
  <2>3. CASE l.t = "args"
    <3>1. p.emit = <<Ev("delta", "args", Last(s.callAt))>>
      BY <2>3 DEF ResponsePart
    <3> QED
      BY <1>2, <2>3, <3>1, LastIsKnown
  <2>4. CASE l.t = "finish"
    <3>1. p.emit = FinishItems(s)
      BY <2>4 DEF ResponsePart
    <3> QED
      BY <3>1, FramesArePlain
  <2>5. CASE l.t \notin {"text", "think", "call", "args", "finish"}
    <3>1. p.emit = <<>>
      BY <2>5 DEF ResponsePart
    <3> QED
      BY <1>0, <3>1
  <2> QED
    BY <2>1, <2>2, <2>3, <2>4, <2>5
<1>5. Says(OnLine("openai to responses", s, l).emit, {})
  <2>1. OnLine("openai to responses", s, l).emit = ResponseCreated(s) \o p.emit
    <3>1. OnLine("openai to responses", s, l) = ToResponses(s, l)
      BY DEF OnLine
    <3>2. ToResponses(s, l).emit = ResponseCreated(s) \o p.emit
      BY DEF ToResponses, ResponsePart
    <3> QED
      BY <3>1, <3>2, Zenon
  <2>2. ResponseCreated(s) \in Seq(Plain)
    BY FramesArePlain
  <2> HIDE DEF p
  <2> QED
    BY <1>4, <2>1, <2>2, PlainRows, Zenon
<1>6. ASSUME NEW h, h = "openai to responses"
      PROVE  /\ Says(OnDone(h, s).emit, {}) /\ Says(OnEOF(h, s).emit, {}) /\ Says(OnBroken(h, s).emit, {})
             /\ Says(OnError(h, s).emit, {}) /\ Says(OnGone(h, s).emit, {})
  <2>1. Says(<<>>, {}) /\ Says(<<Ev("stop", "", 0)>>, {})
    BY Uttering, Zenon
  <2>2. OnDone(h, s).emit = <<Ev("stop", "", 0)>> /\ OnEOF(h, s) = OnDone(h, s)
    BY <1>6 DEF OnDone, OnEOF, Stop
  <2>3. OnBroken(h, s) = OnEOF(h, s) \/ OnBroken(h, s).emit = <<>>
    BY <1>6 DEF OnBroken, Stop
  <2>4. OnError(h, s).emit = <<>> /\ OnGone(h, s).emit = <<>>
    BY <1>6 DEF OnError, OnGone, GoOn, Stop
  <2> QED
    BY <2>1, <2>2, <2>3, <2>4
<1> QED
  BY <1>5, <1>6

(* What the events that a step adds give.                                  *)
LEMMA AddedGive ==
  ASSUME NEW m \in Seq(Event), NEW e \in Seq(Event), NEW a \in Seq(Event)
  PROVE  /\ GivesReason(m) \/ GivesReason(e) \/ GivesReason(a) => GivesReason(m \o (e \o a))
         /\ ~GivesReason(m) /\ Says(e, {}) /\ Says(a, {}) => ~GivesReason(m \o (e \o a))
<1>1. e \o a \in Seq(Event)
  OBVIOUS
<1>2. GivesReason(m) \/ GivesReason(e) \/ GivesReason(a) => GivesReason(m \o (e \o a))
  BY <1>1, Giving, Zenon
<1>3. ASSUME ~GivesReason(m), Says(e, {}), Says(a, {}) PROVE ~GivesReason(m \o (e \o a))
  <2>1. Says(m, {})
    BY <1>3, Giving, Zenon
  <2>2. Says(e \o a, {})
    BY <1>3, SayingMore
  <2>3. Says(m \o (e \o a), {})
    BY <1>1, <2>1, <2>2, SayingMore
  <2> QED
    BY <2>3, Giving, Zenon
<1> QED
  BY <1>2, <1>3

(* A line that is read gives the reason when its handler is to tell it.    *)
LEMMA TurnGives ==
  ASSUME TypeOK, CallIsKnown, ReasonIsTold, ret = "none", todo = <<>>,
         NEW l, LineFacts(Speaks[handler], l), UsageFacts(Speaks[handler], l), Spoken(l),
         NEW s, NEW e, NEW o, Turn(l, s, e, o), Handles(s, e, o)
  PROVE  ReasonIsTold'
<1>0. handler \in AllHandlers /\ st \in Locals /\ l.t \in LineKind /\ l.t \notin {"eof", "broken"}
  BY HandlerAssumption DEF TypeOK, LineFacts
<1>1. s \in Locals /\ e \in Seq(Event) /\ Outcome(o)
  BY TurnMakes
<1>2. /\ Made \in Seq(Event) /\ o.emit \in Seq(Event) /\ Made' = Made \o (e \o o.emit)
      /\ handler' = handler /\ st' = s /\ ret' = o.ret
      /\ ending' = (IF ending = "" THEN o.ending ELSE ending)
  BY <1>1, HandlesMake
<1>3. /\ GivesReason(Made) \/ GivesReason(e) \/ GivesReason(o.emit) => GivesReason(Made')
      /\ ~GivesReason(Made) /\ Says(e, {}) /\ Says(o.emit, {}) => ~GivesReason(Made')
  BY <1>1, <1>2, AddedGive
<1>4. /\ reason' = IF l.t = "finish" THEN l.reason ELSE reason
      /\ phase' = CASE l.t = "finish" -> "finished"
                    [] l.t \in {"done", "error"} -> "over"
                    [] OTHER -> phase
  BY <1>0 DEF Spoken
<1>5. \/ l.t = "done" /\ o = OnDone(handler, s) /\ s = st /\ LeavesAtDone
      \/ l.t = "done" /\ o = OnDone(handler, s) /\ ~LeavesAtDone /\ e = Reading(l).emit
      \/ l.t = "error" /\ o = OnError(handler, s) /\ e = Reading(l).emit
      \/ l.t \notin {"done", "error"} /\ o = GoOn /\ e = Reading(l).emit
  BY DEF Turn
<1>6. l.t # "junk" => Reading(l) = OnLine(handler, st, l)
  BY DEF Reading
<1>7. ASSUME HasTold' PROVE GivesReason(Made')
  <2>1. CASE handler \in {"claude native", "gemini native", "coze"}
    <3>1. reason' # ""
      BY <1>2, <1>7, <2>1 DEF HasTold
    <3>2. CASE reason # ""
      <4>1. HasTold
        BY <2>1, <3>2 DEF HasTold
      <4> QED
        BY <1>3, <4>1 DEF ReasonIsTold
    <3>3. CASE reason = ""
      <4>1. l.t = "finish"
        BY <1>4, <3>1, <3>3
      <4>2. e = OnLine(handler, st, l).emit
        BY <1>5, <1>6, <4>1
      <4>3. GivesReason(e)
        BY <1>0, <2>1, <4>1, <4>2, LinesGive
      <4> QED
        BY <1>3, <4>3
    <3> QED
      BY <3>2, <3>3
  <2>2. CASE handler = "responses to openai"
    <3>1. s.finish = "sent"
      BY <1>2, <1>7, <2>2 DEF HasTold
    <3> DEFINE x == [emit |-> e, s |-> s]
    <3>2. Reads(handler, st, l, x) /\ x.s = s
      BY <1>0, TurnReads
    <3>3. s.finish = IF l.t = "finish" /\ l.reason = "completed" THEN "sent" ELSE st.finish
      BY <2>2, <3>2 DEF Reads, ReasonRead
    <3>4. CASE st.finish = "sent"
      <4>1. HasTold
        BY <2>2, <3>4 DEF HasTold
      <4> QED
        BY <1>3, <4>1 DEF ReasonIsTold
    <3>5. CASE l.t = "finish" /\ l.reason = "completed"
      <4>1. e = OnLine(handler, st, l).emit
        BY <1>5, <1>6, <3>5
      <4>2. GivesReason(e)
        BY <1>0, <2>2, <3>5, <4>1, LinesGive
      <4> QED
        BY <1>3, <4>2
    <3> QED
      BY <3>1, <3>3, <3>4, <3>5
  <2>3. CASE handler = "claude to openai"
    <3>1. ending' = "done"
      BY <1>2, <1>7, <2>3 DEF HasTold
    <3>2. CASE ending = "done"
      <4>1. HasTold
        BY <2>3, <3>2 DEF HasTold
      <4> QED
        BY <1>3, <4>1 DEF ReasonIsTold
    <3>3. CASE ending # "done"
      <4>1. o.ending = "done"
        BY <1>2, <3>1, <3>3
      <4>2. OnError(handler, s).ending = "error" /\ GoOn.ending = ""
        BY <2>3 DEF OnError, Stop, GoOn
      <4>3. ~LeavesAtDone
        BY <2>3 DEF LeavesAtDone
      <4>4. l.t = "done" /\ e = Reading(l).emit
        BY <1>5, <4>1, <4>2, <4>3
      <4>5. GivesReason(e)
        BY <1>0, <1>6, <2>3, <4>4, LinesGive
      <4> QED
        BY <1>3, <4>5
    <3> QED
      BY <3>2, <3>3
  <2>4. CASE handler \in {"openai to gemini", "gemini to openai", "openai to claude"}
    <3>1. o.ret = "ok"
      BY <1>2, <1>7, <2>4 DEF HasTold
    <3>2. OnError(handler, s).ret # "ok" /\ GoOn.ret # "ok"
      BY <2>4 DEF OnError, Stop, GoOn
    <3>3. o = OnDone(handler, s)
      BY <1>5, <3>1, <3>2
    <3>4. GivesReason(o.emit)
      BY <1>1, <2>4, <3>3, EndsGive
    <3> QED
      BY <1>3, <3>4
  <2>5. CASE handler \in {"ollama", "dify"}
    <3>1. Answered'
      BY <1>2, <1>7, <2>5 DEF HasTold
    <3>2. CASE Answered
      <4>1. HasTold
        BY <2>5, <3>2 DEF HasTold
      <4> QED
        BY <1>3, <4>1 DEF ReasonIsTold
    <3>3. CASE ~Answered
      <4>1. Speaks[handler] \in {"ollama", "dify"}
        BY <2>5, Vocabulary
      <4>2. l.t # "finish"
        BY <4>1 DEF UsageFacts
      <4>3. reported \in Usage /\ l.usage \in Usage
        BY DEF TypeOK, LineFacts
      <4>4. l.usage.completion > 0
        <5>1. reported'.completion = IF l.usage.completion > 0 THEN l.usage.completion ELSE reported.completion
          BY <4>3, ReportsAre
        <5> QED
          BY <1>4, <3>1, <3>3, <4>2, <5>1 DEF Answered
      <4>5. l.t = "done"
        <5>1. l.usage # NoUsage
          BY <4>4, UsageFields
        <5>2. l.t # "open"
          BY <4>4 DEF UsageFacts
        <5> QED
          BY <4>1, <4>2, <5>1, <5>2 DEF UsageFacts
      <4>6. ~LeavesAtDone
        BY <2>5 DEF LeavesAtDone
      <4>7. e = OnLine(handler, st, l).emit
        BY <1>5, <1>6, <4>5, <4>6
      <4>8. GivesReason(e)
        BY <1>0, <2>5, <4>5, <4>7, LinesGive
      <4> QED
        BY <1>3, <4>8
    <3> QED
      BY <3>2, <3>3
  <2>6. handler # "openai to responses"
    BY <1>2, <1>7 DEF HasTold
  <2> QED
    BY <1>0, <2>1, <2>2, <2>3, <2>4, <2>5, <2>6 DEF AllHandlers
<1>8. ASSUME handler = "openai to responses" PROVE ~GivesReason(Made')
  <2>1. ~GivesReason(Made)
    BY <1>8 DEF ReasonIsTold, TellsNoReason
  <2>2. l.t = "args" => st.callAt # <<>>
    BY <1>8 DEF LineFacts, CallIsKnown
  <2>3. Says(<<>>, {})
    BY Uttering, Zenon
  <2>4. Says(OnLine(handler, st, l).emit, {})
    BY <1>0, <1>8, <2>2, ResponsesTellNoReason
  <2>5. Says(Reading(l).emit, {})
    BY <2>3, <2>4 DEF Reading
  <2>6. Says(e, {})
    BY <2>3, <2>5 DEF Turn
  <2>7. Says(o.emit, {})
    <3>1. Says(OnDone(handler, s).emit, {}) /\ Says(OnError(handler, s).emit, {})
      <4> DEFINE k == Line("eof", "", NoUsage)
      <4>1. k.t # "args"
        BY DEF Line
      <4> QED
        BY <1>1, <1>8, <4>1, ResponsesTellNoReason
    <3>2. GoOn.emit = <<>>
      BY DEF GoOn
    <3> QED
      BY <1>5, <2>3, <3>1, <3>2
  <2> QED
    BY <1>3, <2>1, <2>6, <2>7
<1>9. ASSUME handler = "openai to claude" PROVE phase' # "cut" /\ (ret' = "none" => ~GivesReason(Made') /\ phase' \in {"talking", "finished"})
  <2>1. ~GivesReason(Made) /\ phase \in {"talking", "finished"}
    BY <1>9 DEF ReasonIsTold
  <2>2. Speaks[handler] = "openai"
    BY <1>9, Vocabulary
  <2>3. l.t # "error"
    BY <2>2 DEF UsageFacts
  <2>4. phase' # "cut"
    BY <1>4, <2>1
  <2>5. ASSUME ret' = "none" PROVE ~GivesReason(Made') /\ phase' \in {"talking", "finished"}
    <3>1. OnDone(handler, s).ret = "ok"
      BY <1>9 DEF OnDone, Stop
    <3>2. l.t # "done" /\ o = GoOn /\ e = Reading(l).emit
      BY <1>2, <1>5, <2>3, <2>5, <3>1
    <3>3. phase' \in {"talking", "finished"}
      BY <1>4, <2>1, <2>3, <3>2
    <3>4. Says(<<>>, {})
      BY Uttering, Zenon
    <3>5. Says(OnLine(handler, st, l).emit, {})
      BY <1>0, <1>9, <2>2, ClaudeTellsLater
    <3>6. Says(e, {}) /\ Says(o.emit, {})
      BY <3>2, <3>4, <3>5 DEF Reading, GoOn
    <3> QED
      BY <1>3, <2>1, <3>3, <3>6
  <2> QED
    BY <2>4, <2>5
<1> QED
  BY <1>2, <1>7, <1>8, <1>9 DEF ReasonIsTold, TellsNoReason

(* So does a handler that comes to the end of the body.                    *)
LEMMA EndGives ==
  ASSUME TypeOK, ReasonIsTold, ret = "none", todo = <<>>, NEW l, l.t \in {"eof", "broken"}, Spoken(l),
         NEW o, o = (IF l.t = "eof" THEN OnEOF(handler, st) ELSE OnBroken(handler, st)),
         Outcome(o), o.ret # "none", Handles(st, <<>>, o), reported' = reported
  PROVE  ReasonIsTold'
<1>0. handler \in AllHandlers /\ st \in Locals /\ <<>> \in Seq(Event) /\ Says(<<>>, {})
  <2>1. <<>> \in Seq(Event) /\ Says(<<>>, {})
    BY NoEvents, Uttering, Zenon
  <2> QED
    BY <2>1, HandlerAssumption DEF TypeOK
<1>1. /\ Made \in Seq(Event) /\ o.emit \in Seq(Event) /\ Made' = Made \o (<<>> \o o.emit)
      /\ handler' = handler /\ st' = st /\ ret' = o.ret
      /\ ending' = (IF ending = "" THEN o.ending ELSE ending)
  BY <1>0, HandlesMake
<1>2. /\ GivesReason(Made) \/ GivesReason(o.emit) => GivesReason(Made')
      /\ ~GivesReason(Made) /\ Says(o.emit, {}) => ~GivesReason(Made')
  BY <1>0, <1>1, AddedGive
<1>3. reason' = reason /\ (phase \in {"talking", "finished"} => phase' = "cut")
  BY DEF Spoken
<1>4. Answered' = Answered
  BY <1>3 DEF Answered
<1>5. ASSUME HasTold' PROVE GivesReason(Made')
  <2>1. CASE handler \in {"claude native", "gemini native", "coze", "responses to openai", "ollama", "dify"}
    <3>1. HasTold
      BY <1>1, <1>3, <1>4, <1>5, <2>1 DEF HasTold
    <3> QED
      BY <1>2, <3>1 DEF ReasonIsTold
  <2>2. CASE handler = "claude to openai"
    <3>1. ending' = "done"
      BY <1>1, <1>5, <2>2 DEF HasTold
    <3>2. CASE ending = "done"
      <4>1. HasTold
        BY <2>2, <3>2 DEF HasTold
      <4> QED
        BY <1>2, <4>1 DEF ReasonIsTold
    <3>3. CASE ending # "done"
      <4>1. ending = "" /\ o.ending = "done"
        BY <1>1, <3>1, <3>3
      <4>2. OnBroken(handler, st) = OnEOF(handler, st) \/ OnBroken(handler, st).ending = "error"
        BY <2>2 DEF OnBroken, Stop
      <4>3. o = OnEOF(handler, st)
        BY <4>1, <4>2
      <4>4. GivesReason(o.emit)
        BY <1>0, <2>2, <4>1, <4>3, EndsGive
      <4> QED
        BY <1>2, <4>4
    <3> QED
      BY <3>2, <3>3
  <2>3. CASE handler \in {"openai to gemini", "gemini to openai"}
    <3>1. GivesReason(o.emit)
      BY <1>0, <2>3, EndsGive
    <3> QED
      BY <1>2, <3>1
  <2>4. handler # "openai to claude"
    <3>1. handler = "openai to claude" => phase' = "cut"
      BY <1>3 DEF ReasonIsTold
    <3> QED
      BY <1>1, <1>5, <3>1 DEF HasTold
  <2>5. handler # "openai to responses"
    BY <1>1, <1>5 DEF HasTold
  <2> QED
    BY <1>0, <2>1, <2>2, <2>3, <2>4, <2>5 DEF AllHandlers
<1>6. ASSUME handler \in {"openai to responses", "openai to claude"} PROVE ~GivesReason(Made')
  <2>1. ~GivesReason(Made)
    BY <1>6 DEF ReasonIsTold, TellsNoReason
  <2>2. Says(o.emit, {})
    <3>1. CASE handler = "openai to responses"
      <4> DEFINE k == Line("eof", "", NoUsage)
      <4>1. k.t # "args"
        BY DEF Line
      <4>2. Says(OnEOF(handler, st).emit, {}) /\ Says(OnBroken(handler, st).emit, {})
        BY <1>0, <3>1, <4>1, ResponsesTellNoReason
      <4> QED
        BY <4>2
    <3>2. CASE handler = "openai to claude"
      <4>1. Says(OnEOF(handler, st).emit, {}) /\ Says(OnBroken(handler, st).emit, {})
        BY <1>0, <3>2, EndsGive
      <4> QED
        BY <4>1
    <3> QED
      BY <1>6, <3>1, <3>2
  <2> QED
    BY <1>2, <2>1, <2>2
<1> QED
  BY <1>1, <1>5, <1>6 DEF ReasonIsTold, TellsNoReason

(* So does one that leaves because the client has.                         *)
LEMMA LeavingGives ==
  ASSUME TypeOK, ReasonIsTold, ret = "none", todo = <<>>, UNCHANGED upstream,
         NEW o, o = OnGone(handler, st), Outcome(o), o.ret # "none", Handles(st, <<>>, o)
  PROVE  ReasonIsTold'
<1>0. handler \in AllHandlers /\ st \in Locals /\ <<>> \in Seq(Event) /\ Says(<<>>, {})
  <2>1. <<>> \in Seq(Event) /\ Says(<<>>, {})
    BY NoEvents, Uttering, Zenon
  <2> QED
    BY <2>1, HandlerAssumption DEF TypeOK
<1>1. /\ Made \in Seq(Event) /\ o.emit \in Seq(Event) /\ Made' = Made \o (<<>> \o o.emit)
      /\ handler' = handler /\ st' = st /\ ret' = o.ret
      /\ ending' = (IF ending = "" THEN o.ending ELSE ending)
  BY <1>0, HandlesMake
<1>2. /\ GivesReason(Made) \/ GivesReason(o.emit) => GivesReason(Made')
      /\ ~GivesReason(Made) /\ Says(o.emit, {}) => ~GivesReason(Made')
  BY <1>0, <1>1, AddedGive
<1>3. reason' = reason /\ phase' = phase /\ reported' = reported
  BY DEF upstream
<1>4. Answered' = Answered
  BY <1>3 DEF Answered
<1>5. o.ending = "client_gone" /\ (handler \notin {"coze", "dify", "responses to openai"} => o.ret = "error" /\ o.emit = <<>>)
  BY DEF OnGone, Stop
<1>6. HasTold' => HasTold
  BY <1>1, <1>3, <1>4, <1>5 DEF HasTold
<1>7. handler \in {"openai to responses", "openai to claude"} => ~GivesReason(Made')
  <2>1. ASSUME handler \in {"openai to responses", "openai to claude"} PROVE ~GivesReason(Made')
    <3>1. ~GivesReason(Made)
      BY <2>1 DEF ReasonIsTold, TellsNoReason
    <3>2. Says(o.emit, {})
      BY <1>0, <1>5, <2>1
    <3> QED
      BY <1>2, <3>1, <3>2
  <2> QED
    BY <2>1
<1> QED
  BY <1>1, <1>2, <1>6, <1>7 DEF ReasonIsTold, TellsNoReason

(* A line that is read keeps the strengthened invariant.                    *)
LEMMA ReadLineKeepsEnd ==
  ASSUME ConverterInv, EndInv, ReadLine
  PROVE  EndInv'
<1>0. /\ TypeOK /\ CallIsKnown
      /\ UpstreamIsKnown /\ UsageIsKept /\ ReasonIsKept /\ PartsAreKept /\ ReasonIsSaid /\ ReasonIsTold
      /\ ReturnsTheBill
  BY DEF ConverterInv, EndInv
<1>1. /\ ret = "none" /\ todo = <<>> /\ phase # "over"
      /\ \E l \in Lines(Speaks[handler]) : \E s, e, o : Spoken(l) /\ Turn(l, s, e, o) /\ Handles(s, e, o)
  BY ReadLineIs
<1>2. PICK l \in Lines(Speaks[handler]) : \E s, e, o : Spoken(l) /\ Turn(l, s, e, o) /\ Handles(s, e, o)
  BY <1>1
<1>3. PICK s, e, o : Spoken(l) /\ Turn(l, s, e, o) /\ Handles(s, e, o)
  BY <1>2
<1>4. LineFacts(Speaks[handler], l) /\ UsageFacts(Speaks[handler], l)
  BY LinesAreSuch, LinesReport
<1>5. l.t \in LineKind /\ l.reason \in Word /\ l.usage \in Usage
  BY <1>4 DEF LineFacts
<1>6. /\ st' = s /\ handler' = handler /\ ret' = o.ret
      /\ billed' = (IF o.ret = "ok" THEN Bill(handler, s) ELSE billed)
  BY <1>3 DEF Handles
<1> DEFINE x == [emit |-> e, s |-> s]
<1>7. x.s = s
  OBVIOUS
<1>8. Reads(handler, st, l, x)
  BY <1>0, <1>3, <1>4, <1>5, TurnReads
<1> HIDE DEF x
<1>9. UpstreamIsKnown'
  BY <1>0, <1>3, <1>4, <1>5, <1>6, UpstreamGoesOn
<1>10. UsageIsKept'
  BY <1>0, <1>3, <1>4, <1>5, <1>6, <1>7, <1>8, UsageGoesOn DEF Reads
<1>11. Kept(handler', reason', st')
  <2>1. reason' = IF l.t = "finish" THEN l.reason ELSE reason
    BY <1>3 DEF Spoken
  <2>2. Kept(handler, reason, st)
    BY <1>0, ReasonIsKeptIs
  <2>3. Kept(handler, reason', x.s)
    BY <1>8, <2>1, <2>2, ReasonGoesOn DEF Reads
  <2> QED
    BY <1>6, <1>7, <2>3
<1>12. ReasonIsKept'
  BY <1>11 DEF ReasonIsKept, Kept
<1>13. PartsAreKept'
  BY <1>0, <1>3, <1>5, <1>6, <1>7, <1>8, PartsGoOn DEF Reads
<1>14. ReasonIsSaid'
  BY <1>0, <1>1, <1>3, <1>4, <1>11, TurnSays
<1>15. ReasonIsTold'
  BY <1>0, <1>1, <1>3, <1>4, TurnGives
<1>16. ReturnsTheBill'
  BY <1>6 DEF ReturnsTheBill
<1> QED
  BY <1>9, <1>10, <1>12, <1>13, <1>14, <1>15, <1>16 DEF EndInv

(* So does the end a handler comes to without a line.                      *)
LEMMA ReturnSays ==
  ASSUME TypeOK, ReasonIsKept, ReasonIsSaid, todo = <<>>,
         NEW o, Outcome(o), o.ret # "none", Handles(st, <<>>, o), reason' = reason,
         handler # "openai to responses" => Says(o.emit, EndWords(handler, st))
  PROVE  ReasonIsSaid' /\ ReasonIsKept' /\ ReturnsTheBill'
<1>1. st \in Locals /\ <<>> \in Seq(Event) /\ handler \in AllHandlers
  <2>1. <<>> \in Seq(Event)
    BY NoEvents, Zenon
  <2> QED
    BY <2>1, HandlerAssumption DEF TypeOK
<1>2. /\ Made \in Seq(Event) /\ o.emit \in Seq(Event) /\ Made' = Made \o (<<>> \o o.emit)
      /\ handler' = handler /\ st' = st /\ ret' = o.ret
  BY <1>1, HandlesMake
<1>3. Made' = Made \o o.emit
  BY <1>2, EmptyAdds
<1>4. ReasonIsKept'
  BY <1>2 DEF ReasonIsKept
<1>5. ReturnsTheBill'
  <2>1. billed' = (IF o.ret = "ok" THEN Bill(handler, st) ELSE billed)
    BY DEF Handles
  <2> QED
    BY <1>2, <2>1 DEF ReturnsTheBill
<1>6. ASSUME handler # "openai to responses" PROVE Says(Made', MaySay(handler, reason, st))
  <2>1. Kept(handler, reason, st)
    BY ReasonIsKeptIs
  <2>2. EndWords(handler, st) \subseteq MaySay(handler, reason, st)
    BY <1>1, <1>6, <2>1, KeptIsSaid
  <2>3. Says(o.emit, EndWords(handler, st)) /\ Says(Made, MaySay(handler, reason, st))
    BY <1>6 DEF ReasonIsSaid
  <2> DEFINE W == MaySay(handler, reason, st)
             a == o.emit
  <2>4. Says(a, W) /\ Says(Made, W) /\ a \in Seq(Event) /\ Made' = Made \o a
    BY <1>2, <1>3, <2>2, <2>3, Saying
  <2> HIDE DEF W, a
  <2>5. Says(Made', W)
    BY <1>2, <2>4, SayingMore
  <2> QED
    BY <2>5 DEF W
<1>7. ReasonIsSaid'
  BY <1>2, <1>6 DEF ReasonIsSaid
<1> QED
  BY <1>4, <1>5, <1>7

(* A line that is read after the client has left.                          *)
LEMMA ReadLineGoneKeepsEnd ==
  ASSUME ConverterInv, EndInv, ReadLineGone
  PROVE  EndInv'
<1>0. /\ TypeOK
      /\ UpstreamIsKnown /\ UsageIsKept /\ ReasonIsKept /\ PartsAreKept /\ ReasonIsSaid /\ ReasonIsTold
      /\ ReturnsTheBill
  BY DEF ConverterInv, EndInv
<1> DEFINE o == OnGone(handler, st)
<1>1. ret = "none" /\ todo = <<>> /\ Handles(st, <<>>, o) /\ UNCHANGED upstream
      /\ lines' = lines /\ phase' = phase /\ said' = said /\ reason' = reason /\ reported' = reported
  BY DEF ReadLineGone, Idle, upstream
<1>2. st \in Locals
  BY <1>0 DEF TypeOK
<1>3. Outcome(o) /\ o.ret # "none" /\ Says(o.emit, EndWords(handler, st))
  BY <1>2, GoneEnds, OtherEndsSay
<1>7. ReasonIsTold'
  BY <1>0, <1>1, <1>3, LeavingGives
<1> HIDE DEF o
<1>4. ReasonIsSaid' /\ ReasonIsKept' /\ ReturnsTheBill'
  BY <1>0, <1>1, <1>3, ReturnSays
<1>5. st' = st /\ handler' = handler
  BY <1>1 DEF Handles
<1>6. UpstreamIsKnown' /\ UsageIsKept' /\ PartsAreKept'
  BY <1>0, <1>1, <1>5 DEF UpstreamIsKnown, UsageIsKept, PartsAreKept
<1> QED
  BY <1>4, <1>6, <1>7 DEF EndInv

(* The end of the connection.                                              *)
LEMMA ReadEndKeepsEnd ==
  ASSUME ConverterInv, EndInv, ReadEnd
  PROVE  EndInv'
<1>0. /\ TypeOK
      /\ UpstreamIsKnown /\ UsageIsKept /\ ReasonIsKept /\ PartsAreKept /\ ReasonIsSaid /\ ReasonIsTold
      /\ ReturnsTheBill
  BY DEF ConverterInv, EndInv
<1>1. PICK l \in Ends : /\ Spoken(l)
                        /\ Handles(st, <<>>, IF l.t = "eof" THEN OnEOF(handler, st) ELSE OnBroken(handler, st))
  BY DEF ReadEnd
<1>2. ret = "none" /\ todo = <<>>
  BY DEF ReadEnd, Idle
<1>3. l.t \in {"eof", "broken"} /\ l.reason \in Word /\ l.usage \in Usage /\ l.usage = NoUsage
  <2>1. l.usage = NoUsage
    <3>1. \E t \in {"eof", "broken"} : l = Line(t, "", NoUsage)
      BY Zenon DEF Ends
    <3>2. PICK t \in {"eof", "broken"} : l = Line(t, "", NoUsage)
      BY <3>1
    <3> QED
      BY <3>2, LineIs, ZenonT(40)
  <2> QED
    BY <2>1, EndsAre
<1>4. st \in Locals /\ handler \in AllHandlers
  BY <1>0, HandlerAssumption DEF TypeOK
<1> DEFINE o == IF l.t = "eof" THEN OnEOF(handler, st) ELSE OnBroken(handler, st)
<1>5. Outcome(o) /\ o.ret # "none"
  BY <1>3, <1>4, EOFEnds, BrokenEnds
<1>6. handler # "openai to responses" => Says(o.emit, EndWords(handler, st))
  BY <1>4, EOFSays, BrokenSays
<1>7. Handles(st, <<>>, o)
  BY <1>1
<1> HIDE DEF o
<1>8. reason' = reason /\ said' = said /\ st' = st /\ handler' = handler
  <2>1. reason' = reason
    BY <1>1, <1>3 DEF Spoken
  <2>2. l.t \notin CanSay(Speaks[handler])
    BY <1>3 DEF CanSay
  <2>3. said' = said
    BY <1>1, <2>2 DEF Spoken
  <2>4. st' = st /\ handler' = handler
    BY <1>7 DEF Handles
  <2> QED
    BY <2>1, <2>3, <2>4
<1>9. ReasonIsSaid' /\ ReasonIsKept' /\ ReturnsTheBill'
  BY <1>0, <1>2, <1>5, <1>6, <1>7, <1>8, ReturnSays
<1>10. UpstreamIsKnown'
  <2>1. l.t \in LineKind
    BY <1>3 DEF LineKind
  <2> QED
    BY <1>0, <1>1, <1>3, <1>8, <2>1, UpstreamGoesOn
<1>11. reported' = reported
  <2>1. reported \in Usage
    BY <1>0 DEF TypeOK
  <2> QED
    BY <1>1, <1>3, <2>1, ReportsAre
<1>12. UsageIsKept' /\ PartsAreKept'
  BY <1>0, <1>8, <1>11 DEF UsageIsKept, PartsAreKept
<1>13. ReasonIsTold'
  BY <1>0, <1>1, <1>2, <1>3, <1>5, <1>7, <1>11, EndGives DEF o
<1> QED
  BY <1>9, <1>10, <1>12, <1>13 DEF EndInv

(* Writing an event, and a client that leaves, keep it.                    *)
LEMMA OthersKeepEnd ==
  ASSUME ConverterInv, EndInv, Write \/ ClientLeaves \/ UNCHANGED vars
  PROVE  EndInv'
<1>0. /\ TypeOK
      /\ UpstreamIsKnown /\ UsageIsKept /\ ReasonIsKept /\ PartsAreKept /\ ReasonIsSaid /\ ReasonIsTold
      /\ ReturnsTheBill
  BY DEF ConverterInv, EndInv
<1>1. /\ handler' = handler /\ lines' = lines /\ phase' = phase /\ said' = said /\ reason' = reason
      /\ reported' = reported /\ st' = st /\ ending' = ending /\ ret' = ret /\ billed' = billed
  BY DEF Write, ClientLeaves, vars
<1>2. Made' = Made
  <2>1. Write => Made' = Made
    BY <1>0, WriteIs
  <2>2. ClientLeaves \/ UNCHANGED vars => Made' = Made
    BY DEF ClientLeaves, vars, Made
  <2> QED
    BY <2>1, <2>2
<1>3. UpstreamIsKnown' /\ UsageIsKept' /\ ReasonIsKept' /\ PartsAreKept' /\ ReturnsTheBill'
  BY <1>0, <1>1, ZenonT(40) DEF UpstreamIsKnown, UsageIsKept, ReasonIsKept, PartsAreKept, ReturnsTheBill
<1>4. ReasonIsSaid'
  BY <1>0, <1>1, <1>2 DEF ReasonIsSaid
<1>5. ReasonIsTold'
  <2>1. (HasTold' <=> HasTold) /\ (TellsNoReason' <=> TellsNoReason)
    BY <1>1 DEF HasTold, TellsNoReason, Answered
  <2> QED
    BY <1>0, <1>1, <1>2, <2>1 DEF ReasonIsTold
<1> QED
  BY <1>3, <1>4, <1>5 DEF EndInv

(* At the beginning nothing is said, reported or kept.                     *)
LEMMA NothingSaid ==
  ASSUME Init
  PROVE  EndInv
<1>1. /\ lines = 0 /\ phase = "talking" /\ said = <<>> /\ reason = "" /\ reported = NoUsage
      /\ st = Fresh /\ todo = <<>> /\ out = <<>> /\ ret = "none"
  BY DEF Init
<1>2. st.finish = "" /\ st.usage = NoUsage /\ st.callAt = <<>> /\ st.text = FALSE
  BY <1>1 DEF Fresh
<1>3. UpstreamIsKnown
  <2>1. ~(reported.completion > 0)
    <3>1. reported.completion = 0
      BY <1>1, UsageFields, Zenon
    <3> QED
      BY <3>1
  <2>2. reason \in Reasons(Speaks[handler]) \cup {""}
    BY <1>1, Zenon
  <2> QED
    BY <1>1, <2>1, <2>2, Zenon DEF UpstreamIsKnown
<1>4. UsageIsKept
  BY <1>1, <1>2 DEF UsageIsKept
<1>5. ReasonIsKept
  <2>1. ClaudeStopReasonToOpenAI("") = "" /\ GeminiFinishReasonToOpenAI("") = ""
    BY DEF ClaudeStopReasonToOpenAI, GeminiFinishReasonToOpenAI
  <2> QED
    BY <1>1, <1>2, <2>1 DEF ReasonIsKept
<1>6. PartsAreKept
  <2>1. \A p : p \notin Kinds(<<>>)
    BY DEF Kinds, ToSet
  <2> QED
    BY <1>1, <1>2, <2>1 DEF PartsAreKept
<1>7. Made = <<>>
  <2>1. <<>> \o <<>> = <<>>
    BY NoEvents, EmptyAdds, Zenon
  <2> QED
    BY <1>1, <2>1 DEF Made
<1>8. ReasonIsSaid
  <2>1. \A W : Says(<<>>, W)
    BY Uttering, Zenon
  <2> QED
    BY <1>7, <2>1 DEF ReasonIsSaid
<1>9. ReasonIsTold
  <2>1. ~GivesReason(Made)
    <3>1. Says(<<>>, {})
      BY Uttering, Zenon
    <3>2. ~GivesReason(<<>>)
      BY <3>1, Giving, Zenon
    <3> QED
      BY <1>7, <3>2
  <2>2. reported.completion = 0
    BY <1>1, UsageFields, Zenon
  <2>3. ~Answered
    <3>1. ~(reported.completion > 0)
      BY <2>2
    <3> QED
      BY <1>1, <3>1, Zenon DEF Answered
  <2>4. ending = ""
    BY DEF Init
  <2>5. ~HasTold
    BY <1>1, <1>2, <2>3, <2>4 DEF HasTold
  <2> QED
    BY <1>1, <2>1, <2>5 DEF ReasonIsTold
<1>10. ReturnsTheBill
  BY <1>1 DEF ReturnsTheBill
<1> QED
  BY <1>3, <1>4, <1>5, <1>6, <1>8, <1>9, <1>10 DEF EndInv

(* What a handler knows of the end of an answer, after every step.          *)
THEOREM EndInvariant == Spec => []EndInv
<1>1. Init => EndInv
  BY NothingSaid
<1>2. ConverterInv /\ EndInv /\ [Next]_vars => EndInv'
  BY ReadLineKeepsEnd, ReadLineGoneKeepsEnd, ReadEndKeepsEnd, OthersKeepEnd DEF Next
<1> QED
  BY <1>1, <1>2, ConverterInvariant, PTL DEF Spec

(* What an answer costs, streamed or whole.                                *)
AnyPrice == [hit : Nat, miss : Nat, output : Nat]

(* Integer division by 1000 loses less than 1000. *)
LEMMA Division ==
    ASSUME NEW x \in Nat
    PROVE  /\ x \div 1000 \in Nat
           /\ 1000 * (x \div 1000) <= x
           /\ x < 1000 * (x \div 1000) + 1000
  BY SMT

(* A product grows with its factors. *)
LEMMA ProductMonotone ==
    ASSUME NEW a \in Nat, NEW b \in Nat, NEW c \in Nat, a <= b
    PROVE  c * a \in Nat /\ c * a <= c * b
  BY SMT

(* Where Per1K answers 0 by itself, the quotient is 0, too. *)
LEMMA Per1KIsQuotient ==
    ASSUME NEW price \in Nat, NEW tokens \in Nat
    PROVE  price * tokens \in Nat /\ Per1K(price, tokens) = (price * tokens) \div 1000
  <1>1. price * tokens \in Nat  BY SMT
  <1>2. CASE price > 0 /\ tokens > 0  BY <1>1, <1>2 DEF Per1K
  <1>3. CASE ~(price > 0 /\ tokens > 0)
    <2>1. price * tokens = 0  BY <1>3, SMT
    <2>2. QED  BY <1>1, <1>3, <2>1, SMT DEF Per1K
  <1>4. QED  BY <1>2, <1>3

(* A usage that has lost its cached tokens, as some streams do, never      *)
(* costs less than the full one, if a cached token costs no more than      *)
(* another (handler.go:745).                                               *)
THEOREM ForgettingCacheNeverSaves ==
    ASSUME NEW usage \in Usage, NEW price \in AnyPrice, price.hit <= price.miss
    PROVE  /\ ComputeCost(usage, price) \in Nat
           /\ ComputeCost(usage, price) <= ComputeCost([usage EXCEPT !.cached = 0], price)
  <1> DEFINE c == CacheHitTokens(usage)
             rest == usage.prompt - c
             bare == [usage EXCEPT !.cached = 0]
  <1>1. /\ usage.prompt \in Nat /\ usage.completion \in Nat /\ usage.cached \in Nat
        /\ price.hit \in Nat /\ price.miss \in Nat /\ price.output \in Nat
    BY DEF Usage, AnyPrice
  <1>2. c \in Nat /\ rest \in Nat /\ usage.prompt = c + rest
    BY <1>1, SMT DEF CacheHitTokens
  <1>3. bare.prompt = usage.prompt /\ bare.completion = usage.completion /\ CacheHitTokens(bare) = 0
    BY <1>1, SMT DEF Usage, CacheHitTokens
  <1> HIDE DEF c, rest, bare
  <1>4. price.hit * c <= price.miss * c
    <2>1. c * price.hit <= c * price.miss
      BY <1>1, <1>2, ProductMonotone
    <2>2. QED  BY <1>1, <1>2, <2>1, SMT
  <1>5. price.miss * usage.prompt = price.miss * c + price.miss * rest
    BY <1>1, <1>2, SMT
  <1>6. /\ price.hit * c \in Nat /\ Per1K(price.hit, c) = (price.hit * c) \div 1000
        /\ price.miss * rest \in Nat /\ Per1K(price.miss, rest) = (price.miss * rest) \div 1000
        /\ price.miss * usage.prompt \in Nat
        /\ Per1K(price.miss, usage.prompt) = (price.miss * usage.prompt) \div 1000
        /\ Per1K(price.hit, 0) = 0
    BY <1>1, <1>2, Per1KIsQuotient, SMT DEF Per1K
  <1>7. /\ price.miss * c \in Nat
        /\ (price.hit * c) \div 1000 + (price.miss * rest) \div 1000
             <= (price.miss * usage.prompt) \div 1000
    <2>1. price.miss * c \in Nat  BY <1>1, <1>2, SMT
    <2> DEFINE x == price.hit * c  y == price.miss * rest  z == price.miss * usage.prompt
    <2>2. x \in Nat /\ y \in Nat /\ z \in Nat /\ x + y <= z
      BY <1>4, <1>5, <1>6, <2>1, SMT
    <2> HIDE DEF x, y, z
    <2>3. (x \div 1000) + (y \div 1000) <= z \div 1000
      BY <2>2, SMT
    <2>4. QED  BY <2>1, <2>3 DEF x, y, z
  <1>8. ComputeCost(usage, price) =
          Per1K(price.hit, c) + Per1K(price.miss, rest) + Per1K(price.output, usage.completion)
    BY DEF ComputeCost, c, rest
  <1>9. ComputeCost(bare, price) =
          Per1K(price.hit, 0) + Per1K(price.miss, usage.prompt) + Per1K(price.output, usage.completion)
    <2>1. bare.prompt - CacheHitTokens(bare) = usage.prompt  BY <1>1, <1>3, SMT
    <2>2. QED  BY <1>3, <2>1 DEF ComputeCost
  <1>10. Per1K(price.output, usage.completion) \in Nat
    <2>1. /\ price.output * usage.completion \in Nat
          /\ Per1K(price.output, usage.completion) = (price.output * usage.completion) \div 1000
      BY <1>1, Per1KIsQuotient, SMT DEF Per1K
    <2>2. QED  BY <2>1, Division
  <1>11. /\ (price.hit * c) \div 1000 \in Nat /\ (price.miss * rest) \div 1000 \in Nat
         /\ (price.miss * usage.prompt) \div 1000 \in Nat
    BY <1>6, Division
  <1>12. ComputeCost(usage, price) \in Nat /\ ComputeCost(usage, price) <= ComputeCost(bare, price)
    BY <1>6, <1>7, <1>8, <1>9, <1>10, <1>11, SMT
  <1>13. QED  BY <1>12 DEF bare

(* What the client was told of the end, when everything is written.        *)
LEMMA FinishesAreSaid ==
  ASSUME TypeOK, ReasonIsSaid, todo = <<>>, handler # "openai to responses"
  PROVE  Finishes \subseteq MaySay(handler, reason, st)
<1>1. Made = out
  <2>1. out \in Seq(Event)
    BY DEF TypeOK
  <2> QED
    BY <2>1, EmptyAdds DEF Made
<1>2. Says(out, MaySay(handler, reason, st))
  BY <1>1 DEF ReasonIsSaid
<1> QED
  BY <1>2 DEF Says, Finishes

(* The bill of an answer with a reported usage.                            *)
LEMMA BillIsReported ==
  ASSUME TypeOK, UpstreamIsKnown, UsageIsKept, ReturnsTheBill, ret = "ok", reason # "incomplete",
         reported.completion > 0
  PROVE  /\ handler # "coze" /\ billed \in Usage /\ reported \in Usage
         /\ billed.prompt = reported.prompt /\ billed.completion = reported.completion
         /\ billed.cached \in {0, reported.cached}
         /\ handler = "openai to responses" => billed.cached = 0
<1>1. handler \in AllHandlers /\ st \in Locals /\ billed \in Usage /\ reported \in Usage
  BY HandlerAssumption DEF TypeOK
<1>2. st.usage \in Usage
  BY <1>1 DEF Locals
<1>3. /\ st.usage.prompt = reported.prompt /\ st.usage.completion = reported.completion
      /\ st.usage.cached \in {0, reported.cached}
  BY DEF UsageIsKept
<1>4. billed = Bill(handler, st)
  BY DEF ReturnsTheBill
<1>5. handler # "coze"
  <2>1. handler = "coze" => reported = NoUsage
    BY DEF UpstreamIsKnown
  <2> QED
    BY <2>1, UsageFields
<1>6. CASE handler = "openai to claude"
  <2>1. billed = [st.usage EXCEPT !.cached = 0]
    BY <1>4, <1>6 DEF Bill, ClaudeInboundUsage
  <2>2. billed.prompt = st.usage.prompt /\ billed.completion = st.usage.completion /\ billed.cached = 0
    BY <1>2, <2>1 DEF Usage
  <2> QED
    BY <1>1, <1>3, <1>5, <1>6, <2>2
<1>7. CASE handler = "openai to responses"
  <2>1. billed = [prompt |-> st.usage.prompt, cached |-> 0,
                  completion |-> IF st.usage.completion = 0 THEN st.words ELSE st.usage.completion]
    BY <1>4, <1>7 DEF Bill, ResponsesUsage
  <2>2. billed.prompt = st.usage.prompt /\ billed.completion = st.usage.completion /\ billed.cached = 0
    BY <1>3, <2>1
  <2> QED
    BY <1>1, <1>3, <1>5, <2>2
<1>8. CASE handler = "responses to openai"
  <2>1. st.usage # NoUsage
    BY <1>3, UsageFields
  <2>2. billed = st.usage
    BY <1>4, <1>8, <2>1 DEF Bill, ChatUsage
  <2> QED
    BY <1>1, <1>3, <1>5, <1>8, <2>2
<1>9. CASE handler \notin {"openai to claude", "openai to responses", "responses to openai"}
  <2>1. billed = st.usage
    BY <1>4, <1>5, <1>9 DEF Bill
  <2> QED
    BY <1>1, <1>3, <1>5, <1>9, <2>1
<1> QED
  BY <1>6, <1>7, <1>8, <1>9

(* The reason of each protocol, and the words its handlers have for it.     *)
LEMMA WordsMeanTheReason ==
  ASSUME NEW h \in AllHandlers, h # "openai to responses", NEW r \in Reasons(Speaks[h]), r # "incomplete",
         NEW s, NEW w \in MaySay(h, r, s)
  PROVE  \/ Meaning(w) = Meaning(r)
         \/ h = "openai to gemini" /\ r = "tool_calls" /\ w = "STOP"
         \/ h \in {"coze", "dify", "ollama"} /\ w = "stop"
         \/ r = "completed" /\ w \in {"stop", "tool_calls"}
<1>1. CASE h = "openai to claude"
  <2>1. Reasons("openai") = {"stop", "length", "tool_calls", "content_filter"} /\ Speaks[h] = "openai"
    BY <1>1, Vocabulary DEF Reasons
  <2>2. w = OpenAIFinishReasonToClaude(r)
    BY <1>1 DEF MaySay
  <2>3. r \in {"stop", "length", "tool_calls", "content_filter"}
    BY <2>1
  <2> QED
    BY <2>2, <2>3 DEF OpenAIFinishReasonToClaude, Meaning
<1>2. CASE h = "openai to gemini"
  <2>1. Reasons("openai") = {"stop", "length", "tool_calls", "content_filter"} /\ Speaks[h] = "openai"
    BY <1>2, Vocabulary DEF Reasons
  <2>2. w = OpenAIFinishReasonToGemini(r)
    BY <1>2 DEF MaySay
  <2>3. r \in {"stop", "length", "tool_calls", "content_filter"}
    BY <2>1
  <2> QED
    BY <1>2, <2>2, <2>3 DEF OpenAIFinishReasonToGemini, Meaning
<1>3. CASE h = "responses to openai"
  <2>1. Reasons("responses") = {"completed", "incomplete"} /\ Speaks[h] = "responses"
    BY <1>3, Vocabulary DEF Reasons
  <2>2. r = "completed"
    BY <2>1
  <2> QED
    BY <1>3, <2>2 DEF MaySay
<1>4. CASE h = "claude to openai"
  <2>1. Reasons("claude") = {"end_turn", "max_tokens", "tool_use", "refusal"} /\ Speaks[h] = "claude"
    BY <1>4, Vocabulary DEF Reasons
  <2>2. w = Stopped(ClaudeStopReasonToOpenAI(r))
    BY <1>4 DEF MaySay
  <2>3. r \in {"end_turn", "max_tokens", "tool_use", "refusal"}
    BY <2>1
  <2> QED
    BY <2>2, <2>3 DEF Stopped, ClaudeStopReasonToOpenAI, Meaning
<1>5. CASE h = "gemini to openai"
  <2>1. Reasons("gemini") = {"STOP", "MAX_TOKENS", "SAFETY", "MALFORMED_FUNCTION_CALL"} /\ Speaks[h] = "gemini"
    BY <1>5, Vocabulary DEF Reasons
  <2>2. w = Stopped(GeminiFinishReasonToOpenAI(r))
    BY <1>5 DEF MaySay
  <2>3. r \in {"STOP", "MAX_TOKENS", "SAFETY", "MALFORMED_FUNCTION_CALL"}
    BY <2>1
  <2> QED
    BY <2>2, <2>3 DEF Stopped, GeminiFinishReasonToOpenAI, Meaning
<1>6. CASE h \in {"claude native", "gemini native"}
  <2>1. w = r
    BY <1>6 DEF MaySay
  <2> QED
    BY <2>1
<1>7. CASE h \in {"ollama", "coze", "dify"}
  <2>1. w = "stop"
    BY <1>7 DEF MaySay
  <2> QED
    BY <1>7, <2>1
<1> QED
  BY <1>1, <1>2, <1>3, <1>4, <1>5, <1>6, <1>7 DEF AllHandlers

(* A client is told the reason, or none where the handler tells none.      *)
LEMMA AnsweredAreTold ==
  ASSUME TypeOK, ReasonIsKept, UpstreamIsKnown, ReasonIsTold, todo = <<>>, ret = "ok", ending = "done",
         reason # "incomplete", Answered
  PROVE  Finishes = {} <=> TellsNoReason
<1>0. handler \in AllHandlers
  BY HandlerAssumption DEF TypeOK
<1>1. Made = out
  <2>1. out \in Seq(Event)
    BY DEF TypeOK
  <2> QED
    BY <2>1, EmptyAdds DEF Made
<1>2. GivesReason(Made) <=> Finishes # {}
  BY <1>1 DEF GivesReason, Finishes
<1>3. TellsNoReason => ~GivesReason(Made)
  BY DEF ReasonIsTold
<1>4. ASSUME ~TellsNoReason PROVE HasTold
  <2>1. CASE handler = "coze"
    <3>1. ~(reported.completion > 0)
      <4>1. reported = NoUsage
        BY <2>1 DEF UpstreamIsKnown
      <4> QED
        BY <4>1, UsageFields
    <3> QED
      BY <2>1, <3>1, Zenon DEF HasTold, Answered
  <2>2. ASSUME handler \in {"claude native", "gemini native", "responses to openai"}
        PROVE  reason # "" /\ reason \in Reasons(Speaks[handler])
    <3>1. Speaks[handler] \in {"claude", "gemini", "responses"}
      BY <2>2, Vocabulary
    <3>2. reason # ""
      BY <3>1, ZenonT(40) DEF UpstreamIsKnown, Answered
    <3> QED
      BY <3>2 DEF UpstreamIsKnown
  <2>3. CASE handler \in {"claude native", "gemini native"}
    BY <2>2, <2>3 DEF HasTold
  <2>4. CASE handler = "responses to openai"
    <3>1. Reasons(Speaks[handler]) = {"completed", "incomplete"}
      BY <2>4, Vocabulary DEF Reasons
    <3>2. reason = "completed"
      BY <2>2, <2>4, <3>1
    <3> QED
      BY <2>4, <3>2 DEF ReasonIsKept, HasTold
  <2>5. CASE handler \in {"claude to openai", "openai to gemini", "gemini to openai", "ollama", "dify"}
    BY <2>5 DEF HasTold
  <2>6. CASE handler = "openai to claude"
    BY <1>4, <2>6 DEF HasTold, TellsNoReason
  <2>7. handler # "openai to responses"
    BY <1>4 DEF TellsNoReason
  <2> QED
    BY <1>0, <2>1, <2>3, <2>4, <2>5, <2>6, <2>7 DEF AllHandlers
<1>5. ~TellsNoReason => GivesReason(Made)
  BY <1>4 DEF ReasonIsTold
<1> QED
  BY <1>2, <1>3, <1>5

(* A stream that returns without an error is billed with what the upstream  *)
(* reported, and its client was told why it ended, or nothing where the    *)
(* handler has no word for it (TellsNoReason).                             *)
THEOREM AnswersEndAsReported == Spec => []EndsAsReported
<1>1. ConverterInv /\ EndInv => EndsAsReported
  <2> SUFFICES ASSUME ConverterInv, EndInv, Returned, ret = "ok", ending = "done", reason # "incomplete"
               PROVE  /\ reported.completion > 0 =>
                            billed.prompt = reported.prompt /\ billed.completion = reported.completion
                      /\ Answered => (Finishes = {} <=> TellsNoReason)
                      /\ reason # "" => \A r \in Finishes :
                            \/ Meaning(r) = Meaning(reason)
                            \/ handler = "openai to gemini" /\ reason = "tool_calls" /\ r = "STOP"
                            \/ handler \in {"coze", "dify", "ollama"} /\ r = "stop"
                            \/ reason = "completed" /\ r \in {"stop", "tool_calls"}
    BY DEF EndsAsReported
  <2>1. /\ TypeOK /\ UpstreamIsKnown /\ UsageIsKept /\ ReasonIsKept /\ ReasonIsSaid /\ ReasonIsTold
        /\ ReturnsTheBill /\ todo = <<>>
    BY DEF ConverterInv, EndInv, Returned
  <2>2. ASSUME reported.completion > 0
        PROVE  billed.prompt = reported.prompt /\ billed.completion = reported.completion
    BY <2>1, <2>2, BillIsReported
  <2>3. Answered => (Finishes = {} <=> TellsNoReason)
    BY <2>1, AnsweredAreTold
  <2>4. ASSUME reason # "", NEW r \in Finishes
        PROVE  \/ Meaning(r) = Meaning(reason)
               \/ handler = "openai to gemini" /\ reason = "tool_calls" /\ r = "STOP"
               \/ handler \in {"coze", "dify", "ollama"} /\ r = "stop"
               \/ reason = "completed" /\ r \in {"stop", "tool_calls"}
    <3>1. handler \in AllHandlers
      BY <2>1, HandlerAssumption DEF TypeOK
    <3>2. handler # "openai to responses"
      <4>1. Answered
        BY <2>4, Zenon DEF Answered
      <4> QED
        BY <2>3, <2>4, <4>1 DEF TellsNoReason
    <3>3. r \in MaySay(handler, reason, st)
      BY <2>1, <2>4, <3>2, FinishesAreSaid
    <3>4. reason \in Reasons(Speaks[handler])
      BY <2>1, <2>4 DEF UpstreamIsKnown
    <3> QED
      BY <2>4, <3>1, <3>2, <3>3, <3>4, WordsMeanTheReason
  <2> QED
    BY <2>2, <2>3, <2>4
<1> QED
  BY <1>1, ConverterInvariant, EndInvariant, PTL

(* The fields of an answer given whole.                                    *)
LEMMA MessageIs ==
  \A k, f, u : Message(k, f, u).kinds = k /\ Message(k, f, u).finish = f /\ Message(k, f, u).usage = u
BY DEF Message

(* The kinds of content that only a stream or only a whole answer carries, *)
(* and the usage that a whole answer is billed with.                       *)
Lost(h) == IF h \in {"openai to responses", "responses to openai"} THEN {"think"} ELSE {}
Charged(h, u) ==
    IF h = "openai to responses" THEN [u EXCEPT !.cached = 0] ELSE IF h = "coze" THEN NoUsage ELSE u

(* What a whole answer is, by handler.                                     *)
LEMMA WholeOf ==
  ASSUME NEW s, NEW r, NEW u
  PROVE  /\ Whole("openai to claude", s, r, u) = WholeToClaude(s, r, u)
         /\ Whole("openai to gemini", s, r, u) = WholeToGemini(s, r, u)
         /\ Whole("openai to responses", s, r, u) = WholeToResponses(s, r, u)
         /\ Whole("responses to openai", s, r, u) = ResponsesResponseToChatCompletions(s, r, u)
         /\ Whole("claude to openai", s, r, u) = WholeClaudeToOpenAI(s, r, u)
         /\ Whole("gemini to openai", s, r, u) = WholeGeminiToOpenAI(s, r, u)
         /\ \A h \in {"claude native", "gemini native"} : Whole(h, s, r, u) = WholeNative(s, r, u)
         /\ Whole("ollama", s, r, u) = WholeOllama(s, r, u)
         /\ Whole("coze", s, r, u) = WholeCoze(s, r, u)
         /\ Whole("dify", s, r, u) = WholeDify(s, r, u)
BY DEF Whole

(* A whole answer of a reported usage: the kinds said, and the usage as    *)
(* reported but for the cached tokens of a Responses client.               *)
LEMMA WholeIs ==
  ASSUME NEW h \in AllHandlers, NEW s, NEW r, NEW u, h # "coze" => u # NoUsage
  PROVE  /\ Whole(h, s, r, u).kinds = Kinds(s) \ Lost(h)
         /\ Whole(h, s, r, u).usage = Charged(h, u)
<1> DEFINE plain == Kinds(s)
           spoken == Kinds(s) \ {"think"}
<1>0. plain \ {} = plain
  OBVIOUS
<1>1. CASE h \notin {"openai to responses", "responses to openai", "coze"}
  <2>1. Lost(h) = {}
    BY <1>1 DEF Lost
  <2>2. PICK f : Whole(h, s, r, u) = Message(plain, f, u)
    <3>1. CASE h = "openai to claude"
      BY <3>1, WholeOf, ZenonT(40) DEF WholeToClaude
    <3>2. CASE h = "openai to gemini"
      BY <3>2, WholeOf, ZenonT(40) DEF WholeToGemini
    <3>3. CASE h = "claude to openai"
      BY <3>3, WholeOf, ZenonT(40) DEF WholeClaudeToOpenAI
    <3>4. CASE h = "gemini to openai"
      BY <3>4, WholeOf, ZenonT(40) DEF WholeGeminiToOpenAI
    <3>5. CASE h = "claude native"
      BY <3>5, WholeOf, ZenonT(40) DEF WholeNative
    <3>6. CASE h = "gemini native"
      BY <3>6, WholeOf, ZenonT(40) DEF WholeNative
    <3>7. CASE h = "ollama"
      BY <3>7, WholeOf, Zenon DEF WholeOllama
    <3>8. CASE h = "dify"
      <4>1. Whole(h, s, r, u) = WholeDify(s, r, u)
        BY <3>8, WholeOf, Zenon
      <4>2. (IF u = NoUsage THEN [NoUsage EXCEPT !.completion = Len(s)] ELSE u) = u
        BY <3>8
      <4> QED
        BY <4>1, <4>2, Zenon DEF WholeDify
    <3> QED
      BY <1>1, <3>1, <3>2, <3>3, <3>4, <3>5, <3>6, <3>7, <3>8 DEF AllHandlers
  <2> HIDE DEF plain
  <2>3. Whole(h, s, r, u).kinds = plain /\ Whole(h, s, r, u).usage = u
    BY <2>2 DEF Message
  <2> QED
    BY <1>0, <1>1, <2>1, <2>3 DEF plain, Charged
<1>2. CASE h = "openai to responses"
  <2>1. Whole(h, s, r, u) = Message(spoken, "completed", [u EXCEPT !.cached = 0])
    BY <1>2, WholeOf, Zenon DEF WholeToResponses
  <2> HIDE DEF spoken
  <2>2. Whole(h, s, r, u).kinds = spoken /\ Whole(h, s, r, u).usage = [u EXCEPT !.cached = 0]
    BY <2>1 DEF Message
  <2> QED
    BY <1>2, <2>2 DEF spoken, Lost, Charged
<1>3. CASE h = "responses to openai"
  <2>1. PICK f : Whole(h, s, r, u) = Message(spoken, f, u)
    <3>1. Whole(h, s, r, u) = ResponsesResponseToChatCompletions(s, r, u)
      BY <1>3, WholeOf, Zenon
    <3>2. (IF u = NoUsage /\ "text" \in Kinds(s) THEN [u EXCEPT !.completion = Len(s)] ELSE u) = u
      BY <1>3
    <3> QED
      BY <3>1, <3>2, Zenon DEF ResponsesResponseToChatCompletions
  <2> HIDE DEF spoken
  <2>2. Whole(h, s, r, u).kinds = spoken /\ Whole(h, s, r, u).usage = u
    BY <2>1 DEF Message
  <2> QED
    BY <1>3, <2>2 DEF spoken, Lost, Charged
<1>4. CASE h = "coze"
  <2>1. Whole(h, s, r, u) = Message(plain, "stop", NoUsage)
    BY <1>4, WholeOf, Zenon DEF WholeCoze
  <2> HIDE DEF plain
  <2>2. Whole(h, s, r, u).kinds = plain /\ Whole(h, s, r, u).usage = NoUsage
    BY <2>1 DEF Message
  <2> QED
    BY <1>0, <1>4, <2>2 DEF plain, Lost, Charged
<1> QED
  BY <1>1, <1>2, <1>3, <1>4

(* The reason of a Claude or Gemini upstream has a word in OpenAI's.       *)
LEMMA ReasonHasAWord ==
  ASSUME NEW r
  PROVE  /\ r \in Reasons("claude") => Stopped(ClaudeStopReasonToOpenAI(r)) = ClaudeStopReasonToOpenAI(r)
         /\ r \in Reasons("gemini") => Stopped(GeminiFinishReasonToOpenAI(r)) = GeminiFinishReasonToOpenAI(r)
<1>1. ASSUME r \in {"end_turn", "max_tokens", "tool_use", "refusal"}
      PROVE  Stopped(ClaudeStopReasonToOpenAI(r)) = ClaudeStopReasonToOpenAI(r)
  <2>1. ClaudeStopReasonToOpenAI(r) \in {"stop", "length", "tool_calls", "content_filter"}
    BY <1>1 DEF ClaudeStopReasonToOpenAI
  <2> QED
    BY <2>1 DEF Stopped
<1>2. ASSUME r \in {"STOP", "MAX_TOKENS", "SAFETY", "MALFORMED_FUNCTION_CALL"}
      PROVE  Stopped(GeminiFinishReasonToOpenAI(r)) = GeminiFinishReasonToOpenAI(r)
  <2>1. GeminiFinishReasonToOpenAI(r) \in {"stop", "length", "tool_calls", "content_filter"}
    BY <1>2 DEF GeminiFinishReasonToOpenAI
  <2> QED
    BY <2>1 DEF Stopped
<1>3. /\ Reasons("claude") = {"end_turn", "max_tokens", "tool_use", "refusal"}
      /\ Reasons("gemini") = {"STOP", "MAX_TOKENS", "SAFETY", "MALFORMED_FUNCTION_CALL"}
  BY DEF Reasons
<1> QED
  BY <1>1, <1>2, <1>3

(* What is known of an upstream that has reported its usage and whose       *)
(* answer, unlike that of Gemini with a call, ends alike in both forms.     *)
Answers(h, s, r, k) ==
    /\ h # "openai to responses" /\ r # "incomplete"
    /\ r \in Reasons(Speaks[h]) \cup {""} /\ (Speaks[h] \in {"claude", "gemini", "responses"} => r # "")
    /\ h = "gemini to openai" => "call" \notin Kinds(s)
    /\ h = "responses to openai" =>
          (k.callAt # <<>> <=> "call" \in Kinds(s)) /\ (k.text <=> "text" \in Kinds(s))

(* What the client may be told at the end is what the whole answer says.    *)
LEMMA WholeSaysIt ==
  ASSUME NEW h \in AllHandlers, NEW s, NEW r, NEW u, NEW k, Answers(h, s, r, k)
  PROVE  MaySay(h, r, k) = {Whole(h, s, r, u).finish}
<1>0. Speaks[h] \in {"claude", "gemini", "responses"} => r \in Reasons(Speaks[h])
  BY DEF Answers
<1>1. CASE h = "openai to claude"
  <2>1. Whole(h, s, r, u).finish = OpenAIFinishReasonToClaude(r)
    <3>1. Whole(h, s, r, u) = Message(Kinds(s), OpenAIFinishReasonToClaude(r), u)
      BY <1>1, WholeOf, Zenon DEF WholeToClaude
    <3> QED
      BY <3>1 DEF Message
  <2> QED
    BY <1>1, <2>1 DEF MaySay
<1>2. CASE h = "openai to gemini"
  <2>1. Whole(h, s, r, u).finish = OpenAIFinishReasonToGemini(r)
    <3>1. Whole(h, s, r, u) = Message(Kinds(s), OpenAIFinishReasonToGemini(r), u)
      BY <1>2, WholeOf, Zenon DEF WholeToGemini
    <3> QED
      BY <3>1 DEF Message
  <2> QED
    BY <1>2, <2>1 DEF MaySay
<1>3. CASE h = "responses to openai"
  <2>1. Reasons("responses") = {"completed", "incomplete"} /\ Speaks[h] = "responses"
    BY <1>3, Vocabulary DEF Reasons
  <2>2. r = "completed"
    BY <1>0, <2>1 DEF Answers
  <2>3. MaySay(h, r, k) = {IF k.callAt # <<>> /\ ~k.text THEN "tool_calls" ELSE "stop"}
    BY <1>3, <2>2 DEF MaySay
  <2>4. Whole(h, s, r, u).finish = IF "call" \in Kinds(s) /\ "text" \notin Kinds(s) THEN "tool_calls" ELSE "stop"
    <3>1. Whole(h, s, r, u) = Message(Kinds(s) \ {"think"}, IF "call" \in Kinds(s) /\ "text" \notin Kinds(s) THEN "tool_calls" ELSE "stop",
                IF u = NoUsage /\ "text" \in Kinds(s) THEN [u EXCEPT !.completion = Len(s)] ELSE u)
      BY <1>3, WholeOf, ZenonT(40) DEF ResponsesResponseToChatCompletions
    <3> QED
      BY <3>1 DEF Message
  <2>5. k.callAt # <<>> /\ ~k.text <=> "call" \in Kinds(s) /\ "text" \notin Kinds(s)
    BY <1>3 DEF Answers
  <2> QED
    BY <2>3, <2>4, <2>5, Zenon
<1>4. CASE h = "claude to openai"
  <2>1. Speaks[h] = "claude"
    BY <1>4, Vocabulary
  <2>2. Stopped(ClaudeStopReasonToOpenAI(r)) = ClaudeStopReasonToOpenAI(r)
    BY <1>0, <2>1, ReasonHasAWord
  <2>3. Whole(h, s, r, u).finish = ClaudeStopReasonToOpenAI(r)
    <3>1. Whole(h, s, r, u) = Message(Kinds(s), ClaudeStopReasonToOpenAI(r), u)
      BY <1>4, WholeOf, Zenon DEF WholeClaudeToOpenAI
    <3> QED
      BY <3>1 DEF Message
  <2> QED
    BY <1>4, <2>2, <2>3 DEF MaySay
<1>5. CASE h = "gemini to openai"
  <2>1. Speaks[h] = "gemini"
    BY <1>5, Vocabulary
  <2>2. Stopped(GeminiFinishReasonToOpenAI(r)) = GeminiFinishReasonToOpenAI(r)
    BY <1>0, <2>1, ReasonHasAWord
  <2>3. Whole(h, s, r, u).finish =
          IF "call" \in Kinds(s) THEN "tool_calls" ELSE GeminiFinishReasonToOpenAI(r)
    <3>1. Whole(h, s, r, u) = Message(Kinds(s), IF "call" \in Kinds(s) THEN "tool_calls" ELSE GeminiFinishReasonToOpenAI(r), u)
      BY <1>5, WholeOf, Zenon DEF WholeGeminiToOpenAI
    <3> QED
      BY <3>1 DEF Message
  <2>4. "call" \notin Kinds(s)
    BY <1>5 DEF Answers
  <2> QED
    BY <1>5, <2>2, <2>3, <2>4 DEF MaySay
<1>6. CASE h \in {"claude native", "gemini native"}
  <2>1. Whole(h, s, r, u).finish = r
    <3>1. Whole(h, s, r, u) = Message(Kinds(s), r, u)
      BY <1>6, WholeOf, Zenon DEF WholeNative
    <3> QED
      BY <3>1 DEF Message
  <2> QED
    BY <1>6, <2>1 DEF MaySay
<1>7. CASE h = "ollama"
  <2>1. Whole(h, s, r, u).finish = "stop"
    <3>1. Whole(h, s, r, u) = Message(Kinds(s), "stop", u)
      BY <1>7, WholeOf, Zenon DEF WholeOllama
    <3> QED
      BY <3>1 DEF Message
  <2> QED
    BY <1>7, <2>1 DEF MaySay
<1>8. CASE h = "coze"
  <2>1. Whole(h, s, r, u).finish = "stop"
    <3>1. Whole(h, s, r, u) = Message(Kinds(s), "stop", NoUsage)
      BY <1>8, WholeOf, Zenon DEF WholeCoze
    <3> QED
      BY <3>1 DEF Message
  <2> QED
    BY <1>8, <2>1 DEF MaySay
<1>9. CASE h = "dify"
  <2>1. Whole(h, s, r, u).finish = "stop"
    <3>1. Whole(h, s, r, u) = Message(Kinds(s), "stop",
                IF u = NoUsage THEN [NoUsage EXCEPT !.completion = Len(s)] ELSE u)
      BY <1>9, WholeOf, ZenonT(40) DEF WholeDify
    <3> QED
      BY <3>1 DEF Message
  <2> QED
    BY <1>9, <2>1 DEF MaySay
<1> QED
  BY <1>1, <1>2, <1>3, <1>4, <1>5, <1>6, <1>7, <1>8, <1>9 DEF AllHandlers, Answers

(* A bill that agrees with a usage but for the cached tokens, which it may  *)
(* have forgotten, is that usage or the one without them, and it is never   *)
(* the lower one.                                                          *)
LEMMA BillsAgree ==
  \A b \in Usage, v \in Usage :
     b.prompt = v.prompt /\ b.completion = v.completion /\ b.cached \in {0, v.cached} =>
        /\ b \in {v, [v EXCEPT !.cached = 0]}
        /\ \A price \in AnyPrice :
              price.hit <= price.miss => ComputeCost(b, price) >= ComputeCost(v, price)
<1> SUFFICES ASSUME NEW b \in Usage, NEW v \in Usage,
                    b.prompt = v.prompt, b.completion = v.completion, b.cached \in {0, v.cached}
             PROVE  /\ b \in {v, [v EXCEPT !.cached = 0]}
                    /\ \A price \in AnyPrice :
                          price.hit <= price.miss => ComputeCost(b, price) >= ComputeCost(v, price)
  OBVIOUS
<1>1. b \in {v, [v EXCEPT !.cached = 0]}
  <2>1. CASE b.cached = v.cached
    <3>1. b = v
      BY <2>1 DEF Usage
    <3> QED
      BY <3>1
  <2>2. CASE b.cached = 0
    <3>1. b = [v EXCEPT !.cached = 0]
      BY <2>2 DEF Usage
    <3> QED
      BY <3>1
  <2> QED
    BY <2>1, <2>2
<1>2. ASSUME NEW price \in AnyPrice, price.hit <= price.miss
      PROVE  ComputeCost(b, price) >= ComputeCost(v, price)
  <2> DEFINE x == ComputeCost(v, price)  y == ComputeCost(b, price)
  <2>1. /\ x \in Nat
        /\ x <= ComputeCost([v EXCEPT !.cached = 0], price)
    BY <1>2, ForgettingCacheNeverSaves
  <2>2. b = v => y = x
    OBVIOUS
  <2>3. b = [v EXCEPT !.cached = 0] => x <= y
    BY <2>1, Zenon
  <2> HIDE DEF x, y
  <2>4. y >= x
    <3>1. CASE b = v
      BY <2>1, <2>2, <3>1
    <3>2. CASE b # v
      BY <1>1, <2>1, <2>3, <3>2
    <3> QED
      BY <3>1, <3>2
  <2> QED
    BY <2>4 DEF x, y
<1> QED
  BY <1>1, <1>2

(* Streamed or whole, an answer is the same but for what the code leaves    *)
(* out of one of them: the same kinds of content, the same reason told, and *)
(* the same usage but for the cached tokens; forgetting them never makes it *)
(* cheaper at a price that charges no more for a cached token.             *)
THEOREM StreamsAgreeWithWhole == Spec => []StreamAgreesWithWhole
<1>1. \A h \in AllHandlers : \A s, r, u :
         (h # "coze" => u # NoUsage) =>
            /\ Whole(h, s, r, u).kinds = Kinds(s) \ Lost(h)
            /\ Whole(h, s, r, u).usage = Charged(h, u)
  BY WholeIs, Zenon
<1>2. \A h \in AllHandlers : \A s, r, k :
         Answers(h, s, r, k) => \A u : MaySay(h, r, k) = {Whole(h, s, r, u).finish}
  BY WholeSaysIt, Zenon
<1>3. ~(NoUsage.completion > 0)
  BY UsageFields
<1>4. ConverterInv /\ EndInv => StreamAgreesWithWhole
  <2>0. SUFFICES ASSUME ConverterInv, EndInv, Returned, ret = "ok", ending = "done", reason # "incomplete",
                      reported.completion > 0 \/ (handler = "coze" /\ reason # "")
               PROVE  LET w == Whole(handler, said, reason, reported)
                          lost == IF handler \in {"openai to responses", "responses to openai"}
                                    THEN {"think"} ELSE {}
                      IN  /\ Kinds(Heard) \ lost = w.kinds
                          /\ billed \in {w.usage, [w.usage EXCEPT !.cached = 0]}
                          /\ \A price \in Prices :
                                price.hit <= price.miss =>
                                    ComputeCost(billed, price) >= ComputeCost(w.usage, price)
                          /\ \/ TellsNoReason
                             \/ handler = "gemini to openai" /\ "call" \in w.kinds /\ Finishes # {}
                             \/ Finishes = {w.finish}
    BY Zenon DEF StreamAgreesWithWhole
  <2>a. /\ ConverterInv /\ EndInv /\ Returned /\ ret = "ok" /\ ending = "done" /\ reason # "incomplete"
        /\ handler # "coze" => reported.completion > 0
    BY <2>0, Zenon
  <2>b. reported.completion > 0 \/ reason # ""
    BY <2>0, Zenon
  <2> DEFINE w == Whole(handler, said, reason, reported)
  <2>1. /\ TypeOK /\ SaidIsMade /\ UpstreamIsKnown /\ UsageIsKept /\ ReasonIsKept /\ PartsAreKept
        /\ ReasonIsSaid /\ ReasonIsTold /\ ReturnsTheBill /\ todo = <<>>
    BY <2>a, Zenon DEF ConverterInv, EndInv, Returned
  <2>2. handler \in AllHandlers /\ reported \in Usage /\ billed \in Usage /\ out \in Seq(Event)
    BY <2>1, HandlerAssumption DEF TypeOK
  <2>3. handler # "coze" => reported # NoUsage
    BY <1>3, <2>a, Zenon
  <2>4. /\ w.kinds = Kinds(said) \ Lost(handler)
        /\ w.usage = Charged(handler, reported)
    BY <1>1, <2>2, <2>3, Zenon
  <2> HIDE DEF w
  <2>5. Kinds(Heard) \ Lost(handler) = w.kinds
    <3>1. Made = out
      BY <2>1, <2>2, EmptyAdds DEF Made
    <3>2. Heard = said
      BY <2>1, <3>1 DEF Heard, SaidIsMade
    <3> QED
      BY <2>4, <3>2
  <2>6. /\ w.usage \in Usage /\ billed.prompt = w.usage.prompt /\ billed.completion = w.usage.completion
        /\ billed.cached \in {0, w.usage.cached}
    <3>1. CASE handler = "coze"
      <4>1. billed = NoUsage
        BY <2>1, <2>a, <3>1 DEF ReturnsTheBill, Bill
      <4>2. w.usage = NoUsage
        BY <2>4, <3>1 DEF Charged
      <4> QED
        BY <2>2, <4>1, <4>2
    <3>2. CASE handler # "coze"
      <4>1. reported.completion > 0
        BY <2>a, <3>2, Zenon
      <4>2. /\ billed.prompt = reported.prompt /\ billed.completion = reported.completion
            /\ billed.cached \in {0, reported.cached}
            /\ handler = "openai to responses" => billed.cached = 0
        BY <2>1, <2>a, <4>1, BillIsReported, Zenon
      <4>3. /\ w.usage \in Usage /\ w.usage.prompt = reported.prompt
            /\ w.usage.completion = reported.completion
            /\ w.usage.cached = IF handler = "openai to responses" THEN 0 ELSE reported.cached
        <5>1. CASE handler = "openai to responses"
          <6> DEFINE v == [reported EXCEPT !.cached = 0]
          <6>1. v \in Usage /\ v.prompt = reported.prompt /\ v.completion = reported.completion /\ v.cached = 0
            BY <2>2 DEF Usage
          <6>2. w.usage = v
            BY <2>4, <5>1 DEF Charged
          <6> HIDE DEF v
          <6> QED
            BY <5>1, <6>1, <6>2
        <5>2. CASE handler # "openai to responses"
          BY <2>2, <2>4, <3>2, <5>2 DEF Charged
        <5> QED
          BY <5>1, <5>2
      <4> QED
        BY <4>2, <4>3
    <3> QED
      BY <3>1, <3>2
  <2>7. billed \in {w.usage, [w.usage EXCEPT !.cached = 0]}
    BY <2>2, <2>6, BillsAgree, Zenon
  <2>8. ASSUME NEW price \in Prices, price.hit <= price.miss
        PROVE  ComputeCost(billed, price) >= ComputeCost(w.usage, price)
    <3>1. price \in AnyPrice
      BY HandlerAssumption DEF AnyPrice
    <3> QED
      BY <2>2, <2>6, <2>8, <3>1, BillsAgree, Zenon
  <2>9. \/ TellsNoReason
        \/ handler = "gemini to openai" /\ "call" \in w.kinds /\ Finishes # {}
        \/ Finishes = {w.finish}
    <3>0. Answered
      BY <2>b, Zenon DEF Answered
    <3>1. Finishes = {} <=> TellsNoReason
      BY <2>1, <2>a, <3>0, AnsweredAreTold, Zenon
    <3> SUFFICES ASSUME ~TellsNoReason, ~(handler = "gemini to openai" /\ "call" \in w.kinds)
                 PROVE  Finishes = {w.finish}
      BY <3>1
    <3>2. handler # "openai to responses"
      BY DEF TellsNoReason
    <3>3. reason \in Reasons(Speaks[handler]) \cup {""}
      BY <2>1 DEF UpstreamIsKnown
    <3>4. Speaks[handler] \in {"claude", "gemini", "responses"} => reason # ""
      <4>1. Speaks["coze"] = "coze"
        BY Vocabulary
      <4>2. Speaks[handler] \in {"claude", "gemini", "responses"} => handler # "coze"
        BY <4>1
      <4> QED
        BY <2>1, <2>a, <4>2, Zenon DEF UpstreamIsKnown
    <3>5. handler = "gemini to openai" => "call" \notin Kinds(said)
      BY <2>4 DEF Lost
    <3>6. handler = "responses to openai" =>
              (st.callAt # <<>> <=> "call" \in Kinds(said)) /\ (st.text <=> "text" \in Kinds(said))
      BY <2>1 DEF PartsAreKept
    <3>7. MaySay(handler, reason, st) = {w.finish}
      <4>1. Answers(handler, said, reason, st)
        BY <2>a, <3>2, <3>3, <3>4, <3>5, <3>6, Zenon DEF Answers
      <4>2. MaySay(handler, reason, st) = {Whole(handler, said, reason, reported).finish}
        BY <1>2, <2>2, <4>1, Zenon
      <4> QED
        BY <4>2, Zenon DEF w
    <3>8. Finishes \subseteq MaySay(handler, reason, st)
      BY <2>1, <3>2, FinishesAreSaid
    <3>9. Finishes # {}
      BY <3>1
    <3> QED
      BY <3>7, <3>8, <3>9
  <2> QED
    BY <2>5, <2>7, <2>8, <2>9, Zenon DEF Lost, w
<1> QED
  BY <1>4, ConverterInvariant, EndInvariant, PTL
=============================================================================
