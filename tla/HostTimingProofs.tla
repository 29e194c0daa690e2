--------------------------- MODULE HostTimingProofs ---------------------------
(***************************************************************************)
(* Proofs about HostTiming: with a host and a loop that are prompt against *)
(* the intervals, answers keep up with the retries, so that the two sides  *)
(* agree whatever is lost.                                                 *)
(***************************************************************************)
EXTENDS HostTiming, HostSessionProofs

-----------------------------------------------------------------------------
(* Numbers *)

\* The slower of the two sides.
LEMMA SlowerIs ==
  /\ MaxLag \in Nat /\ MaxDelay \in Nat /\ Slower \in Nat
  /\ MaxLag <= Slower /\ MaxDelay <= Slower
  /\ Slower \in {MaxLag, MaxDelay}
BY OrquestratorAssumption, HostSessionAssumption DEF Slower

\* An answer is awaited for as long as it takes, and one more line may be ahead of it.
LEMMA AnswerIs ==
  /\ Response \in Nat /\ Answer \in Nat
  /\ Response = MaxDelay + 4 * MaxLag /\ Answer = Response + Slower
BY SlowerIs DEF Response, Answer

\* Multiplication by one more.
LEMMA OneMore ==
  ASSUME NEW a \in Nat, NEW n \in Nat
  PROVE  a * n \in Nat /\ a * (n + 1) = a * n + a /\ a * 0 = 0
OBVIOUS

\* The larger of two factors.
LEMMA LargerFactor ==
  ASSUME NEW a \in Nat, NEW b \in Nat, NEW n \in Nat, a <= b
  PROVE  a * n <= b * n
OBVIOUS

\* One cell more costs a pass, one line more a turn.
LEMMA CostOfOne ==
  ASSUME NEW i \in Nat \ {0}
  PROVE  /\ Passes(i) \in Nat /\ Passes(i + 1) = Passes(i) + MaxLag
         /\ Turns(i) \in Nat /\ Turns(i + 1) = Turns(i) + Slower
         /\ Passes(i) <= Turns(i)
         /\ Passes(1) = 0 /\ Turns(1) = 0
<1>1. PICK n \in Nat : n = i - 1 /\ i = n + 1 /\ (i + 1) - 1 = n + 1
  OBVIOUS
<1>2. Passes(i) = MaxLag * n /\ Passes(i + 1) = MaxLag * (n + 1)
      /\ Turns(i) = Slower * n /\ Turns(i + 1) = Slower * (n + 1)
      /\ Passes(1) = MaxLag * 0 /\ Turns(1) = Slower * 0
  BY <1>1 DEF Passes, Turns
<1>3. /\ MaxLag * n \in Nat /\ MaxLag * (n + 1) = MaxLag * n + MaxLag /\ MaxLag * 0 = 0
      /\ Slower * n \in Nat /\ Slower * (n + 1) = Slower * n + Slower /\ Slower * 0 = 0
  BY OneMore, SlowerIs
<1>4. MaxLag * n <= Slower * n
  BY LargerFactor, SlowerIs
<1> QED BY <1>2, <1>3, <1>4

\* Elapsed is a number of milliseconds.
LEMMA ElapsedTyped ==
  ASSUME NEW a \in Instant, NEW b \in Instant
  PROVE  Elapsed(a, b) \in Nat /\ Elapsed(a, a) = 0
BY WrapAssumption DEF Elapsed, Instant

\* A tick makes it one more, or less.
LEMMA ElapsedTick ==
  ASSUME NEW a \in Instant, NEW b \in Instant
  PROVE  Elapsed(NextInstant(a), b) <= Elapsed(a, b) + 1
BY WrapAssumption DEF Elapsed, Instant, NextInstant

\* What the device and the host keep is within its types.
Bounded ==
  /\ lag \in 0 .. MaxLag /\ delay \in 0 .. MaxDelay /\ now \in Instant
  /\ HandshakeAge \in Nat /\ HeartbeatAge \in Nat

\* That follows from the invariants of the session.
LEMMA BoundedIs == DeviceInv /\ H!TypeOK => Bounded
<1> SUFFICES ASSUME DeviceInv, H!TypeOK PROVE Bounded
  OBVIOUS
<1>1. lag \in 0 .. MaxLag /\ delay \in 0 .. MaxDelay /\ now \in Instant
  BY DEF DeviceInv, TypeOK, H!TypeOK
<1>2. cm.last \in Instant /\ hb.last \in Instant
  BY DEF DeviceInv, TypeOK, CM!TypeOK, CM!Monitor, CM!Instant, HB!TypeOK, HB!Monitor,
         HB!Instant, Instant
<1> QED BY <1>1, <1>2, ElapsedTyped DEF Bounded, HandshakeAge, HeartbeatAge

-----------------------------------------------------------------------------
(* The cells of Unanswered *)

\* The cells of a row that is put together of three.
LEMMA RowCells ==
  ASSUME NEW e \in Word, NEW a \in Seq(Word), NEW b \in Seq(Word), NEW u, u = (<<e>> \o a) \o b
  PROVE  /\ Len(a) \in Nat /\ Len(b) \in Nat /\ Len(<<e>> \o a) = 1 + Len(a)
         /\ DOMAIN u = 1 .. 1 + Len(a) + Len(b)
         /\ u[1] = e
         /\ \A i \in 2 .. 1 + Len(a) : u[i] = a[i - 1]
         /\ \A i \in 2 + Len(a) .. 1 + Len(a) + Len(b) : u[i] = b[i - 1 - Len(a)]
<1>1. PICK m \in Seq(Word) : m = <<e>> /\ Len(m) = 1 /\ m[1] = e
  <2>1. <<e>> \in Seq(Word) /\ Len(<<e>>) = 1 /\ <<e>>[1] = e
    OBVIOUS
  <2> QED BY <2>1
<1>2. PICK s \in Seq(Word) :
        /\ s = m \o a /\ Len(s) = 1 + Len(a)
        /\ \A i \in 1 .. 1 + Len(a) : s[i] = IF i <= 1 THEN m[i] ELSE a[i - 1]
  <2> DEFINE t == m \o a
  <2>1. /\ t \in Seq(Word) /\ Len(t) = 1 + Len(a)
        /\ \A i \in 1 .. 1 + Len(a) : t[i] = IF i <= 1 THEN m[i] ELSE a[i - 1]
    BY <1>1, ConcatProperties
  <2> QED BY <2>1
<1>3. /\ u \in Seq(Word) /\ Len(u) = Len(s) + Len(b)
      /\ \A i \in 1 .. Len(s) + Len(b) : u[i] = IF i <= Len(s) THEN s[i] ELSE b[i - Len(s)]
  <2>1. u = s \o b
    BY <1>1, <1>2
  <2> QED BY <2>1, ConcatProperties
<1>4. Len(a) \in Nat /\ Len(b) \in Nat /\ DOMAIN u = 1 .. Len(u)
  BY <1>3, LenProperties
<1>5. \A i \in 2 + Len(a) .. 1 + Len(a) + Len(b) : i - Len(s) = i - 1 - Len(a)
  BY <1>2, <1>4
<1> QED BY <1>1, <1>2, <1>3, <1>4, <1>5

\* What there is where in Unanswered.
Cells ==
  /\ Len(toDevice) \in Nat /\ Len(toHost) \in Nat /\ Len(Answered) = 1 + Len(toDevice)
  /\ DOMAIN Unanswered = 1 .. 1 + Len(toDevice) + Len(toHost)
  /\ Unanswered[1] = phEvent
  /\ \A i \in 2 .. 1 + Len(toDevice) : Unanswered[i] = toDevice[i - 1]
  /\ \A i \in 2 + Len(toDevice) .. 1 + Len(toDevice) + Len(toHost) :
       Unanswered[i] = toHost[i - 1 - Len(toDevice)]

\* It is what is handled, what is on its way to the device, and what is for the host.
LEMMA CellsAre == DeviceInv /\ H!TypeOK => Cells
<1> SUFFICES ASSUME DeviceInv, H!TypeOK PROVE Cells
  OBVIOUS
<1>1. phEvent \in Word /\ toDevice \in Seq(Word) /\ toHost \in Seq(Word)
  BY Typed
<1> QED BY <1>1, RowCells DEF Cells, Answered, Unanswered

\* What is within its types, and where, before a step and after it.
Typical == DeviceInv /\ H!TypeOK /\ Cells /\ Bounded

\* Before and after a step of the session.
LEMMA TypicalIs ==
  /\ DeviceInv /\ H!TypeOK => Typical
  /\ DeviceInv' /\ H!TypeOK' => Typical'
<1>1. DeviceInv /\ H!TypeOK => Typical
  BY CellsAre, BoundedIs DEF Typical
<1> QED BY <1>1, PTL

-----------------------------------------------------------------------------
(* When a cell is due *)

\* What is due within a time is due within a longer one.
DueLater == \A i \in Nat \ {0} : \A a, b \in Int : a <= b /\ DueIn(i, a) => DueIn(i, b)

\* Before and after a step.
LEMMA DueLaterIs ==
  /\ Typical => DueLater
  /\ Typical' => DueLater'
<1>1. Typical => DueLater
  <2> SUFFICES ASSUME Typical, NEW i \in Nat \ {0}, NEW a \in Int, NEW b \in Int,
                      a <= b, DueIn(i, a)
               PROVE  DueIn(i, b)
    BY DEF DueLater
  <2>1. ByDevice(i) \in Int
    BY CostOfOne, SlowerIs DEF ByDevice, Typical, Bounded
  <2>2. ASSUME i > Len(Answered) PROVE ByHost(i - Len(Answered)) \in Int
    <3>0. Len(Answered) \in Nat
      BY DEF Typical, Cells
    <3>1. PICK n \in Nat \ {0} : n = i - Len(Answered)
      BY <2>2, <3>0
    <3>2. Turns(n) \in Nat
      BY CostOfOne
    <3>3. delay \in Int /\ MaxDelay \in Int /\ MaxLag \in Int
      BY SlowerIs DEF Typical, Bounded
    <3> QED BY <3>1, <3>2, <3>3 DEF ByHost
  <2> QED BY <2>1, <2>2 DEF DueIn
<1> QED BY <1>1, PTL

\* A cell becomes another in a step that takes e milliseconds, and is due no later.
Comes(i, j, e) == \A d \in Int : DueIn(i, d) => DueIn(j, d - e)'

\* What is prompt stays prompt.
LEMMA ComesInTime ==
  ASSUME Typical', NEW i \in Nat \ {0}, NEW j \in Nat \ {0}, NEW e \in Int, Comes(i, j, e),
         NEW a \in Int, NEW b \in Int, NEW c \in Int, NEW d \in Int,
         c <= a + e, d <= b + e, InTime(i, a, b)
  PROVE  InTime(j, c, d)'
<1>1. ASSUME NEW x \in Int, NEW y \in Int, DueIn(i, x), x - e <= y PROVE DueIn(j, y)'
  <2>1. DueIn(j, x - e)'
    BY <1>1 DEF Comes
  <2>2. x - e \in Int
    OBVIOUS
  <2>3. DueLater'
    BY DueLaterIs
  <2> QED BY <1>1, <2>1, <2>2, <2>3 DEF DueLater
<1>2. /\ Response - a \in Int /\ Response - b \in Int /\ Answer - a \in Int /\ Answer - b \in Int
      /\ Response - c \in Int /\ Response - d \in Int /\ Answer - c \in Int /\ Answer - d \in Int
      /\ Response - a - e <= Response - c /\ Response - b - e <= Response - d
      /\ Answer - a - e <= Answer - c /\ Answer - b - e <= Answer - d
  BY AnswerIs
<1>3. CASE DueIn(i, Response - a)
  <2>1. DueIn(j, Response - c)'
    BY <1>1, <1>2, <1>3
  <2> QED BY <2>1 DEF InTime
<1>4. CASE DueIn(i, Response - b)
  <2>1. DueIn(j, Response - d)'
    BY <1>1, <1>2, <1>4
  <2> QED BY <2>1 DEF InTime
<1>5. CASE DueIn(i, Answer - a) /\ DueIn(i, Answer - b)
  <2>1. DueIn(j, Answer - c)' /\ DueIn(j, Answer - d)'
    BY <1>1, <1>2, <1>5
  <2> QED BY <2>1 DEF InTime
<1> QED BY <1>3, <1>4, <1>5 DEF InTime

\* The two sides' times are numbers.
TimesTyped ==
  /\ \A i \in Nat \ {0} : ByDevice(i) \in Int
  /\ \A i \in Nat \ {0} : i > Len(Answered) =>
       i - Len(Answered) \in Nat \ {0} /\ ByHost(i - Len(Answered)) \in Int

\* Before and after a step.
LEMMA TimesTypedIs ==
  /\ Typical => TimesTyped
  /\ Typical' => TimesTyped'
<1>1. Typical => TimesTyped
  <2> SUFFICES ASSUME Typical, NEW i \in Nat \ {0}
               PROVE  /\ ByDevice(i) \in Int
                      /\ i > Len(Answered) =>
                           i - Len(Answered) \in Nat \ {0} /\ ByHost(i - Len(Answered)) \in Int
    BY DEF TimesTyped
  <2>0. Len(Answered) \in Nat
    BY DEF Typical, Cells
  <2>1. lag \in Int /\ delay \in Int /\ MaxDelay \in Int /\ MaxLag \in Int
    BY SlowerIs DEF Typical, Bounded
  <2>2. Passes(i) \in Int
    BY CostOfOne
  <2>3. ByDevice(i) \in Int
    BY <2>1, <2>2 DEF ByDevice
  <2>4. ASSUME i > Len(Answered)
        PROVE  i - Len(Answered) \in Nat \ {0} /\ ByHost(i - Len(Answered)) \in Int
    <3>1. PICK n \in Nat \ {0} : n = i - Len(Answered)
      BY <2>0, <2>4
    <3>2. Turns(n) \in Nat
      BY CostOfOne
    <3> QED BY <2>1, <3>1, <3>2 DEF ByHost
  <2> QED BY <2>3, <2>4
<1> QED BY <1>1, PTL

\* What makes a cell come no later.
LEMMA ComesIf ==
  ASSUME Typical, Typical', NEW i \in Nat \ {0}, NEW j \in Nat \ {0}, NEW e \in Int,
         \/ ByDevice(j)' + e <= ByDevice(i)
         \/ i > Len(Answered) /\ ByDevice(j)' + e <= ByHost(i - Len(Answered)),
         j > Len(Answered)' =>
           i > Len(Answered) /\ ByHost(j - Len(Answered))' + e <= ByHost(i - Len(Answered))
  PROVE  Comes(i, j, e)
<1> SUFFICES ASSUME NEW d \in Int, DueIn(i, d) PROVE DueIn(j, d - e)'
  BY DEF Comes
<1>1. TimesTyped /\ TimesTyped'
  BY TimesTypedIs
<1>2. ByDevice(i) \in Int /\ ByDevice(j)' \in Int
  BY <1>1 DEF TimesTyped
<1>3. /\ i > Len(Answered) => ByHost(i - Len(Answered)) \in Int
      /\ j > Len(Answered)' => ByHost(j - Len(Answered))' \in Int
  BY <1>1 DEF TimesTyped
<1>4. ByDevice(i) <= d /\ (i > Len(Answered) => ByHost(i - Len(Answered)) <= d)
  BY DEF DueIn
<1>5. ByDevice(j)' <= d - e
  BY <1>2, <1>3, <1>4
<1>6. j > Len(Answered)' => ByHost(j - Len(Answered))' <= d - e
  BY <1>3, <1>4
<1> QED BY <1>5, <1>6 DEF DueIn

-----------------------------------------------------------------------------
(* How the cells move *)

\* Two messages or lines are about the same.
Means(x, y) ==
  /\ Announces(x) <=> Announces(y)
  /\ Configures(x) <=> Configures(y)
  /\ Beats(x) <=> Beats(y)
  /\ x = "REBOOT" <=> y = "REBOOT"

AwaitedKinds == {"UP", "UP_ACK", "CONFIG", "CFG_ACK", "HB", "HB_ACK"}
NotableKinds == AwaitedKinds \cup {"REBOOT"}

\* Of the kinds K, every cell but a new one was there, in this order and due no earlier.
Follows(K, new, e) ==
  \E f \in [Int -> Int] :
    /\ \A j \in DOMAIN Unanswered' : j # new /\ Unanswered'[j] \in K =>
         /\ f[j] \in DOMAIN Unanswered /\ Means(Unanswered[f[j]], Unanswered'[j])
         /\ Comes(f[j], j, e)
    /\ \A i, j \in DOMAIN Unanswered' :
         i < j /\ i # new /\ j # new /\ Unanswered'[i] \in K /\ Unanswered'[j] \in K
           => f[i] < f[j]

\* Of the kinds K, every cell but an old one is still there, and due no later.
Keeps(K, old, e) ==
  \A i \in DOMAIN Unanswered : i # old /\ Unanswered[i] \in K =>
    \E j \in DOMAIN Unanswered' : Means(Unanswered[i], Unanswered'[j]) /\ Comes(i, j, e)

\* The device reads a message: every cell moves up by one.
LEMMA ReadMoves ==
  ASSUME Typical, Typical', Read, NEW K \in SUBSET NotableKinds
  PROVE  Follows(K, 0, 0) /\ Keeps(K, 0, 0)
<1>1. /\ toDevice # << >> /\ toDevice' = Tail(toDevice) /\ UNCHANGED <<toHost, delay, lag>>
      /\ phEvent = "NONE" /\ phEvent' = PH!EventOfLine([message |-> Head(toDevice), command |-> NoCommand])
      /\ pc = "protocol"
  BY DEF Read, ReadLine, Step, PH!Receive, PH!EmitEvent, PH!HasEvent, Typical, DeviceInv,
         NothingOverwritten
<1>2. Head(toDevice) \in Message /\ Head(toDevice) = toDevice[1]
  BY <1>1 DEF Typical, H!TypeOK, Message
<1>3. Means(Head(toDevice), phEvent')
  BY <1>1, <1>2
  DEF Message, H!Wishes, PH!EventOfLine, PH!EventOf, Means, Announces, Configures, Beats
<1> DEFINE r == Len(toDevice)
           n == Len(toHost)
<1>4. /\ r \in Nat \ {0} /\ n \in Nat /\ Len(toDevice') = r - 1
      /\ \A i \in 1 .. r - 1 : toDevice'[i] = toDevice[i + 1]
  <2>1. toDevice \in Seq(Message) /\ toHost \in Seq(LineKind)
    BY DEF Typical, H!TypeOK, Message, LineKind
  <2> QED BY <1>1, <2>1
<1>5. /\ DOMAIN Unanswered = 1 .. 1 + r + n /\ DOMAIN Unanswered' = 1 .. r + n
      /\ Len(Answered) = 1 + r /\ Len(Answered)' = r
  BY <1>1, <1>4 DEF Typical, Cells
<1> HIDE DEF r, n
<1>6. ASSUME NEW j \in DOMAIN Unanswered'
      PROVE  j + 1 \in DOMAIN Unanswered /\ Means(Unanswered[j + 1], Unanswered'[j])
  <2>1. j \in 1 .. r + n /\ j + 1 \in 1 .. 1 + r + n
    BY <1>4, <1>5
  <2>2. CASE j = 1
    <3>1. Unanswered[j + 1] = toDevice[1]
      <4>1. j + 1 \in 2 .. 1 + r /\ (j + 1) - 1 = 1
        BY <1>4, <2>2
      <4> QED BY <4>1 DEF Typical, Cells, r
    <3>2. Unanswered'[j] = phEvent'
      BY <2>2 DEF Typical, Cells
    <3> QED BY <1>2, <1>3, <1>5, <2>1, <3>1, <3>2
  <2>3. CASE j # 1 /\ j <= r
    <3>1. Unanswered'[j] = toDevice'[j - 1]
      <4>1. j \in 2 .. 1 + Len(toDevice')
        BY <1>4, <2>1, <2>3
      <4> QED BY <4>1 DEF Typical, Cells
    <3>2. Unanswered[j + 1] = toDevice[j]
      <4>1. j + 1 \in 2 .. 1 + r /\ (j + 1) - 1 = j
        BY <1>4, <2>1, <2>3
      <4> QED BY <4>1 DEF Typical, Cells, r
    <3>3. toDevice'[j - 1] = toDevice[j]
      <4>1. j - 1 \in 1 .. r - 1 /\ (j - 1) + 1 = j
        BY <1>4, <2>1, <2>3
      <4> QED BY <1>4, <4>1
    <3> QED BY <1>5, <2>1, <3>1, <3>2, <3>3 DEF Means
  <2>4. CASE ~(j <= r)
    <3>1. Unanswered'[j] = toHost[j - r]
      <4>1. /\ j \in 2 + Len(toDevice') .. 1 + Len(toDevice') + Len(toHost')
            /\ j - 1 - Len(toDevice') = j - r
        BY <1>1, <1>4, <2>1, <2>4 DEF n
      <4> QED BY <1>1, <4>1 DEF Typical, Cells
    <3>2. Unanswered[j + 1] = toHost[j - r]
      <4>1. j + 1 \in 2 + r .. 1 + r + n /\ (j + 1) - 1 - r = j - r
        BY <1>4, <2>1, <2>4
      <4> QED BY <4>1 DEF Typical, Cells, r, n
    <3> QED BY <1>5, <2>1, <3>1, <3>2 DEF Means
  <2> QED BY <2>1, <2>2, <2>3, <2>4
<1>7. ASSUME NEW j \in DOMAIN Unanswered' PROVE Comes(j + 1, j, 0)
  <2>1. j \in Nat \ {0}
    BY <1>4, <1>5
  <2>2. Passes(j + 1) = Passes(j) + MaxLag /\ Passes(j) \in Nat
    BY <2>1, CostOfOne
  <2>3. ByDevice(j)' + 0 <= ByDevice(j + 1)
    <3>1. lag \in Nat /\ MaxLag \in Nat
      BY SlowerIs DEF Typical, Bounded
    <3> QED BY <1>1, <2>2, <3>1 DEF ByDevice
  <2>4. (j + 1) - Len(Answered) = j - Len(Answered)' /\ (j > Len(Answered)' => j + 1 > Len(Answered))
    BY <1>4, <1>5, <2>1
  <2>5. ByHost(j - Len(Answered))' = ByHost((j + 1) - Len(Answered))
    BY <1>1, <2>4 DEF ByHost
  <2>6. j > Len(Answered)' =>
          ByHost(j - Len(Answered))' + 0 <= ByHost((j + 1) - Len(Answered))
    BY <2>1, <2>4, <2>5, TimesTypedIs DEF TimesTyped
  <2> QED BY <2>1, <2>3, <2>4, <2>6, ComesIf
<1>8. Follows(K, 0, 0)
  <2> DEFINE f == [j \in Int |-> j + 1]
  <2>1. f \in [Int -> Int] /\ \A j \in DOMAIN Unanswered' : f[j] = j + 1
    BY <1>4, <1>5
  <2>2. \A i, j \in DOMAIN Unanswered' : i < j => f[i] < f[j]
    BY <1>4, <1>5
  <2> HIDE DEF f
  <2> QED BY <1>6, <1>7, <2>1, <2>2 DEF Follows
<1>9. Keeps(K, 0, 0)
  <2> SUFFICES ASSUME NEW i \in DOMAIN Unanswered, Unanswered[i] \in K
               PROVE  \E j \in DOMAIN Unanswered' :
                        Means(Unanswered[i], Unanswered'[j]) /\ Comes(i, j, 0)
    BY DEF Keeps
  <2>0. i # 1
    BY <1>1 DEF Typical, Cells, NotableKinds, AwaitedKinds
  <2>1. PICK j \in DOMAIN Unanswered' : i = j + 1
    <3>1. i - 1 \in DOMAIN Unanswered' /\ i = (i - 1) + 1
      BY <1>4, <1>5, <2>0
    <3> QED BY <3>1
  <2> QED BY <1>6, <1>7, <2>1
<1> QED BY <1>8, <1>9

\* A millisecond passes: every cell stays, and has a millisecond less.
LEMMA TimeMoves ==
  ASSUME Typical, Typical', TimePasses, NEW K
  PROVE  Follows(K, 0, 1) /\ Keeps(K, 0, 1)
<1>1. /\ UNCHANGED <<toHost, toDevice, phEvent, pc>> /\ lag' = lag + 1
      /\ delay' = IF toHost = << >> THEN 0 ELSE delay + 1
  BY DEF TimePasses, Tick, H!Wait
<1>2. Unanswered' = Unanswered /\ Answered' = Answered
  BY <1>1 DEF Answered, Unanswered
<1>3. ASSUME NEW j \in DOMAIN Unanswered PROVE j \in Nat \ {0} /\ Comes(j, j, 1)
  <2>1. j \in Nat \ {0}
    BY DEF Typical, Cells
  <2>2. ByDevice(j)' + 1 <= ByDevice(j)
    <3>1. lag \in Nat /\ MaxLag \in Nat /\ Passes(j) \in Nat
      BY <2>1, SlowerIs, CostOfOne DEF Typical, Bounded
    <3> QED BY <1>1, <3>1 DEF ByDevice
  <2>3. ASSUME j > Len(Answered)
        PROVE  ByHost(j - Len(Answered))' + 1 <= ByHost(j - Len(Answered))
    <3>1. PICK k \in Nat \ {0} : k = j - Len(Answered)
      BY <2>1, <2>3, TimesTypedIs DEF TimesTyped
    <3>2. toHost # << >>
      BY <2>1, <2>3 DEF Typical, Cells
    <3>3. Turns(k) \in Nat
      BY CostOfOne
    <3>4. delay \in Nat /\ MaxDelay \in Nat /\ MaxLag \in Nat
      BY SlowerIs DEF Typical, Bounded
    <3>5. ByHost(k)' + 1 <= ByHost(k)
      BY <1>1, <3>2, <3>3, <3>4 DEF ByHost
    <3> QED BY <1>2, <3>1, <3>5
  <2> QED BY <1>2, <2>1, <2>2, <2>3, ComesIf
<1>4. Means(Unanswered[1], Unanswered[1]) /\ \A x : Means(x, x)
  BY DEF Means
<1>5. Keeps(K, 0, 1)
  BY <1>2, <1>3, <1>4 DEF Keeps
<1>6. Follows(K, 0, 1)
  <2> DEFINE f == [j \in Int |-> j]
  <2>1. f \in [Int -> Int] /\ \A j \in DOMAIN Unanswered : f[j] = j
    BY <1>3
  <2> HIDE DEF f
  <2> QED BY <1>2, <1>3, <1>4, <2>1 DEF Follows
<1> QED BY <1>5, <1>6

\* The host answers: the answer takes the place of the line.
LEMMA AnswerMoves ==
  ASSUME Typical, Typical', HostAnswers, NEW K
  PROVE  Follows(K, 0, 0) /\ Keeps(K, 0, 0)
<1>1. /\ toHost # << >> /\ toHost' = Tail(toHost) /\ delay' = 0
      /\ toDevice' = Append(toDevice, H!Answer[Head(toHost)])
      /\ UNCHANGED <<phEvent, pc, lag>>
  BY DEF HostAnswers, H!AnswerLine, vars
<1> DEFINE r == Len(toDevice)
           n == Len(toHost)
<1>2. /\ r \in Nat /\ n \in Nat \ {0} /\ Len(toDevice') = r + 1 /\ Len(toHost') = n - 1
      /\ \A i \in 1 .. r : toDevice'[i] = toDevice[i]
      /\ toDevice'[r + 1] = H!Answer[toHost[1]] /\ toHost[1] \in LineKind
      /\ \A i \in 1 .. n - 1 : toHost'[i] = toHost[i + 1]
  <2>1. toDevice \in Seq(Message) /\ toHost \in Seq(LineKind)
    BY DEF Typical, H!TypeOK, Message, LineKind
  <2> QED BY <1>1, <2>1
<1>3. Means(toHost[1], H!Answer[toHost[1]])
  BY <1>2 DEF LineKind, H!Answer, Means, Announces, Configures, Beats
<1>4. /\ DOMAIN Unanswered = 1 .. 1 + r + n /\ DOMAIN Unanswered' = 1 .. 1 + r + n
      /\ Len(Answered) = 1 + r /\ Len(Answered)' = 2 + r
  BY <1>2 DEF Typical, Cells
<1> HIDE DEF r, n
<1>5. \A x : Means(x, x)
  BY DEF Means
<1>6. ASSUME NEW j \in DOMAIN Unanswered PROVE Means(Unanswered[j], Unanswered'[j])
  <2>1. j \in 1 .. 1 + r + n
    BY <1>4
  <2>2. CASE j = 1
    BY <1>1, <1>5, <2>2 DEF Typical, Cells
  <2>3. CASE j # 1 /\ j <= 1 + r
    <3>1. Unanswered'[j] = toDevice'[j - 1]
      <4>1. j \in 2 .. 1 + Len(toDevice')
        BY <1>2, <2>1, <2>3
      <4> QED BY <4>1 DEF Typical, Cells
    <3>2. Unanswered[j] = toDevice[j - 1]
      BY <1>2, <2>1, <2>3 DEF Typical, Cells, r
    <3>3. j - 1 \in 1 .. r
      BY <1>2, <2>1, <2>3
    <3> QED BY <1>2, <1>5, <3>1, <3>2, <3>3
  <2>4. CASE j = 2 + r
    <3>1. Unanswered'[j] = toDevice'[r + 1]
      <4>1. j \in 2 .. 1 + Len(toDevice') /\ j - 1 = r + 1
        BY <1>2, <2>1, <2>4
      <4> QED BY <4>1 DEF Typical, Cells
    <3>2. Unanswered[j] = toHost[1]
      <4>1. j \in 2 + r .. 1 + r + n /\ j - 1 - r = 1
        BY <1>2, <2>1, <2>4
      <4> QED BY <4>1 DEF Typical, Cells, r, n
    <3> QED BY <1>2, <1>3, <3>1, <3>2
  <2>5. CASE j > 2 + r
    <3>1. Unanswered'[j] = toHost'[j - 2 - r]
      <4>1. /\ j \in 2 + Len(toDevice') .. 1 + Len(toDevice') + Len(toHost')
            /\ j - 1 - Len(toDevice') = j - 2 - r
        BY <1>2, <2>1, <2>5
      <4> QED BY <4>1 DEF Typical, Cells
    <3>2. Unanswered[j] = toHost[j - 1 - r]
      <4>1. j \in 2 + r .. 1 + r + n
        BY <1>2, <2>1, <2>5
      <4> QED BY <4>1 DEF Typical, Cells, r, n
    <3>3. j - 2 - r \in 1 .. n - 1 /\ (j - 2 - r) + 1 = j - 1 - r
      BY <1>2, <2>1, <2>5
    <3> QED BY <1>2, <1>5, <3>1, <3>2, <3>3
  <2> QED BY <1>2, <2>1, <2>2, <2>3, <2>4, <2>5
<1>7. ASSUME NEW j \in DOMAIN Unanswered PROVE j \in Nat \ {0} /\ Comes(j, j, 0)
  <2>1. j \in Nat \ {0}
    BY <1>2, <1>4
  <2>2. ByDevice(j)' + 0 <= ByDevice(j)
    <3>1. lag \in Nat /\ MaxLag \in Nat /\ Passes(j) \in Nat
      BY <2>1, SlowerIs, CostOfOne DEF Typical, Bounded
    <3> QED BY <1>1, <3>1 DEF ByDevice
  <2>3. ASSUME j > Len(Answered)'
        PROVE  /\ j > Len(Answered)
               /\ ByHost(j - Len(Answered))' + 0 <= ByHost(j - Len(Answered))
    <3>1. PICK k \in Nat \ {0} : k = j - Len(Answered)' /\ k + 1 = j - Len(Answered)
      BY <1>2, <1>4, <2>1, <2>3
    <3>2. Turns(k) \in Nat /\ Turns(k + 1) = Turns(k) + Slower
      BY CostOfOne
    <3>3. delay \in 0 .. MaxDelay /\ MaxDelay <= Slower
          /\ MaxDelay \in Nat /\ MaxLag \in Nat /\ Slower \in Nat
      BY SlowerIs DEF Typical, Bounded
    <3>4. ByHost(k)' + 0 <= ByHost(k + 1)
      BY <1>1, <3>2, <3>3 DEF ByHost
    <3>5. ByHost(j - Len(Answered))' = ByHost(k)'
      BY <3>1
    <3> QED BY <1>2, <1>4, <2>1, <2>3, <3>1, <3>4, <3>5
  <2> QED BY <2>1, <2>2, <2>3, ComesIf
<1>8. Keeps(K, 0, 0)
  BY <1>4, <1>6, <1>7 DEF Keeps
<1>9. Follows(K, 0, 0)
  <2> DEFINE f == [j \in Int |-> j]
  <2>1. f \in [Int -> Int] /\ \A j \in DOMAIN Unanswered : f[j] = j
    BY <1>7
  <2> HIDE DEF f
  <2> QED BY <1>4, <1>6, <1>7, <2>1 DEF Follows
<1> QED BY <1>8, <1>9

\* The user's wish goes out on a free line: the lines the host has to answer move down by
\* one, and are due as they were.
LEMMA RequestMoves ==
  ASSUME Typical, Typical', NEW m, H!Request(m), UNCHANGED vars, NEW K, m \notin K
  PROVE  Follows(K, 0, 0) /\ Keeps(K, 0, 0)
<1>1. toDevice = << >> /\ toDevice' = <<m>> /\ UNCHANGED <<toHost, delay, phEvent, pc, lag>>
  BY DEF H!Request, vars
<1> DEFINE n == Len(toHost)
<1>2. n \in Nat /\ Len(toDevice) = 0 /\ Len(toDevice') = 1 /\ toDevice'[1] = m
  <2>1. PICK t : t = <<m>> /\ toDevice' = t
    BY <1>1
  <2>2. Len(t) = 1 /\ t[1] = m
    BY <2>1
  <2> QED BY <1>1, <2>1, <2>2 DEF Typical, Cells
<1>3. /\ DOMAIN Unanswered = 1 .. 1 + n /\ DOMAIN Unanswered' = 1 .. 2 + n
      /\ Len(Answered) = 1 /\ Len(Answered)' = 2
  BY <1>1, <1>2 DEF Typical, Cells
<1> HIDE DEF n
<1>4. /\ Unanswered[1] = Unanswered'[1] /\ Unanswered'[2] = m
      /\ \A i \in 2 .. 1 + n : Unanswered[i] = Unanswered'[i + 1]
  <2>1. Unanswered[1] = Unanswered'[1]
    BY <1>1 DEF Typical, Cells
  <2>2. Unanswered'[2] = m
    <3>1. 2 \in 2 .. 1 + Len(toDevice') /\ 2 - 1 = 1
      BY <1>2
    <3>2. Unanswered'[2] = toDevice'[2 - 1]
      BY <3>1 DEF Typical, Cells
    <3> QED BY <1>2, <3>1, <3>2
  <2>3. ASSUME NEW i \in 2 .. 1 + n PROVE Unanswered[i] = Unanswered'[i + 1]
    <3>1. Unanswered[i] = toHost[i - 1]
      <4>1. i \in 2 + Len(toDevice) .. 1 + Len(toDevice) + Len(toHost)
            /\ i - 1 - Len(toDevice) = i - 1
        BY <1>2 DEF n
      <4> QED BY <4>1 DEF Typical, Cells
    <3>2. Unanswered'[i + 1] = toHost[i - 1]
      <4>1. i + 1 \in 2 + Len(toDevice') .. 1 + Len(toDevice') + Len(toHost')
            /\ (i + 1) - 1 - Len(toDevice') = i - 1
        BY <1>1, <1>2 DEF n
      <4> QED BY <1>1, <4>1 DEF Typical, Cells
    <3> QED BY <3>1, <3>2
  <2> QED BY <2>1, <2>2, <2>3
<1>5. Comes(1, 1, 0)
  <2>1. ByDevice(1)' = ByDevice(1) /\ ByDevice(1) \in Int
    BY <1>1, TimesTypedIs DEF ByDevice, TimesTyped
  <2> QED BY <1>3, <2>1, ComesIf
<1>6. ASSUME NEW i \in 2 .. 1 + n PROVE Comes(i, i + 1, 0)
  <2>1. PICK k \in Nat \ {0} : i = k + 1 /\ k = i - 1
    BY <1>2
  <2>2. /\ Passes(k) \in Nat /\ Passes(k + 1) = Passes(k) + MaxLag /\ Passes(k) <= Turns(k)
        /\ Turns(k) \in Nat
    BY CostOfOne
  <2>3. Passes(i + 1) = Passes(i) + MaxLag
    <3>1. i \in Nat \ {0}
      BY <1>2
    <3> QED BY <3>1, CostOfOne
  <2>4. lag \in 0 .. MaxLag /\ delay \in 0 .. MaxDelay /\ MaxDelay \in Nat /\ MaxLag \in Nat
    BY SlowerIs DEF Typical, Bounded
  <2>5. ByDevice(i + 1)' + 0 <= ByHost(k)
    BY <1>1, <2>1, <2>2, <2>3, <2>4 DEF ByDevice, ByHost
  <2>6. ByHost(k)' = ByHost(k) /\ ByHost(k) \in Int
    BY <1>1, <2>2, <2>4 DEF ByHost
  <2>7. i - Len(Answered) = k /\ (i + 1) - Len(Answered)' = k /\ i > Len(Answered)
    BY <1>3, <2>1
  <2>8. ByHost((i + 1) - Len(Answered))' = ByHost(k)'
    BY <2>7
  <2>9. i \in Nat \ {0} /\ i + 1 \in Nat \ {0}
    BY <1>2
  <2> QED BY <2>5, <2>6, <2>7, <2>8, <2>9, ComesIf
<1>7. \A x : Means(x, x)
  BY DEF Means
<1>8. Keeps(K, 0, 0)
  <2> SUFFICES ASSUME NEW i \in DOMAIN Unanswered
               PROVE  \E j \in DOMAIN Unanswered' :
                        Means(Unanswered[i], Unanswered'[j]) /\ Comes(i, j, 0)
    BY DEF Keeps
  <2>1. CASE i = 1
    BY <1>2, <1>3, <1>4, <1>5, <1>7, <2>1
  <2>2. CASE i # 1
    <3>1. i \in 2 .. 1 + n /\ i + 1 \in 1 .. 2 + n
      BY <1>2, <1>3, <2>2
    <3> QED BY <1>3, <1>4, <1>6, <1>7, <3>1
  <2> QED BY <2>1, <2>2
<1>9. Follows(K, 0, 0)
  <2> DEFINE f == [j \in Int |-> IF j = 1 THEN 1 ELSE j - 1]
  <2>1. f \in [Int -> Int] /\ f[1] = 1 /\ \A j \in 3 .. 2 + n : f[j] = j - 1
    BY <1>2
  <2>2. ASSUME NEW j \in DOMAIN Unanswered', Unanswered'[j] \in K PROVE j = 1 \/ j \in 3 .. 2 + n
    BY <1>2, <1>3, <1>4, <2>2
  <2> HIDE DEF f
  <2>3. ASSUME NEW j \in DOMAIN Unanswered', Unanswered'[j] \in K
        PROVE  /\ f[j] \in DOMAIN Unanswered /\ Means(Unanswered[f[j]], Unanswered'[j])
               /\ Comes(f[j], j, 0)
    <3>1. CASE j = 1
      BY <1>2, <1>3, <1>4, <1>5, <1>7, <2>1, <3>1
    <3>2. CASE j \in 3 .. 2 + n
      <4>1. PICK i \in 2 .. 1 + n : j = i + 1 /\ i = j - 1
        BY <1>2, <3>2
      <4>2. f[j] = i /\ i \in DOMAIN Unanswered
        BY <1>2, <1>3, <2>1, <3>2, <4>1
      <4> QED BY <1>4, <1>6, <1>7, <4>1, <4>2
    <3> QED BY <2>2, <2>3, <3>1, <3>2
  <2>4. ASSUME NEW i \in DOMAIN Unanswered', NEW j \in DOMAIN Unanswered', i < j,
               Unanswered'[i] \in K, Unanswered'[j] \in K
        PROVE  f[i] < f[j]
    <3>1. (i = 1 \/ i \in 3 .. 2 + n) /\ j \in 3 .. 2 + n
      BY <1>2, <1>3, <2>2, <2>4
    <3> QED BY <1>2, <2>1, <2>4, <3>1
  <2> QED BY <2>1, <2>3, <2>4 DEF Follows
<1> QED BY <1>8, <1>9

\* A line is lost: those behind it move up, and are due no later.
LEMMA LossMoves ==
  ASSUME Typical, Typical', H!Lose, UNCHANGED vars, NEW K
  PROVE  Follows(K, 0, 0)
<1>1. UNCHANGED <<phEvent, pc, lag>>
  BY DEF vars
<1> DEFINE r == Len(toDevice)
           n == Len(toHost)
<1>2. r \in Nat /\ n \in Nat
  BY DEF Typical, Cells
<1>3. DOMAIN Unanswered = 1 .. 1 + r + n /\ Len(Answered) = 1 + r
  BY DEF Typical, Cells
<1> HIDE DEF r, n
<1>8. /\ Unanswered[1] = phEvent /\ Unanswered'[1] = phEvent
      /\ \A i \in 2 .. 1 + r : Unanswered[i] = toDevice[i - 1]
      /\ \A i \in 2 + r .. 1 + r + n : Unanswered[i] = toHost[i - 1 - r]
      /\ \A i \in 2 .. 1 + Len(toDevice') : Unanswered'[i] = toDevice'[i - 1]
  BY <1>1 DEF Typical, Cells, r, n
<1>9. /\ DOMAIN Unanswered' = 1 .. 1 + Len(toDevice') + Len(toHost')
      /\ Len(Answered)' = 1 + Len(toDevice')
  BY DEF Typical, Cells
<1>4. \A x : Means(x, x)
  BY DEF Means
<1>5. ASSUME NEW j \in Nat \ {0}
      PROVE  /\ ByDevice(j)' = ByDevice(j) /\ ByDevice(j) <= ByDevice(j + 1)
             /\ ByDevice(j) \in Int
  <2>1. Passes(j) \in Nat /\ Passes(j + 1) = Passes(j) + MaxLag
    BY CostOfOne
  <2>2. lag \in Nat /\ MaxLag \in Nat
    BY SlowerIs DEF Typical, Bounded
  <2> QED BY <1>1, <2>1, <2>2 DEF ByDevice
<1>6. CASE toHost # << >> /\ toHost' = Tail(toHost) /\ delay' = 0 /\ UNCHANGED toDevice
  <2>1. /\ n \in Nat \ {0} /\ Len(toHost') = n - 1
        /\ \A i \in 1 .. n - 1 : toHost'[i] = toHost[i + 1]
    <3>1. toHost \in Seq(LineKind)
      BY DEF Typical, H!TypeOK, LineKind
    <3> QED BY <1>6, <3>1 DEF n
  <2>2. DOMAIN Unanswered' = 1 .. r + n /\ Len(Answered)' = 1 + r
    BY <1>2, <1>6, <1>9, <2>1 DEF r
  <2>3. ASSUME NEW j \in 1 .. 1 + r PROVE Unanswered'[j] = Unanswered[j] /\ Comes(j, j, 0)
    <3>1. ASSUME j = 1 PROVE Unanswered'[j] = Unanswered[j]
      BY <1>8, <3>1
    <3>2. ASSUME j # 1 PROVE Unanswered'[j] = Unanswered[j]
      <4>1. j \in 2 .. 1 + r /\ j \in 2 .. 1 + Len(toDevice')
        BY <1>2, <1>6, <3>2 DEF r
      <4> QED BY <1>6, <1>8, <4>1
    <3>3. j \in Nat \ {0}
      BY <1>2
    <3>4. ByDevice(j)' + 0 <= ByDevice(j)
      BY <1>5, <3>3
    <3>5. ~(j > Len(Answered)')
      BY <1>2, <2>2
    <3>6. Comes(j, j, 0)
      BY <3>3, <3>4, <3>5, ComesIf
    <3> QED BY <3>1, <3>2, <3>6
  <2>4. ASSUME NEW j \in 2 + r .. r + n
        PROVE  Unanswered'[j] = Unanswered[j + 1] /\ Comes(j + 1, j, 0)
    <3>0. j \in Nat \ {0} /\ j + 1 \in Nat \ {0}
      BY <1>2
    <3>1. Unanswered'[j] = toHost'[j - 1 - r]
      <4>1. /\ j \in 2 + Len(toDevice') .. 1 + Len(toDevice') + Len(toHost')
            /\ j - 1 - Len(toDevice') = j - 1 - r
        BY <1>2, <1>6, <2>1 DEF r
      <4> QED BY <4>1 DEF Typical, Cells
    <3>2. Unanswered[j + 1] = toHost[j - r]
      <4>1. j + 1 \in 2 + r .. 1 + r + n /\ (j + 1) - 1 - r = j - r
        BY <1>2
      <4> QED BY <1>8, <4>1
    <3>3. j - 1 - r \in 1 .. n - 1 /\ (j - 1 - r) + 1 = j - r
      BY <1>2
    <3>4. PICK k \in Nat \ {0} : k = j - 1 - r /\ k + 1 = j - r
      BY <1>2
    <3>5. /\ j - Len(Answered)' = k /\ (j + 1) - Len(Answered) = k + 1
          /\ j + 1 > Len(Answered)
      BY <1>2, <1>3, <2>2, <3>4
    <3>6. Turns(k) \in Nat /\ Turns(k + 1) = Turns(k) + Slower
      BY CostOfOne
    <3>7. /\ delay \in 0 .. MaxDelay /\ MaxDelay <= Slower /\ Slower \in Nat
          /\ MaxDelay \in Nat /\ MaxLag \in Nat
      BY SlowerIs DEF Typical, Bounded
    <3>8. ByHost(k)' + 0 <= ByHost(k + 1)
      BY <1>6, <3>6, <3>7 DEF ByHost
    <3>9. ByHost(j - Len(Answered))' = ByHost(k)'
      BY <3>5
    <3>10. ByDevice(j)' + 0 <= ByDevice(j + 1)
      BY <1>5, <3>0
    <3>11. Comes(j + 1, j, 0)
      BY <3>0, <3>5, <3>8, <3>9, <3>10, ComesIf
    <3> QED BY <2>1, <3>1, <3>2, <3>3, <3>11
  <2> DEFINE f == [j \in Int |-> IF j <= 1 + r THEN j ELSE j + 1]
  <2>5. /\ f \in [Int -> Int]
        /\ \A j \in 1 .. 1 + r : f[j] = j
        /\ \A j \in 2 + r .. r + n : f[j] = j + 1
    BY <1>2
  <2> HIDE DEF f
  <2>6. ASSUME NEW j \in DOMAIN Unanswered' PROVE j \in 1 .. 1 + r \/ j \in 2 + r .. r + n
    BY <1>2, <2>2
  <2>7. ASSUME NEW j \in DOMAIN Unanswered'
        PROVE  f[j] \in DOMAIN Unanswered /\ Unanswered'[j] = Unanswered[f[j]] /\ Comes(f[j], j, 0)
    <3>1. CASE j \in 1 .. 1 + r
      BY <1>2, <1>3, <2>1, <2>3, <2>5, <3>1
    <3>2. CASE j \in 2 + r .. r + n
      <4>1. f[j] = j + 1 /\ j + 1 \in 1 .. 1 + r + n
        BY <1>2, <2>5, <3>2
      <4> QED BY <1>3, <2>4, <3>2, <4>1
    <3> QED BY <2>6, <3>1, <3>2
  <2>8. \A i, j \in DOMAIN Unanswered' : i < j => f[i] < f[j]
    BY <1>2, <2>5, <2>6
  <2> QED BY <1>4, <2>5, <2>7, <2>8 DEF Follows
<1>7. CASE toDevice # << >> /\ toDevice' = Tail(toDevice) /\ UNCHANGED <<toHost, delay>>
  <2>1. /\ r \in Nat \ {0} /\ Len(toDevice') = r - 1
        /\ \A i \in 1 .. r - 1 : toDevice'[i] = toDevice[i + 1]
    <3>1. toDevice \in Seq(Message)
      BY DEF Typical, H!TypeOK, Message
    <3> QED BY <1>7, <3>1 DEF r
  <2>2. DOMAIN Unanswered' = 1 .. r + n /\ Len(Answered)' = r
    BY <1>2, <1>7, <1>9, <2>1 DEF n
  <2>3. Unanswered'[1] = Unanswered[1] /\ Comes(1, 1, 0)
    <3>1. Unanswered'[1] = Unanswered[1]
      BY <1>8
    <3>2. ByDevice(1)' + 0 <= ByDevice(1) /\ ~(1 > Len(Answered)')
      BY <1>5, <2>1, <2>2
    <3> QED BY <3>1, <3>2, ComesIf
  <2>4. ASSUME NEW j \in 2 .. r + n
        PROVE  Unanswered'[j] = Unanswered[j + 1] /\ Comes(j + 1, j, 0)
    <3>0. j \in Nat \ {0} /\ j + 1 \in Nat \ {0}
      BY <1>2
    <3>1. ASSUME j <= r PROVE Unanswered'[j] = Unanswered[j + 1]
      <4>1. j \in 2 .. 1 + Len(toDevice') /\ j - 1 \in 1 .. r - 1 /\ (j - 1) + 1 = j
        BY <2>1, <3>1
      <4>2. Unanswered'[j] = toDevice'[j - 1]
        BY <1>8, <4>1
      <4>3. j + 1 \in 2 .. 1 + r /\ (j + 1) - 1 = j
        BY <2>1, <3>1
      <4>4. Unanswered[j + 1] = toDevice[j]
        BY <1>8, <4>3
      <4> QED BY <2>1, <4>1, <4>2, <4>4
    <3>2. ASSUME ~(j <= r) PROVE Unanswered'[j] = Unanswered[j + 1]
      <4>1. /\ j \in 2 + Len(toDevice') .. 1 + Len(toDevice') + Len(toHost')
            /\ j - 1 - Len(toDevice') = j - r
        BY <1>2, <1>7, <2>1, <3>2 DEF n
      <4>2. Unanswered'[j] = toHost[j - r]
        BY <1>7, <4>1 DEF Typical, Cells
      <4>3. j + 1 \in 2 + r .. 1 + r + n /\ (j + 1) - 1 - r = j - r
        BY <1>2, <3>2
      <4>4. Unanswered[j + 1] = toHost[j - r]
        BY <1>8, <4>3
      <4> QED BY <4>2, <4>4
    <3>3. ByDevice(j)' + 0 <= ByDevice(j + 1)
      BY <1>5, <3>0
    <3>4. /\ j - Len(Answered)' = (j + 1) - Len(Answered)
          /\ j > Len(Answered)' => j + 1 > Len(Answered)
      BY <1>2, <1>3, <2>2
    <3>5. ByHost(j - Len(Answered))' = ByHost((j + 1) - Len(Answered))
      BY <1>7, <3>4 DEF ByHost
    <3>6. j > Len(Answered)' =>
            ByHost(j - Len(Answered))' + 0 <= ByHost((j + 1) - Len(Answered))
      BY <3>0, <3>4, <3>5, TimesTypedIs DEF TimesTyped
    <3>7. Comes(j + 1, j, 0)
      BY <3>0, <3>3, <3>4, <3>6, ComesIf
    <3> QED BY <3>1, <3>2, <3>7
  <2> DEFINE f == [j \in Int |-> IF j <= 1 THEN j ELSE j + 1]
  <2>5. f \in [Int -> Int] /\ f[1] = 1 /\ \A j \in 2 .. r + n : f[j] = j + 1
    BY <1>2
  <2> HIDE DEF f
  <2>6. ASSUME NEW j \in DOMAIN Unanswered' PROVE j = 1 \/ j \in 2 .. r + n
    BY <1>2, <2>2
  <2>7. ASSUME NEW j \in DOMAIN Unanswered'
        PROVE  f[j] \in DOMAIN Unanswered /\ Unanswered'[j] = Unanswered[f[j]] /\ Comes(f[j], j, 0)
    <3>1. CASE j = 1
      BY <1>2, <1>3, <2>3, <2>5, <3>1
    <3>2. CASE j \in 2 .. r + n
      <4>1. f[j] = j + 1 /\ j + 1 \in 1 .. 1 + r + n
        BY <1>2, <2>5, <3>2
      <4> QED BY <1>3, <2>4, <3>2, <4>1
    <3> QED BY <2>6, <3>1, <3>2
  <2>8. \A i, j \in DOMAIN Unanswered' : i < j => f[i] < f[j]
    BY <1>2, <2>5, <2>6
  <2> QED BY <1>4, <2>5, <2>7, <2>8 DEF Follows
<1> QED BY <1>6, <1>7 DEF H!Lose

\* Power is lost: only what the host still has to answer is unanswered, and comes no later.
LEMMA PowerLostMoves ==
  ASSUME Typical, Typical', PowerLost, NEW K \in SUBSET NotableKinds
  PROVE  Follows(K, 0, 0)
<1>1. /\ toDevice' = << >> /\ UNCHANGED <<toHost, delay>>
      /\ phEvent' = "NONE" /\ pc' = "setup" /\ lag' = 0
  BY DEF PowerLost, PowerCycle
<1> DEFINE r == Len(toDevice)
           n == Len(toHost)
<1>2. r \in Nat /\ n \in Nat /\ Len(toDevice') = 0
  BY <1>1 DEF Typical, Cells
<1>3. /\ DOMAIN Unanswered = 1 .. 1 + r + n /\ Len(Answered) = 1 + r
      /\ \A i \in 2 + r .. 1 + r + n : Unanswered[i] = toHost[i - 1 - r]
  BY DEF Typical, Cells
<1>4. /\ DOMAIN Unanswered' = 1 .. 1 + Len(toDevice') + Len(toHost')
      /\ Len(Answered)' = 1 + Len(toDevice')
  BY DEF Typical, Cells
<1> HIDE DEF r, n
<1>5. DOMAIN Unanswered' = 1 .. 1 + n /\ Len(Answered)' = 1
  BY <1>1, <1>2, <1>4 DEF n
<1>6. Unanswered'[1] \notin K
  BY <1>1 DEF Typical, Cells, NotableKinds, AwaitedKinds
<1>7. ASSUME NEW j \in 2 .. 1 + n PROVE Unanswered'[j] = Unanswered[j + r]
  <2>1. /\ j \in 2 + Len(toDevice') .. 1 + Len(toDevice') + Len(toHost')
        /\ j - 1 - Len(toDevice') = j - 1
    BY <1>1, <1>2 DEF n
  <2>2. Unanswered'[j] = toHost'[j - 1]
    BY <2>1 DEF Typical, Cells
  <2>3. j + r \in 2 + r .. 1 + r + n /\ (j + r) - 1 - r = j - 1
    BY <1>2
  <2> QED BY <1>1, <1>3, <2>2, <2>3
<1>8. ASSUME NEW j \in 2 .. 1 + n PROVE Comes(j + r, j, 0)
  <2>1. PICK k \in Nat \ {0} : j = k + 1 /\ k = j - 1
    BY <1>2
  <2>2. /\ Passes(k) \in Nat /\ Passes(k + 1) = Passes(k) + MaxLag /\ Passes(k) <= Turns(k)
        /\ Turns(k) \in Nat
    BY CostOfOne
  <2>3. delay \in 0 .. MaxDelay /\ MaxDelay \in Nat /\ MaxLag \in Nat
    BY SlowerIs DEF Typical, Bounded
  <2>4. ByDevice(j)' + 0 <= ByHost(k)
    BY <1>1, <2>1, <2>2, <2>3 DEF ByDevice, ByHost
  <2>5. ByHost(k)' = ByHost(k) /\ ByHost(k) \in Int
    BY <1>1, <2>2, <2>3 DEF ByHost
  <2>6. (j + r) - Len(Answered) = k /\ j - Len(Answered)' = k /\ j + r > Len(Answered)
    BY <1>2, <1>3, <1>5, <2>1
  <2>7. ByHost(j - Len(Answered))' = ByHost(k)'
    BY <2>6
  <2>8. j \in Nat \ {0} /\ j + r \in Nat \ {0}
    BY <1>2
  <2> QED BY <2>4, <2>5, <2>6, <2>7, <2>8, ComesIf
<1> DEFINE f == [j \in Int |-> j + r]
<1>9. f \in [Int -> Int] /\ \A j \in 2 .. 1 + n : f[j] = j + r
  BY <1>2
<1> HIDE DEF f
<1>10. ASSUME NEW j \in DOMAIN Unanswered', Unanswered'[j] \in K PROVE j \in 2 .. 1 + n
  BY <1>2, <1>5, <1>6, <1>10
<1>11. ASSUME NEW j \in DOMAIN Unanswered', Unanswered'[j] \in K
       PROVE  /\ f[j] \in DOMAIN Unanswered /\ Means(Unanswered[f[j]], Unanswered'[j])
              /\ Comes(f[j], j, 0)
  <2>1. j \in 2 .. 1 + n
    BY <1>10, <1>11
  <2>2. f[j] = j + r /\ j + r \in DOMAIN Unanswered
    <3>1. j + r \in 1 .. 1 + r + n
      BY <1>2, <2>1
    <3> QED BY <1>3, <1>9, <2>1, <3>1
  <2> QED BY <1>7, <1>8, <2>1, <2>2 DEF Means
<1>12. ASSUME NEW i \in DOMAIN Unanswered', NEW j \in DOMAIN Unanswered', i < j,
              Unanswered'[i] \in K, Unanswered'[j] \in K
       PROVE  f[i] < f[j]
  BY <1>2, <1>9, <1>10, <1>12
<1> QED BY <1>9, <1>11, <1>12 DEF Follows

\* Where the line that a step of the processor writes goes, 0 for none.
Written == IF toHost' = toHost THEN 0 ELSE 2 + Len(toDevice) + Len(toHost)

\* What a step of the processor does to the row, and to the time of the pass.
LEMMA RunSteps ==
  ASSUME Typical, Managed, Run
  PROVE  /\ UNCHANGED <<toDevice, delay>> /\ phEvent' \in {phEvent, "NONE"}
         /\ toHost' = IF out'.kind \in LineKind THEN Append(toHost, out'.kind) ELSE toHost
         /\ \/ pc = "protocol" /\ pc' = "events" /\ lag' = lag /\ toDevice = << >>
            \/ pc # "protocol" /\ lag' = lag
            \/ pc # "protocol" /\ pc' = "protocol" /\ lag' = 0
<1>1. Setup \/ Loop
  BY DEF Run
<1>2. /\ UNCHANGED <<toDevice, delay>>
      /\ toHost' = IF out'.kind \in LineKind THEN Append(toHost, out'.kind) ELSE toHost
  BY DEF Run, H!Hear, H!Answer, LineKind
<1>3. phEvent' \in {phEvent, "NONE"}
  BY <1>1, RunMoves DEF Typical
<1>4. \/ pc = "protocol" /\ pc' = "events" /\ lag' = lag
      \/ pc # "protocol" /\ lag' = lag
      \/ pc # "protocol" /\ pc' = "protocol" /\ lag' = 0
  BY <1>1
  DEF Setup, Loop, Begin, AddNode, Calling, NoMoreInput, ProtocolEvent, NoProtocolEvent,
      PendingCommand, NoCommandPending, HeartbeatUpdate, HeartbeatEvent, NoHeartbeatEvent,
      ConfigUpdate, ConfigEvent, NoConfigEvent, NodesUpdate, PollNodes, NothingPolled,
      StatusUpdate, StatusEvent, NextPass, Step
<1> QED BY <1>2, <1>3, <1>4 DEF Run

\* A step of the processor handles the first cell, or leaves it, and may add a line at the
\* end; no other cell moves, and each is due as it was.
LEMMA StepMoves ==
  ASSUME Typical, Typical', Managed, Run, NEW K \in SUBSET NotableKinds
  PROVE  Follows(K, Written, 0) /\ Keeps(K, IF phEvent' = phEvent THEN 0 ELSE 1, 0)
<1> DEFINE r == Len(toDevice)
           n == Len(toHost)
<1>1. /\ UNCHANGED <<toDevice, delay>> /\ phEvent' \in {phEvent, "NONE"}
      /\ \/ toHost' = toHost /\ Written = 0 /\ Len(toHost') = n
         \/ /\ Written = 2 + r + n /\ Len(toHost') = n + 1
            /\ \A i \in 1 .. n : toHost'[i] = toHost[i]
  <2>1. toHost \in Seq(LineKind) /\ n \in Nat
    BY DEF Typical, H!TypeOK, LineKind
  <2>2. CASE toHost' = toHost
    BY <2>2, RunSteps DEF Written
  <2>3. CASE toHost' # toHost
    BY <2>1, <2>3, RunSteps DEF Written
  <2> QED BY <2>2, <2>3
<1>2. r \in Nat /\ n \in Nat
  BY DEF Typical, Cells
<1>3. /\ DOMAIN Unanswered = 1 .. 1 + r + n /\ Len(Answered) = 1 + r
      /\ Unanswered[1] = phEvent
      /\ \A i \in 2 .. 1 + r : Unanswered[i] = toDevice[i - 1]
      /\ \A i \in 2 + r .. 1 + r + n : Unanswered[i] = toHost[i - 1 - r]
  BY DEF Typical, Cells
<1>4. /\ DOMAIN Unanswered' = 1 .. 1 + Len(toDevice') + Len(toHost')
      /\ Len(Answered)' = 1 + Len(toDevice')
      /\ Unanswered'[1] = phEvent'
      /\ \A i \in 2 .. 1 + Len(toDevice') : Unanswered'[i] = toDevice'[i - 1]
      /\ \A i \in 2 + Len(toDevice') .. 1 + Len(toDevice') + Len(toHost') :
           Unanswered'[i] = toHost'[i - 1 - Len(toDevice')]
  BY DEF Typical, Cells
<1>5. /\ DOMAIN Unanswered' = 1 .. 1 + r + Len(toHost') /\ Len(Answered)' = 1 + r
      /\ \A i \in 2 .. 1 + r : Unanswered'[i] = toDevice[i - 1]
      /\ \A i \in 2 + r .. 1 + r + Len(toHost') : Unanswered'[i] = toHost'[i - 1 - r]
  BY <1>1, <1>4
<1> HIDE DEF r, n
<1>6. ASSUME NEW i \in DOMAIN Unanswered, i # 1 PROVE Unanswered'[i] = Unanswered[i]
  <2>1. CASE i \in 2 .. 1 + r
    BY <1>3, <1>5, <2>1
  <2>2. CASE i \in 2 + r .. 1 + r + n
    <3>1. i \in 2 + r .. 1 + r + Len(toHost') /\ i - 1 - r \in 1 .. n
      BY <1>1, <1>2, <2>2
    <3>2. toHost'[i - 1 - r] = toHost[i - 1 - r]
      BY <1>1, <3>1
    <3> QED BY <1>3, <1>5, <2>2, <3>1, <3>2
  <2> QED BY <1>2, <1>3, <1>6, <2>1, <2>2
<1>7. ASSUME NEW i \in DOMAIN Unanswered, i # 1 \/ pc # "protocol" PROVE Comes(i, i, 0)
  <2>1. i \in Nat \ {0}
    BY <1>2, <1>3
  <2>2. lag \in 0 .. MaxLag /\ delay \in 0 .. MaxDelay /\ MaxDelay \in Nat /\ MaxLag \in Nat
    BY SlowerIs DEF Typical, Bounded
  <2>3. Passes(i) \in Nat
    BY <2>1, CostOfOne
  <2>4. pc # "protocol" => ByDevice(i)' + 0 <= ByDevice(i)
    <3>1. CASE pc # "protocol" /\ lag' = lag
      BY <2>2, <2>3, <3>1 DEF ByDevice
    <3>2. CASE pc # "protocol" /\ pc' = "protocol" /\ lag' = 0
      BY <2>2, <2>3, <3>2 DEF ByDevice
    <3> QED BY <3>1, <3>2, RunSteps
  <2>5. ASSUME pc = "protocol"
        PROVE  i > Len(Answered) /\ ByDevice(i)' + 0 <= ByHost(i - Len(Answered))
    <3>1. r = 0 /\ lag' = lag /\ pc' = "events"
      BY <2>5, RunSteps DEF r
    <3>2. PICK k \in Nat \ {0} : i = k + 1 /\ k = i - 1
      BY <1>7, <2>1, <2>5
    <3>3. /\ Passes(k) \in Nat /\ Passes(k + 1) = Passes(k) + MaxLag /\ Passes(k) <= Turns(k)
          /\ Turns(k) \in Nat
      BY CostOfOne
    <3>4. ByDevice(i)' + 0 <= ByHost(k)
      BY <2>2, <3>1, <3>2, <3>3 DEF ByDevice, ByHost
    <3>5. Len(Answered) = 1
      BY <1>3, <3>1
    <3> QED BY <3>2, <3>4, <3>5
  <2>6. i > Len(Answered)' =>
          /\ i > Len(Answered)
          /\ ByHost(i - Len(Answered))' + 0 <= ByHost(i - Len(Answered))
    <3>1. Len(Answered)' = Len(Answered)
      BY <1>3, <1>5
    <3>2. ByHost(i - Len(Answered))' = ByHost(i - Len(Answered))
      BY <1>1, <3>1 DEF ByHost
    <3> QED BY <2>1, <3>1, <3>2, TimesTypedIs DEF TimesTyped
  <2> QED BY <2>1, <2>4, <2>5, <2>6, ComesIf
<1>8. Unanswered[1] \in K => pc # "protocol"
  BY <1>3 DEF Typical, DeviceInv, NothingOverwritten, NotableKinds, AwaitedKinds
<1>9. Unanswered'[1] \in K => pc # "protocol" /\ Unanswered'[1] = Unanswered[1]
  <2>1. "NONE" \notin K
    BY DEF NotableKinds, AwaitedKinds
  <2> QED BY <1>1, <1>3, <1>4, <1>8, <2>1
<1>10. \A x : Means(x, x)
  BY DEF Means
<1>11. Keeps(K, IF phEvent' = phEvent THEN 0 ELSE 1, 0)
  <2> SUFFICES ASSUME NEW i \in DOMAIN Unanswered, Unanswered[i] \in K,
                      i # (IF phEvent' = phEvent THEN 0 ELSE 1)
               PROVE  \E j \in DOMAIN Unanswered' :
                        Means(Unanswered[i], Unanswered'[j]) /\ Comes(i, j, 0)
    BY DEF Keeps
  <2>1. i \in DOMAIN Unanswered'
    BY <1>1, <1>2, <1>3, <1>5
  <2>2. Unanswered'[i] = Unanswered[i]
    BY <1>3, <1>4, <1>6
  <2> QED BY <1>7, <1>8, <1>10, <2>1, <2>2
<1>12. Follows(K, Written, 0)
  <2> DEFINE f == [j \in Int |-> j]
  <2>1. f \in [Int -> Int] /\ \A j \in DOMAIN Unanswered' : f[j] = j
    BY <1>2, <1>5
  <2> HIDE DEF f
  <2>2. ASSUME NEW j \in DOMAIN Unanswered', j # Written PROVE j \in DOMAIN Unanswered
    <3>1. DOMAIN Unanswered = 1 .. 1 + r + n /\ DOMAIN Unanswered' = 1 .. 1 + r + Len(toHost')
      BY <1>3, <1>5
    <3>2. Len(toHost') = n \/ (Written = 2 + r + n /\ Len(toHost') = n + 1)
      BY <1>1
    <3> QED BY <1>2, <2>2, <3>1, <3>2
  <2>3. ASSUME NEW j \in DOMAIN Unanswered', j # Written, Unanswered'[j] \in K
        PROVE  /\ f[j] \in DOMAIN Unanswered /\ Means(Unanswered[f[j]], Unanswered'[j])
               /\ Comes(f[j], j, 0)
    <3>1. j \in DOMAIN Unanswered /\ f[j] = j
      BY <2>1, <2>2, <2>3
    <3>2. CASE j = 1
      BY <1>7, <1>9, <1>10, <2>3, <3>1, <3>2
    <3>3. CASE j # 1
      BY <1>6, <1>7, <1>10, <3>1, <3>3
    <3> QED BY <3>2, <3>3
  <2>4. \A i, j \in DOMAIN Unanswered' : i < j => f[i] < f[j]
    BY <2>1
  <2> QED BY <2>1, <2>3, <2>4 DEF Follows
<1> QED BY <1>11, <1>12

-----------------------------------------------------------------------------
(* What lasts when the cells move *)

\* The kinds are those that announce, configure or beat.
LEMMA AwaitedIs ==
  ASSUME NEW x
  PROVE  /\ Awaited(x) <=> x \in AwaitedKinds
         /\ Announces(x) \/ Configures(x) => x \in AwaitedKinds
BY DEF Awaited, Announces, Configures, Beats, AwaitedKinds

\* What is due stays due, whoever measures it by x before the step and by y after it.
LEMMA DueLasts ==
  ASSUME Typical, Typical', NEW e \in Int, NEW i \in DOMAIN Unanswered, NEW j \in DOMAIN Unanswered',
         Comes(i, j, e), NEW x \in Int, NEW y \in Int, x - e <= y, DueIn(i, x)
  PROVE  DueIn(j, y)'
<1>1. DueIn(j, x - e)' /\ x - e \in Int
  BY DEF Comes
<1>2. j \in Nat \ {0}
  BY DEF Typical, Cells
<1>3. DueLater'
  BY DueLaterIs
<1> QED BY <1>1, <1>2, <1>3 DEF DueLater

\* Answers stay prompt while the ages of the monitors grow with the time.
LEMMA PromptLasts ==
  ASSUME Typical, Typical', NEW e \in Int, NEW new, Follows(AwaitedKinds, new, e),
         NEW a \in Int, NEW b \in Int, NEW c \in Int, NEW d \in Int, c <= a + e, d <= b + e,
         \A i \in DOMAIN Unanswered : Awaited(Unanswered[i]) => InTime(i, a, b)
  PROVE  \A j \in DOMAIN Unanswered' : j # new /\ Awaited(Unanswered'[j]) => InTime(j, c, d)'
<1> SUFFICES ASSUME NEW j \in DOMAIN Unanswered', j # new, Awaited(Unanswered'[j])
             PROVE  InTime(j, c, d)'
  OBVIOUS
<1>1. PICK i \in DOMAIN Unanswered : Means(Unanswered[i], Unanswered'[j]) /\ Comes(i, j, e)
  BY AwaitedIs DEF Follows
<1>2. Awaited(Unanswered[i])
  BY <1>1 DEF Means, Awaited
<1>3. i \in Nat \ {0} /\ j \in Nat \ {0}
  BY DEF Typical, Cells
<1> QED BY <1>1, <1>2, <1>3, ComesInTime

\* An announcement stays as old as it is.
LEMMA AnnouncementsLast ==
  ASSUME Typical, Typical', NEW e \in Int, NEW new, Follows(AwaitedKinds, new, e),
         NEW x \in Int, NEW y \in Int, x - e <= y,
         \A i \in DOMAIN Unanswered : Announces(Unanswered[i]) => DueIn(i, x)
  PROVE  \A j \in DOMAIN Unanswered' : j # new /\ Announces(Unanswered'[j]) => DueIn(j, y)'
<1> SUFFICES ASSUME NEW j \in DOMAIN Unanswered', j # new, Announces(Unanswered'[j])
             PROVE  DueIn(j, y)'
  OBVIOUS
<1>1. PICK i \in DOMAIN Unanswered : Means(Unanswered[i], Unanswered'[j]) /\ Comes(i, j, e)
  BY AwaitedIs DEF Follows
<1>2. Announces(Unanswered[i])
  BY <1>1 DEF Means
<1> QED BY <1>1, <1>2, DueLasts

\* And so does one that a configuration has followed.
LEMMA AttemptsLast ==
  ASSUME Typical, Typical', NEW e \in Int, NEW new, Follows(AwaitedKinds, new, e),
         NEW x \in Int, NEW y \in Int, x - e <= y,
         \A i, j \in DOMAIN Unanswered :
           i < j /\ Announces(Unanswered[i]) /\ Configures(Unanswered[j]) => DueIn(i, x)
  PROVE  \A i, j \in DOMAIN Unanswered' :
           i < j /\ i # new /\ j # new /\ Announces(Unanswered'[i]) /\ Configures(Unanswered'[j])
             => DueIn(i, y)'
<1> SUFFICES ASSUME NEW i \in DOMAIN Unanswered', NEW j \in DOMAIN Unanswered', i < j,
                    i # new, j # new, Announces(Unanswered'[i]), Configures(Unanswered'[j])
             PROVE  DueIn(i, y)'
  OBVIOUS
<1>1. Unanswered'[i] \in AwaitedKinds /\ Unanswered'[j] \in AwaitedKinds
  BY AwaitedIs
<1>2. PICK k \in DOMAIN Unanswered, m \in DOMAIN Unanswered :
        /\ Means(Unanswered[k], Unanswered'[i]) /\ Means(Unanswered[m], Unanswered'[j])
        /\ Comes(k, i, e) /\ k < m
  BY <1>1 DEF Follows
<1>3. Announces(Unanswered[k]) /\ Configures(Unanswered[m])
  BY <1>2 DEF Means
<1> QED BY <1>2, <1>3, DueLasts

\* What ended stays so.
LEMMA AttemptsStayEnded ==
  ASSUME NEW e, Follows(AwaitedKinds, 0, e), DOMAIN Unanswered' \subseteq Nat \ {0},
         ~UpThenConfig(Unanswered)
  PROVE  ~UpThenConfig(Unanswered')
<1> SUFFICES ASSUME NEW i \in DOMAIN Unanswered', NEW j \in DOMAIN Unanswered', i < j,
                    Announces(Unanswered'[i]), Configures(Unanswered'[j])
             PROVE  FALSE
  BY DEF UpThenConfig
<1>1. Unanswered'[i] \in AwaitedKinds /\ Unanswered'[j] \in AwaitedKinds /\ i # 0 /\ j # 0
  BY AwaitedIs
<1>2. PICK k \in DOMAIN Unanswered, m \in DOMAIN Unanswered :
        Means(Unanswered[k], Unanswered'[i]) /\ Means(Unanswered[m], Unanswered'[j]) /\ k < m
  BY <1>1 DEF Follows
<1>3. Announces(Unanswered[k]) /\ Configures(Unanswered[m])
  BY <1>2 DEF Means
<1> QED BY <1>2, <1>3 DEF UpThenConfig

-----------------------------------------------------------------------------
(* What a step of the processor does to the monitors *)

\* Handling an event leaves both monitors, or gives them the time.
LEMMA EventMonitors ==
  ASSUME NEW e, Managed, HandleEvent(e)
  PROVE  /\ \/ UNCHANGED cm
            \/ cm' = CM!Fresh(now) \/ cm' = CM!Stopped
            \/ /\ e = "UP_ACK"
               /\ cm' = [cm EXCEPT !.state = "CFG", !.waiting = FALSE, !.last = now]
         /\ hb' \in {hb, [hb EXCEPT !.waiting = FALSE, !.last = now]}
<1>1. CM!RestartHandshake(now) => cm' = CM!Fresh(now)
  BY DEF CM!RestartHandshake, Managed
<1> QED BY <1>1 DEF HandleEvent, OnConfigTimeout, OnHeartbeatTimeout, OnStatusUpdate, CM!HandleEvent,
       HB!HandleEvent

\* An event writes one of the lines the host answers only if it asks for it.
LEMMA EventWrites ==
  ASSUME NEW e, e # "GET_STATE", sm \in FSM!States, HandleEvent(e)
  PROVE  /\ out'.kind = "UP" => e \in {"UP_REQUEST", "UP_TIMEOUT"}
         /\ out'.kind = "CONFIG" => e = "CFG_REQUEST"
         /\ out'.kind = "HB" => e = "HB_REQUEST"
         /\ out'.kind \in LineKind => UNCHANGED <<cm, hb>>
<1>1. PH!StateLine(sm).kind \notin {"CONFIG", "HB"} /\ NoLine.kind \notin LineKind
  BY DEF PH!StateLine, NoLine, PH!NoLine, PH!Line, FSM!States, LineKind
<1>2. /\ PH!Line("CONFIG").kind = "CONFIG" /\ PH!Line("HB").kind = "HB"
      /\ PH!Line("STATUS").kind = "STATUS"
  BY DEF PH!Line
<1> QED
  BY <1>1, <1>2
  DEF HandleEvent, OnConfigTimeout, OnHeartbeatTimeout, OnStatusUpdate, Quiet, Write, LineKind

\* What the monitors have raised is handled before anything else is.
LEMMA RaisedNow ==
  ASSUME DeviceInv, Run
  PROVE  /\ ConfigUpdate \/ cmEvent' = "NONE"
         /\ HeartbeatUpdate \/ hbEvent' = "NONE"
         /\ UNCHANGED now
<1> USE DEF DeviceInv, NothingOverwritten, Step, monitors, HasEvent
<1>1. CASE Begin
  BY <1>1 DEF Begin, Calling, CM!Begin, HB!Begin
<1>2. ASSUME NEW n \in Node, AddNode(n) PROVE UNCHANGED <<monitors, now>> /\ pc = "setup"
  BY <1>2 DEF AddNode, Calling
<1>3. CASE Loop
  BY <1>3
  DEF Loop, NoMoreInput, ProtocolEvent, NoProtocolEvent, PendingCommand, NoCommandPending,
      HeartbeatUpdate, HeartbeatEvent, NoHeartbeatEvent, ConfigUpdate, ConfigEvent,
      NoConfigEvent, NodesUpdate, PollNodes, NothingPolled, StatusUpdate, StatusEvent, NextPass
<1> QED BY <1>1, <1>2, <1>3 DEF Run, Setup

\* What a step of the processor may make of the handshake monitor when it does not update it.
HandshakeMoves ==
  \/ UNCHANGED cm
  \/ HandshakeAge' = 0 /\ (~cm'.run \/ cm'.state = "UP" \/ ~cm'.waiting)

\* A monitor that is given the time has just begun to measure.
LEMMA AgesStartOver ==
  ASSUME Typical, UNCHANGED now
  PROVE  /\ cm' \in {CM!Fresh(now), CM!Stopped, [CM!Fresh(now) EXCEPT !.run = TRUE],
                      [cm EXCEPT !.state = "CFG", !.waiting = FALSE, !.last = now]}
              => HandshakeMoves /\ HandshakeAge' = 0
         /\ hb' \in {[hb EXCEPT !.waiting = FALSE, !.last = now],
                      [run |-> TRUE, waiting |-> FALSE, last |-> now]}
              => HeartbeatAge' = 0
         /\ UNCHANGED cm => HandshakeAge' = HandshakeAge
         /\ UNCHANGED hb => HeartbeatAge' = HeartbeatAge
<1>1. cm \in CM!Monitor /\ hb \in HB!Monitor /\ now \in Instant
  BY DEF Typical, DeviceInv, TypeOK, CM!TypeOK, HB!TypeOK
<1>2. Elapsed(now, now) = 0
  BY <1>1, ElapsedTyped
<1>3. cm' \in {CM!Fresh(now), CM!Stopped, [CM!Fresh(now) EXCEPT !.run = TRUE],
                [cm EXCEPT !.state = "CFG", !.waiting = FALSE, !.last = now]}
        => HandshakeMoves /\ HandshakeAge' = 0
  <2>1. cm' = CM!Stopped => ~cm'.run
    BY DEF CM!Stopped
  <2>2. cm' \in {CM!Fresh(now), [CM!Fresh(now) EXCEPT !.run = TRUE]}
          => cm'.run = TRUE /\ cm'.state = "UP" /\ cm'.last = now
    BY DEF CM!Fresh
  <2>3. cm' = [cm EXCEPT !.state = "CFG", !.waiting = FALSE, !.last = now]
          => ~cm'.waiting /\ cm'.last = now
    BY <1>1 DEF CM!Monitor
  <2>4. ~cm'.run \/ cm'.last = now => HandshakeAge' = 0
    <3>1. cm'.last = now => Elapsed(now', cm'.last) = 0
      BY <1>2
    <3> QED BY <3>1, Zenon DEF HandshakeAge
  <2> QED BY <2>1, <2>2, <2>3, <2>4 DEF HandshakeMoves
<1>4. hb' \in {[hb EXCEPT !.waiting = FALSE, !.last = now],
                [run |-> TRUE, waiting |-> FALSE, last |-> now]}
        => HeartbeatAge' = 0
  <2>1. hb' = [hb EXCEPT !.waiting = FALSE, !.last = now] => hb'.last = now
    BY <1>1 DEF HB!Monitor
  <2>2. hb' = [run |-> TRUE, waiting |-> FALSE, last |-> now] => hb'.last = now
    OBVIOUS
  <2>3. hb'.last = now => HeartbeatAge' = 0
    BY <1>2 DEF HeartbeatAge
  <2> QED BY <2>1, <2>2, <2>3
<1>5. UNCHANGED cm => HandshakeAge' = HandshakeAge
  BY DEF HandshakeAge
<1>6. UNCHANGED hb => HeartbeatAge' = HeartbeatAge
  BY DEF HeartbeatAge
<1> QED BY <1>3, <1>4, <1>5, <1>6

\* Whatever the processor does, a monitor's age stays or starts from 0; and it is what the
\* monitors raised in this pass that writes the lines the host answers.
LEMMA RunMonitors ==
  ASSUME Typical, Managed, phEvent # "GET_STATE", Run
  PROVE  /\ HandshakeAge' \in {HandshakeAge, 0} /\ HeartbeatAge' \in {HeartbeatAge, 0}
         /\ HandshakeMoves \/ ConfigUpdate
         /\ out'.kind = "UP" => Announcing
         /\ out'.kind = "CONFIG" => cmEvent = "CFG_REQUEST"
         /\ out'.kind = "HB" => Beating
         /\ out'.kind \in LineKind =>
              /\ UNCHANGED <<cm, hb, pc, lag>> /\ pc # "protocol"
              /\ cmEvent' = "NONE" /\ hbEvent' = "NONE"
<1> USE DEF Step, monitors
<1>0. DeviceInv /\ TypeOK /\ UNCHANGED now
  BY RaisedNow DEF Typical, DeviceInv
<1>1. NoLine.kind \notin LineKind
  BY DEF NoLine, PH!NoLine, PH!Line, LineKind
<1> DEFINE Good ==
             /\ HandshakeAge' \in {HandshakeAge, 0} /\ HeartbeatAge' \in {HeartbeatAge, 0}
             /\ HandshakeMoves \/ ConfigUpdate
           Silent == out'.kind \notin LineKind
<1>2. ASSUME NEW e, HandleEvent(e) PROVE Good
  <2>1. HandshakeMoves /\ HandshakeAge' \in {HandshakeAge, 0}
    BY <1>0, <1>2, EventMonitors, AgesStartOver DEF HandshakeMoves
  <2>2. HeartbeatAge' \in {HeartbeatAge, 0}
    BY <1>0, <1>2, EventMonitors, AgesStartOver
  <2> QED BY <2>1, <2>2
<1>3. CASE Begin
  <2>1. cm' = [CM!Fresh(now) EXCEPT !.run = TRUE]
        /\ hb' = [run |-> TRUE, waiting |-> FALSE, last |-> now]
    BY <1>3 DEF Begin, CM!Begin, HB!Begin, Managed
  <2>2. out' = NoLine
    BY <1>3 DEF Begin, Calling
  <2>3. Good
    BY <1>0, <2>1, AgesStartOver
  <2> QED BY <1>1, <2>2, <2>3 DEF LineKind
<1>4. CASE ProtocolEvent
  <2>1. phEvent \notin {"UP_REQUEST", "UP_TIMEOUT", "CFG_REQUEST", "HB_REQUEST", "GET_STATE"}
    BY <1>0, <1>4 DEF TypeOK, PH!TypeOK, PH!ReceivedEvents
  <2>2. Silent
    BY <1>0, <1>4, <2>1, EventWrites DEF ProtocolEvent, LineKind, TypeOK
  <2>3. Good
    BY <1>2, <1>4 DEF ProtocolEvent
  <2> QED BY <2>2, <2>3 DEF LineKind
<1>5. CASE HeartbeatEvent
  <2>1. hbEvent \in {"HB_REQUEST", "HB_TIMEOUT"} /\ cmEvent = "NONE" /\ UNCHANGED cmEvent
    BY <1>0, <1>5
    DEF HeartbeatEvent, TypeOK, HB!TypeOK, HasEvent, DeviceInv, NothingOverwritten
  <2>2. /\ out'.kind = "HB" => Beating
        /\ out'.kind \in LineKind => UNCHANGED <<cm, hb>> /\ out'.kind = "HB"
    BY <1>0, <1>5, <2>1, EventWrites DEF HeartbeatEvent, LineKind, TypeOK, Beating
  <2>3. Good
    BY <1>2, <1>5 DEF HeartbeatEvent
  <2> QED BY <1>5, <2>1, <2>2, <2>3 DEF HeartbeatEvent, LineKind
<1>6. CASE ConfigEvent
  <2>1. /\ cmEvent \in {"UP_REQUEST", "UP_TIMEOUT", "CFG_REQUEST", "CFG_TIMEOUT"}
        /\ hbEvent = "NONE" /\ UNCHANGED hbEvent
    BY <1>0, <1>6
    DEF ConfigEvent, TypeOK, CM!TypeOK, CM!Requests, CM!Timeouts, HasEvent, DeviceInv,
        NothingOverwritten
  <2>2. /\ out'.kind = "UP" => Announcing
        /\ out'.kind = "CONFIG" => cmEvent = "CFG_REQUEST"
        /\ out'.kind # "HB"
        /\ out'.kind \in LineKind => UNCHANGED <<cm, hb>>
    BY <1>0, <1>6, <2>1, EventWrites DEF ConfigEvent, TypeOK, Announcing
  <2>3. Good
    BY <1>2, <1>6 DEF ConfigEvent
  <2> QED BY <1>6, <2>1, <2>2, <2>3 DEF ConfigEvent
<1>7. CASE StatusEvent
  <2>1. stEvent = "STATUS_UPDATE"
    BY <1>0, <1>7 DEF StatusEvent, TypeOK, ST!TypeOK, HasEvent
  <2>2. Silent
    BY <1>0, <1>7, <2>1, EventWrites DEF StatusEvent, LineKind, TypeOK
  <2>3. Good
    BY <1>2, <1>7 DEF StatusEvent
  <2> QED BY <2>2, <2>3 DEF LineKind
<1>8. CASE HeartbeatUpdate
  <2>1. out' = NoLine /\ UNCHANGED cm
    BY <1>8 DEF HeartbeatUpdate, Quiet
  <2>2. HeartbeatAge' \in {HeartbeatAge, 0}
    <3>1. hb \in HB!Monitor
      BY <1>0 DEF TypeOK, HB!TypeOK
    <3>2. now \in Instant
      BY <1>0 DEF TypeOK
    <3> QED BY <1>0, <1>8, <3>1, <3>2, ElapsedTyped
            DEF HeartbeatUpdate, HB!Update, HeartbeatAge, HB!Monitor
  <2>3. Good
    BY <1>0, <2>1, <2>2, AgesStartOver DEF HandshakeMoves
  <2> QED BY <1>1, <2>1, <2>3 DEF LineKind
<1>9. CASE ConfigUpdate
  <2>1. out' = NoLine /\ UNCHANGED hb
    BY <1>9 DEF ConfigUpdate, Quiet
  <2>2. HandshakeAge' \in {HandshakeAge, 0}
    <3>1. cm \in CM!Monitor
      BY <1>0 DEF TypeOK, CM!TypeOK
    <3>2. now \in Instant
      BY <1>0 DEF TypeOK
    <3> QED BY <1>0, <1>9, <3>1, <3>2, ElapsedTyped
            DEF ConfigUpdate, CM!Update, HandshakeAge, CM!Monitor
  <2>3. Good
    BY <1>0, <1>9, <2>1, <2>2, AgesStartOver
  <2> QED BY <1>1, <2>1, <2>3 DEF LineKind
<1>10. CASE UNCHANGED <<cm, hb>> /\ Silent
  <2>1. Good
    BY <1>0, <1>10, AgesStartOver DEF HandshakeMoves
  <2> QED BY <1>10, <2>1 DEF LineKind
<1>11. ASSUME NEW c \in Node, AddNode(c) PROVE UNCHANGED <<cm, hb>> /\ out' = NoLine
  BY <1>11 DEF AddNode, Calling
<1>12. CASE PendingCommand
  <2>1. out'.kind \in PH!ReplyKinds
    <3>1. phCommand \in HostCommand
      BY <1>0, <1>12 DEF PendingCommand, TypeOK, PH!TypeOK, NoCommand
    <3>2. NC!ErrorResult("INVALID_STATE") \in NC!CommandResult
      BY DEF NC!CommandResult, NC!CommandErrors
    <3> QED BY <1>12, <3>1, <3>2, ResultTyped, ReplyTyped DEF PendingCommand, HandleCommand, Write
  <2>2. Silent
    BY <2>1 DEF PH!ReplyKinds, LineKind
  <2> QED BY <1>10, <1>12, <2>2 DEF PendingCommand
<1>13. CASE PollNodes
  <2>1. UNCHANGED <<cm, hb>> /\ Silent
    BY <1>13 DEF PollNodes, Write, PH!Line, LineKind
  <2> QED BY <1>10, <2>1
<1>14. CASE \/ NoMoreInput \/ NoProtocolEvent \/ NoCommandPending \/ NoHeartbeatEvent
            \/ NoConfigEvent \/ NodesUpdate \/ NothingPolled \/ StatusUpdate \/ NextPass
  <2>1. UNCHANGED <<cm, hb>> /\ out' = NoLine
    BY <1>14
    DEF NoMoreInput, NoProtocolEvent, NoCommandPending, NoHeartbeatEvent, NoConfigEvent,
        NodesUpdate, NothingPolled, StatusUpdate, NextPass, Quiet
  <2> QED BY <1>1, <1>10, <2>1
<1> QED
  BY <1>1, <1>3, <1>4, <1>5, <1>6, <1>7, <1>8, <1>9, <1>10, <1>11, <1>12, <1>13, <1>14
  DEF Run, Setup, Loop

-----------------------------------------------------------------------------
(* Answers stay prompt *)

\* The numbers that are compared.
LEMMA Numbers ==
  /\ Typical => HandshakeAge \in Nat /\ HeartbeatAge \in Nat /\ Cost \in Nat
                /\ lag \in 0 .. MaxLag /\ delay \in 0 .. MaxDelay
  /\ Typical' => HandshakeAge' \in Nat /\ HeartbeatAge' \in Nat /\ Cost' \in Nat
                 /\ lag' \in 0 .. MaxLag /\ delay' \in 0 .. MaxDelay
  /\ CONFIG_INTERVAL \in Nat \ {0} /\ HEARTBEAT_INTERVAL \in Nat \ {0}
<1>1. Typical => HandshakeAge \in Nat /\ HeartbeatAge \in Nat /\ Cost \in Nat
                 /\ lag \in 0 .. MaxLag /\ delay \in 0 .. MaxDelay
  BY SlowerIs DEF Typical, Bounded, Cost
<1>2. Typical' => HandshakeAge' \in Nat /\ HeartbeatAge' \in Nat /\ Cost' \in Nat
                  /\ lag' \in 0 .. MaxLag /\ delay' \in 0 .. MaxDelay
  BY SlowerIs DEF Typical, Bounded, Cost
<1>3. CONFIG_INTERVAL \in Nat \ {0} /\ HEARTBEAT_INTERVAL \in Nat \ {0}
  BY OrquestratorAssumption
<1> QED BY <1>1, <1>2, <1>3

\* While the monitors grow no older than the time, and no line is waited for that was not,
\* every cell but a new one keeps what is claimed of it.
LEMMA CellsKeepAges ==
  ASSUME Typical, Typical', TimingInv, NEW e \in Int, NEW new, Follows(AwaitedKinds, new, e),
         HandshakeAge' <= HandshakeAge + e, HeartbeatAge' <= HeartbeatAge + e, Cost' <= Cost
  PROVE  /\ \A j \in DOMAIN Unanswered' : j # new /\ Awaited(Unanswered'[j]) =>
              InTime(j, HandshakeAge + Cost, HeartbeatAge + Cost)'
         /\ \A i, j \in DOMAIN Unanswered' :
              i < j /\ i # new /\ j # new /\ Announces(Unanswered'[i]) /\ Configures(Unanswered'[j])
                => DueIn(i, Answer - HandshakeAge - CONFIG_INTERVAL)'
         /\ UNCHANGED cm /\ cm.run /\ cm.state = "CFG" =>
              \A j \in DOMAIN Unanswered' : j # new /\ Announces(Unanswered'[j]) =>
                DueIn(j, Answer - HandshakeAge - (IF cm.waiting THEN CONFIG_INTERVAL ELSE 0))'
<1>1. PICK x \in Int, y \in Int : x = HandshakeAge' + Cost' /\ y = HeartbeatAge' + Cost'
  BY Numbers
<1>2. /\ HandshakeAge + Cost \in Int /\ HeartbeatAge + Cost \in Int
      /\ x <= (HandshakeAge + Cost) + e /\ y <= (HeartbeatAge + Cost) + e
  BY <1>1, Numbers
<1>3. \A i \in DOMAIN Unanswered : Awaited(Unanswered[i]) =>
        InTime(i, HandshakeAge + Cost, HeartbeatAge + Cost)
  BY DEF TimingInv, AnswersArePrompt
<1>4. \A j \in DOMAIN Unanswered' : j # new /\ Awaited(Unanswered'[j]) => InTime(j, x, y)'
  BY <1>2, <1>3, PromptLasts
<1>5. PICK z \in Int : z = Answer - HandshakeAge' - CONFIG_INTERVAL
  BY AnswerIs, Numbers
<1>6. /\ Answer - HandshakeAge - CONFIG_INTERVAL \in Int
      /\ (Answer - HandshakeAge - CONFIG_INTERVAL) - e <= z
  BY <1>5, AnswerIs, Numbers
<1>7. \A i, j \in DOMAIN Unanswered' :
        i < j /\ i # new /\ j # new /\ Announces(Unanswered'[i]) /\ Configures(Unanswered'[j])
          => DueIn(i, z)'
  <2>1. \A i, j \in DOMAIN Unanswered :
          i < j /\ Announces(Unanswered[i]) /\ Configures(Unanswered[j]) =>
            DueIn(i, Answer - HandshakeAge - CONFIG_INTERVAL)
    BY DEF TimingInv, AttemptsAge
  <2> QED BY <1>6, <2>1, AttemptsLast
<1>8. ASSUME UNCHANGED cm, cm.run, cm.state = "CFG"
      PROVE  \A j \in DOMAIN Unanswered' : j # new /\ Announces(Unanswered'[j]) =>
               DueIn(j, Answer - HandshakeAge - (IF cm.waiting THEN CONFIG_INTERVAL ELSE 0))'
  <2>1. PICK w \in Nat : w = IF cm.waiting THEN CONFIG_INTERVAL ELSE 0
    BY Numbers
  <2>2. w = IF cm'.waiting THEN CONFIG_INTERVAL ELSE 0
    BY <1>8, <2>1
  <2>3. PICK v \in Int : v = Answer - HandshakeAge' - w
    BY AnswerIs, Numbers
  <2>4. Answer - HandshakeAge - w \in Int /\ (Answer - HandshakeAge - w) - e <= v
    BY <2>3, AnswerIs, Numbers
  <2>5. \A i \in DOMAIN Unanswered : Announces(Unanswered[i]) =>
          DueIn(i, Answer - HandshakeAge - w)
    BY <1>8, <2>1 DEF TimingInv, AnnouncementsAge
  <2>6. \A j \in DOMAIN Unanswered' : j # new /\ Announces(Unanswered'[j]) => DueIn(j, v)'
    BY <2>4, <2>5, AnnouncementsLast
  <2> QED BY <2>2, <2>3, <2>6
<1> QED BY <1>1, <1>4, <1>5, <1>7, <1>8

\* A step of the host, of time or of a fault, or one that reads a line.
Outside ==
  Read \/ HostAnswers \/ UserAsks \/ TimePasses \/ LineLost \/ RebootAsked \/ PowerLost

\* Outside the processor nothing is asked for, and no cell is added that is waited for; in
\* a millisecond the monitors grow older by no more.
LEMMA OutsideMoves ==
  ASSUME Typical, Typical', Outside
  PROVE  \E e \in {0, 1} :
           /\ Follows(AwaitedKinds, 0, e)
           /\ HandshakeAge' <= HandshakeAge + e /\ HeartbeatAge' <= HeartbeatAge + e
           /\ \/ UNCHANGED <<cm, cmEvent, hb, hbEvent>> /\ lag' = lag + e
              \/ ~cm'.run /\ cmEvent' = "NONE" /\ hbEvent' = "NONE"
<1>0. AwaitedKinds \in SUBSET NotableKinds
  BY DEF NotableKinds
<1>1. ASSUME UNCHANGED <<cm, cmEvent, hb, hbEvent, now, lag>>
      PROVE  /\ HandshakeAge' <= HandshakeAge + 0 /\ HeartbeatAge' <= HeartbeatAge + 0
             /\ UNCHANGED <<cm, cmEvent, hb, hbEvent>> /\ lag' = lag + 0
  <2>1. HandshakeAge' = HandshakeAge /\ HeartbeatAge' = HeartbeatAge
    BY <1>1 DEF HandshakeAge, HeartbeatAge
  <2> QED BY <1>1, <2>1, Numbers
<1>2. CASE Read
  <2>1. UNCHANGED <<cm, cmEvent, hb, hbEvent, now, lag>>
    BY <1>2 DEF Read, ReadLine, Step, monitors
  <2>2. Follows(AwaitedKinds, 0, 0)
    BY <1>0, <1>2, ReadMoves
  <2> QED BY <1>1, <2>1, <2>2
<1>3. CASE HostAnswers \/ UserAsks \/ LineLost \/ RebootAsked
  <2>1. UNCHANGED vars
    BY <1>3 DEF HostAnswers, UserAsks, LineLost, RebootAsked
  <2>2. UNCHANGED <<cm, cmEvent, hb, hbEvent, now, lag>>
    BY <2>1 DEF vars, monitors
  <2>3. Follows(AwaitedKinds, 0, 0)
    <3>1. CASE HostAnswers
      BY <3>1, AnswerMoves
    <3>2. CASE UserAsks
      <4>1. PICK m \in UserRequests : H!Request(m)
        BY <3>2 DEF UserAsks
      <4>2. m \notin AwaitedKinds
        BY HostSessionAssumption DEF AwaitedKinds
      <4> QED BY <2>1, <4>1, <4>2, RequestMoves
    <3>3. CASE LineLost
      BY <2>1, <3>3, LossMoves DEF LineLost
    <3>4. CASE RebootAsked
      <4>1. "REBOOT" \notin AwaitedKinds /\ H!Request("REBOOT")
        BY <3>4 DEF RebootAsked, AwaitedKinds
      <4> QED BY <2>1, <4>1, RequestMoves
    <3> QED BY <1>3, <3>1, <3>2, <3>3, <3>4
  <2> QED BY <1>1, <2>2, <2>3
<1>4. CASE TimePasses
  <2>1. UNCHANGED <<cm, cmEvent, hb, hbEvent>> /\ lag' = lag + 1 /\ now' = NextInstant(now)
    BY <1>4 DEF TimePasses, Tick, monitors
  <2>2. now \in Instant /\ cm.last \in Instant /\ hb.last \in Instant
    BY DEF Typical, DeviceInv, TypeOK, CM!TypeOK, CM!Monitor, CM!Instant, HB!TypeOK, HB!Monitor,
           HB!Instant, Instant
  <2>3. /\ Elapsed(now', cm.last) <= Elapsed(now, cm.last) + 1
        /\ Elapsed(now', hb.last) <= Elapsed(now, hb.last) + 1
    BY <2>1, <2>2, ElapsedTick
  <2>4. HandshakeAge' <= HandshakeAge + 1
    <3>1. CASE cm.run
      BY <2>1, <2>3, <3>1 DEF HandshakeAge
    <3>2. CASE ~cm.run
      BY <2>1, <3>2 DEF HandshakeAge
    <3> QED BY <3>1, <3>2
  <2>5. HeartbeatAge' <= HeartbeatAge + 1
    BY <2>1, <2>3 DEF HeartbeatAge
  <2>6. Follows(AwaitedKinds, 0, 1)
    BY <1>4, TimeMoves
  <2> QED BY <2>1, <2>4, <2>5, <2>6
<1>5. CASE PowerLost
  <2>1. /\ cm' = CM!Unstarted /\ cmEvent' = "NONE" /\ hb' = HB!Unstarted /\ hbEvent' = "NONE"
        /\ now' = 0
    BY <1>5 DEF PowerLost, PowerCycle
  <2>2. ~cm'.run /\ hb'.last = 0
    BY <2>1 DEF CM!Unstarted, HB!Unstarted
  <2>3. Elapsed(0, 0) = 0
    BY ZeroTyped, ElapsedTyped
  <2>4. HandshakeAge' = 0 /\ HeartbeatAge' = 0
    BY <2>1, <2>2, <2>3 DEF HandshakeAge, HeartbeatAge
  <2>5. Follows(AwaitedKinds, 0, 0)
    BY <1>0, <1>5, PowerLostMoves
  <2>6. HandshakeAge' <= HandshakeAge + 0 /\ HeartbeatAge' <= HeartbeatAge + 0
    BY <2>4, Numbers
  <2> QED BY <2>1, <2>2, <2>5, <2>6
<1> QED BY <1>2, <1>3, <1>4, <1>5 DEF Outside

\* Nothing outside the processor makes an answer late.
LEMMA OutsideIsPrompt ==
  ASSUME Typical, Typical', TimingInv, Outside, WishesGoFirst'
  PROVE  TimingInv'
<1>1. PICK e \in {0, 1} :
        /\ Follows(AwaitedKinds, 0, e)
        /\ HandshakeAge' <= HandshakeAge + e /\ HeartbeatAge' <= HeartbeatAge + e
        /\ \/ UNCHANGED <<cm, cmEvent, hb, hbEvent>> /\ lag' = lag + e
           \/ ~cm'.run /\ cmEvent' = "NONE" /\ hbEvent' = "NONE"
  BY OutsideMoves
<1>2. Cost' <= Cost
  <2>1. UNCHANGED <<cmEvent, hbEvent>> => Cost' = Cost
    BY DEF Cost, Asking, Announcing, Beating
  <2>2. cmEvent' = "NONE" /\ hbEvent' = "NONE" => Cost' = 0
    BY DEF Cost, Asking, Announcing, Beating
  <2> QED BY <1>1, <2>1, <2>2, Numbers
<1>3. RequestsAreFresh'
  <2>1. CASE UNCHANGED <<cm, cmEvent, hb, hbEvent>> /\ lag' = lag + e
    <3>1. (Asking' <=> Asking) /\ (Beating' <=> Beating)
      BY <2>1 DEF Asking, Announcing, Beating
    <3>2. Asking' => cm'.run /\ HandshakeAge' <= lag'
      BY <1>1, <2>1, <3>1, Numbers DEF TimingInv, RequestsAreFresh
    <3>3. Beating' => HeartbeatAge' <= lag'
      BY <1>1, <2>1, <3>1, Numbers DEF TimingInv, RequestsAreFresh
    <3> QED BY <2>1, <3>2, <3>3 DEF TimingInv, RequestsAreFresh
  <2>2. CASE cmEvent' = "NONE" /\ hbEvent' = "NONE"
    BY <2>2 DEF RequestsAreFresh, Asking, Announcing, Beating
  <2> QED BY <1>1, <2>1, <2>2
<1>4. 0 \notin DOMAIN Unanswered' /\ DOMAIN Unanswered' \subseteq Nat \ {0}
  BY DEF Typical, Cells
<1>5. AnswersArePrompt' /\ AttemptsAge'
  <2>1. /\ \A j \in DOMAIN Unanswered' : j # 0 /\ Awaited(Unanswered'[j]) =>
             InTime(j, HandshakeAge + Cost, HeartbeatAge + Cost)'
        /\ \A i, j \in DOMAIN Unanswered' :
             i < j /\ i # 0 /\ j # 0 /\ Announces(Unanswered'[i]) /\ Configures(Unanswered'[j])
               => DueIn(i, Answer - HandshakeAge - CONFIG_INTERVAL)'
    BY <1>1, <1>2, CellsKeepAges
  <2> QED BY <1>4, <2>1 DEF AnswersArePrompt, AttemptsAge
<1>6. AnnouncementsAge'
  <2>1. CASE UNCHANGED cm
    <3>1. cm.run /\ cm.state = "CFG" =>
            \A j \in DOMAIN Unanswered' : j # 0 /\ Announces(Unanswered'[j]) =>
              DueIn(j, Answer - HandshakeAge - (IF cm.waiting THEN CONFIG_INTERVAL ELSE 0))'
      BY <1>1, <1>2, <2>1, CellsKeepAges
    <3> QED BY <1>4, <2>1, <3>1 DEF AnnouncementsAge
  <2>2. CASE ~cm'.run
    BY <2>2 DEF AnnouncementsAge
  <2> QED BY <1>1, <2>1, <2>2
<1>7. AttemptsEnd'
  <2>1. Announcing' => Announcing
    BY <1>1 DEF Announcing
  <2> QED BY <1>1, <1>4, <2>1, AttemptsStayEnded DEF TimingInv, AttemptsEnd
<1> QED BY <1>3, <1>5, <1>6, <1>7 DEF TimingInv

\* Wishes go first, whoever moves.
LEMMA WishesStayFirst ==
  ASSUME Typical, Typical', Managed, WishesGoFirst, Outside \/ Run
  PROVE  WishesGoFirst'
<1>1. toDevice \in Seq(Message) /\ toHost \in Seq(LineKind)
  BY DEF Typical, H!TypeOK, Message, LineKind
<1>2. CASE Read
  <2>1. /\ toDevice # << >> /\ toDevice' = Tail(toDevice) /\ UNCHANGED <<toHost, delay>>
        /\ phEvent = "NONE"
        /\ phEvent' = PH!EventOfLine([message |-> Head(toDevice), command |-> NoCommand])
    BY <1>2 DEF Read, ReadLine, Step, PH!Receive, PH!EmitEvent, PH!HasEvent, Typical, DeviceInv,
                NothingOverwritten
  <2>2. Head(toDevice) \in Message
    BY <1>1, <2>1
  <2>3. phEvent' # "GET_STATE"
    BY <2>1, <2>2 DEF Message, H!Wishes, PH!EventOfLine, PH!EventOf
  <2>4. ASSUME NEW i \in DOMAIN toDevice', i > 1
        PROVE  i + 1 \in DOMAIN toDevice /\ i + 1 > 1 /\ toDevice'[i] = toDevice[i + 1]
    BY <1>1, <2>1, <2>4
  <2> QED BY <2>1, <2>3, <2>4 DEF WishesGoFirst
<1>3. CASE HostAnswers
  <2>1. /\ toHost # << >> /\ toDevice' = Append(toDevice, H!Answer[Head(toHost)]) /\ delay' = 0
        /\ UNCHANGED phEvent
    BY <1>3 DEF HostAnswers, H!AnswerLine, vars
  <2>2. Awaited(H!Answer[Head(toHost)])
    <3>1. Head(toHost) \in LineKind
      BY <1>1, <2>1
    <3> QED BY <3>1 DEF LineKind, H!Answer, Awaited, Announces, Configures, Beats
  <2>3. ASSUME NEW i \in DOMAIN toDevice', i > 1 PROVE Awaited(toDevice'[i])
    <3>1. \/ i \in DOMAIN toDevice /\ toDevice'[i] = toDevice[i]
          \/ toDevice'[i] = H!Answer[Head(toHost)]
      BY <1>1, <2>1
    <3> QED BY <2>2, <2>3, <3>1 DEF WishesGoFirst
  <2> QED BY <2>1, <2>3 DEF WishesGoFirst
<1>4. ASSUME NEW m, H!Request(m), UNCHANGED vars PROVE WishesGoFirst'
  <2>1. toDevice' = <<m>> /\ UNCHANGED <<toHost, delay, phEvent>>
    BY <1>4 DEF H!Request, vars
  <2>2. \A i \in DOMAIN toDevice' : ~(i > 1)
    <3>1. PICK t : t = <<m>> /\ toDevice' = t
      BY <2>1
    <3>2. DOMAIN t = {1}
      BY <3>1
    <3> QED BY <3>1, <3>2
  <2> QED BY <2>1, <2>2 DEF WishesGoFirst
<1>5. CASE TimePasses
  BY <1>5 DEF TimePasses, Tick, H!Wait, WishesGoFirst
<1>6. CASE LineLost
  <2>1. /\ UNCHANGED phEvent
        /\ \/ delay' = 0 /\ UNCHANGED toDevice
           \/ toDevice # << >> /\ toDevice' = Tail(toDevice) /\ UNCHANGED <<toHost, delay>>
    BY <1>6 DEF LineLost, H!Lose, vars
  <2>2. CASE delay' = 0 /\ UNCHANGED toDevice
    BY <2>1, <2>2 DEF WishesGoFirst
  <2>3. CASE toDevice # << >> /\ toDevice' = Tail(toDevice) /\ UNCHANGED <<toHost, delay>>
    <3>1. ASSUME NEW i \in DOMAIN toDevice', i > 1
          PROVE  i + 1 \in DOMAIN toDevice /\ i + 1 > 1 /\ toDevice'[i] = toDevice[i + 1]
      BY <1>1, <2>3, <3>1
    <3> QED BY <2>1, <2>3, <3>1 DEF WishesGoFirst
  <2> QED BY <2>1, <2>2, <2>3
<1>7. CASE PowerLost
  <2>1. toDevice' = << >> /\ UNCHANGED <<toHost, delay>> /\ phEvent' = "NONE"
    BY <1>7 DEF PowerLost, PowerCycle
  <2>2. DOMAIN toDevice' = {}
    BY <2>1
  <2> QED BY <2>1, <2>2 DEF WishesGoFirst
<1>8. CASE Run
  <2>1. /\ UNCHANGED <<toDevice, delay>> /\ phEvent' \in {phEvent, "NONE"}
        /\ toHost' = IF out'.kind \in LineKind THEN Append(toHost, out'.kind) ELSE toHost
    BY <1>8, RunSteps
  <2>2. toHost' = << >> => toHost = << >>
    BY <1>1, <2>1
  <2> QED BY <2>1, <2>2 DEF WishesGoFirst
<1> QED BY <1>2, <1>3, <1>4, <1>5, <1>6, <1>7, <1>8 DEF Outside, UserAsks, RebootAsked

\* Every answer that is awaited comes within Answer.
AwaitedAreDue == \A i \in DOMAIN Unanswered : Awaited(Unanswered[i]) => DueIn(i, Answer)

\* Before and after a step.
LEMMA PromptIsDue ==
  /\ Typical /\ AnswersArePrompt => AwaitedAreDue
  /\ Typical' /\ AnswersArePrompt' => AwaitedAreDue'
<1>1. Typical /\ AnswersArePrompt => AwaitedAreDue
  <2> SUFFICES ASSUME Typical, AnswersArePrompt, NEW i \in DOMAIN Unanswered,
                      Awaited(Unanswered[i])
               PROVE  DueIn(i, Answer)
    BY DEF AwaitedAreDue
  <2>1. PICK a \in Nat, b \in Nat : a = HandshakeAge + Cost /\ b = HeartbeatAge + Cost
    BY Numbers
  <2>2. InTime(i, a, b)
    BY <2>1 DEF AnswersArePrompt
  <2>3. /\ Response - a \in Int /\ Response - b \in Int /\ Answer - a \in Int /\ Answer \in Int
        /\ Response - a <= Answer /\ Response - b <= Answer /\ Answer - a <= Answer
    BY AnswerIs, SlowerIs
  <2>4. DueLater /\ i \in Nat \ {0}
    BY DueLaterIs DEF Typical, Cells
  <2> QED BY <2>2, <2>3, <2>4 DEF InTime, DueLater
<1> QED BY <1>1, PTL

\* A step that asks for nothing and writes no line leaves answers as prompt as they are.
LEMMA QuietIsPrompt ==
  ASSUME Typical, Typical', Managed, TimingInv, Run, WishesGoFirst',
         ~Asking', ~Beating', HandshakeMoves, out'.kind \notin LineKind
  PROVE  TimingInv'
<1>1. Follows(AwaitedKinds, 0, 0)
  <2>1. Written = 0
    BY RunSteps DEF Written
  <2>2. AwaitedKinds \in SUBSET NotableKinds
    BY DEF NotableKinds
  <2> QED BY <2>1, <2>2, StepMoves
<1>2. HandshakeAge' <= HandshakeAge + 0 /\ HeartbeatAge' <= HeartbeatAge + 0
  BY RunMonitors, Numbers DEF TimingInv, WishesGoFirst
<1>3. Cost' <= Cost
  BY Numbers DEF Cost
<1>4. /\ \A j \in DOMAIN Unanswered' : j # 0 /\ Awaited(Unanswered'[j]) =>
           InTime(j, HandshakeAge + Cost, HeartbeatAge + Cost)'
      /\ \A i, j \in DOMAIN Unanswered' :
           i < j /\ i # 0 /\ j # 0 /\ Announces(Unanswered'[i]) /\ Configures(Unanswered'[j])
             => DueIn(i, Answer - HandshakeAge - CONFIG_INTERVAL)'
      /\ UNCHANGED cm /\ cm.run /\ cm.state = "CFG" =>
           \A j \in DOMAIN Unanswered' : j # 0 /\ Announces(Unanswered'[j]) =>
             DueIn(j, Answer - HandshakeAge - (IF cm.waiting THEN CONFIG_INTERVAL ELSE 0))'
  BY <1>1, <1>2, <1>3, CellsKeepAges
<1>5. 0 \notin DOMAIN Unanswered'
  BY DEF Typical, Cells
<1>6. AnswersArePrompt' /\ AttemptsAge'
  BY <1>4, <1>5 DEF AnswersArePrompt, AttemptsAge
<1>7. AnnouncementsAge'
  <2>1. CASE UNCHANGED cm
    BY <1>4, <1>5, <2>1 DEF AnnouncementsAge
  <2>2. CASE ~cm'.run \/ cm'.state = "UP"
    BY <2>2 DEF AnnouncementsAge
  <2>3. CASE HandshakeAge' = 0 /\ ~cm'.waiting
    <3>1. \A i \in DOMAIN Unanswered' : Announces(Unanswered'[i]) => DueIn(i, Answer)'
      BY <1>6, PromptIsDue DEF AwaitedAreDue, Awaited
    <3>2. Answer - HandshakeAge' - (IF cm'.waiting THEN CONFIG_INTERVAL ELSE 0) = Answer
      BY <2>3, AnswerIs
    <3>3. \A i \in DOMAIN Unanswered' : Announces(Unanswered'[i]) =>
            DueIn(i, Answer - HandshakeAge - (IF cm.waiting THEN CONFIG_INTERVAL ELSE 0))'
      <4> SUFFICES ASSUME NEW i \in DOMAIN Unanswered', Announces(Unanswered'[i])
                   PROVE  DueIn(i, Answer - HandshakeAge - (IF cm.waiting THEN CONFIG_INTERVAL ELSE 0))'
        OBVIOUS
      <4>1. PICK z \in Nat : z = Answer
        BY AnswerIs
      <4>2. DueIn(i, z)'
        BY <3>1, <4>1
      <4> QED BY <3>2, <4>1, <4>2
    <3> QED BY <3>3 DEF AnnouncementsAge
  <2> QED BY <2>1, <2>2, <2>3 DEF HandshakeMoves
<1>8. RequestsAreFresh' /\ AttemptsEnd'
  BY DEF RequestsAreFresh, AttemptsEnd, Asking
<1> QED BY <1>6, <1>7, <1>8 DEF TimingInv

\* When a monitor whose last answer is due by now asks again, the others are still prompt
\* with one more line ahead of them.
LEMMA OneMoreIsAhead ==
  ASSUME Typical', NEW i \in Nat \ {0}, NEW j \in Nat \ {0}, Comes(i, j, 0),
         NEW a \in Nat, NEW b \in Nat, 2 * Slower <= a, InTime(i, a, b) \/ InTime(i, b, a)
  PROVE  InTime(j, Slower, b + Slower)' /\ InTime(j, b + Slower, Slower)'
<1>1. ASSUME NEW x \in Int, NEW y \in Int, DueIn(i, x), x <= y PROVE DueIn(j, y)'
  <2>1. x - 0 = x
    OBVIOUS
  <2>2. DueIn(j, x)'
    BY <1>1, <2>1 DEF Comes
  <2> QED BY <1>1, <2>2, DueLaterIs DEF DueLater
<1>2. /\ Response - a \in Int /\ Response - b \in Int /\ Answer - a \in Int /\ Answer - b \in Int
      /\ Response - Slower \in Int /\ Answer - Slower \in Int /\ Answer - (b + Slower) \in Int
      /\ Response - a <= Response - Slower /\ Answer - a <= Response - Slower
      /\ Response - b <= Answer - Slower /\ Response - b <= Answer - (b + Slower)
  BY AnswerIs, SlowerIs
<1>3. CASE DueIn(i, Response - a)
  <2>1. DueIn(j, Response - Slower)'
    BY <1>1, <1>2, <1>3
  <2> QED BY <2>1 DEF InTime
<1>4. CASE DueIn(i, Response - b)
  <2>1. DueIn(j, Answer - Slower)' /\ DueIn(j, Answer - (b + Slower))'
    BY <1>1, <1>2, <1>4
  <2> QED BY <2>1 DEF InTime
<1>5. CASE DueIn(i, Answer - a) /\ DueIn(i, Answer - b)
  <2>1. DueIn(j, Response - Slower)'
    BY <1>1, <1>2, <1>5
  <2> QED BY <2>1 DEF InTime
<1> QED BY <1>3, <1>4, <1>5 DEF InTime

\* What an update of a monitor leaves alone.
LEMMA UpdatesAlone ==
  ASSUME Typical, Typical', Managed, Run, ConfigUpdate \/ HeartbeatUpdate
  PROVE  /\ phEvent = "NONE" /\ cmEvent = "NONE" /\ hbEvent = "NONE"
         /\ out'.kind \notin LineKind /\ UNCHANGED <<now, lag>> /\ pc # "protocol"
         /\ Cost = 0 /\ Follows(AwaitedKinds, 0, 0)
<1>1. /\ phEvent = "NONE" /\ cmEvent = "NONE" /\ hbEvent = "NONE"
      /\ out' = NoLine /\ UNCHANGED <<now, lag>> /\ pc # "protocol"
  BY DEF ConfigUpdate, HeartbeatUpdate, Step, Quiet, Typical, DeviceInv, NothingOverwritten
<1>2. out'.kind \notin LineKind
  BY <1>1 DEF NoLine, PH!NoLine, PH!Line, LineKind
<1>3. Cost = 0
  BY <1>1 DEF Cost, Asking, Announcing, Beating
<1>4. Follows(AwaitedKinds, 0, 0)
  <2>1. Written = 0
    BY <1>2, RunSteps DEF Written
  <2>2. AwaitedKinds \in SUBSET NotableKinds
    BY DEF NotableKinds
  <2> QED BY <2>1, <2>2, StepMoves
<1> QED BY <1>1, <1>2, <1>3, <1>4

\* When the handshake monitor is updated, its interval is over or nothing happens.
LEMMA ConfigFires ==
  ASSUME Typical, Run, ConfigUpdate, hbEvent = "NONE", cmEvent = "NONE"
  PROVE  /\ UNCHANGED hb /\ hbEvent' = "NONE"
         /\ \/ UNCHANGED <<cm, cmEvent>>
            \/ /\ cm.run /\ CONFIG_INTERVAL <= HandshakeAge
               /\ HandshakeAge' = 0
               /\ cm'.run /\ cm'.state = cm.state
               /\ \/ cm.state = "CFG" /\ cm.waiting /\ ~cm'.waiting /\ cmEvent' = "CFG_TIMEOUT"
                  \/ cm.state = "UP" /\ cmEvent' \in {"UP_REQUEST", "UP_TIMEOUT"}
                  \/ cm.state = "CFG" /\ ~cm.waiting /\ cm'.waiting /\ cmEvent' = "CFG_REQUEST"
<1>1. /\ CM!Update(now) /\ UNCHANGED <<hb, hbEvent, now>>
  BY DEF ConfigUpdate, Step
<1>2. cm \in CM!Monitor /\ now \in Instant
  BY DEF Typical, DeviceInv, TypeOK, CM!TypeOK
<1>3. CASE UNCHANGED <<cm, cmEvent>>
  BY <1>1, <1>3
<1>4. CASE ~UNCHANGED <<cm, cmEvent>>
  <2>1. /\ cm.run /\ CM!Elapsed(now, cm.last) >= CONFIG_INTERVAL
        /\ cm' = [cm EXCEPT !.waiting = ~cm.waiting, !.last = now]
        /\ cmEvent' = CASE cm.waiting /\ cm.state = "UP"   -> "UP_TIMEOUT"
                        [] cm.waiting /\ cm.state = "CFG"  -> "CFG_TIMEOUT"
                        [] ~cm.waiting /\ cm.state = "UP"  -> "UP_REQUEST"
                        [] ~cm.waiting /\ cm.state = "CFG" -> "CFG_REQUEST"
    BY <1>1, <1>4 DEF CM!Update, CM!EmitEvent, CM!HasEvent
  <2>2. CM!Elapsed(now, cm.last) = HandshakeAge
    BY <2>1, Zenon DEF HandshakeAge, Elapsed, CM!Elapsed
  <2>3. HandshakeAge \in Nat
    BY Numbers
  <2>4. CONFIG_INTERVAL <= HandshakeAge
    BY <2>1, <2>2, <2>3, Numbers
  <2>5. cm'.run = cm.run /\ cm'.state = cm.state /\ cm'.waiting = ~cm.waiting /\ cm'.last = now
    BY <1>2, <2>1 DEF CM!Monitor
  <2>6. HandshakeAge' = 0
    <3>1. Elapsed(now, now) = 0
      BY <1>2, ElapsedTyped
    <3>2. Elapsed(now', cm'.last) = 0
      BY <1>1, <2>5, <3>1
    <3> QED BY <3>2, Zenon DEF HandshakeAge
  <2>7. cm.state \in {"UP", "CFG"} /\ cm.waiting \in BOOLEAN
    BY <1>2 DEF CM!Monitor
  <2>8. \/ cm.waiting /\ cm.state = "CFG" /\ cmEvent' = "CFG_TIMEOUT"
        \/ cm.state = "UP" /\ cmEvent' \in {"UP_REQUEST", "UP_TIMEOUT"}
        \/ cm.state = "CFG" /\ ~cm.waiting /\ cmEvent' = "CFG_REQUEST"
    BY <2>1, <2>7
  <2> QED BY <1>1, <2>1, <2>4, <2>5, <2>6, <2>8
<1> QED BY <1>3, <1>4

\* An announcement that a configuration has followed is answered before the monitor
\* measures two intervals more.
LEMMA AttemptIsOver ==
  ASSUME Typical, TimingInv, HostIsPrompt, phEvent = "NONE", pc # "protocol",
         CONFIG_INTERVAL <= HandshakeAge
  PROVE  ~UpThenConfig(Unanswered)
<1> SUFFICES ASSUME NEW i \in DOMAIN Unanswered, NEW j \in DOMAIN Unanswered, i < j,
                    Announces(Unanswered[i]), Configures(Unanswered[j])
             PROVE  FALSE
  BY DEF UpThenConfig
<1>1. DueIn(i, Answer - HandshakeAge - CONFIG_INTERVAL)
  BY DEF TimingInv, AttemptsAge
<1>2. i # 1
  BY DEF Typical, Cells, Announces
<1>3. i \in Nat \ {0}
  BY DEF Typical, Cells
<1>4. PICK k \in Nat \ {0} : i = k + 1
  <2>1. i - 1 \in Nat \ {0} /\ i = (i - 1) + 1
    BY <1>2, <1>3
  <2> QED BY <2>1
<1>5. Passes(k) \in Nat /\ Passes(k + 1) = Passes(k) + MaxLag
  BY CostOfOne
<1>6. ByDevice(i) = Passes(i) + MaxLag - lag
  BY <1>3, <1>4, <1>5, SlowerIs, Numbers DEF ByDevice
<1>7. Passes(i) + MaxLag - lag <= Answer - HandshakeAge - CONFIG_INTERVAL
  BY <1>1, <1>6 DEF DueIn
<1>8. /\ Answer <= 2 * CONFIG_INTERVAL /\ 2 * Slower <= CONFIG_INTERVAL
      /\ CONFIG_INTERVAL \in Nat \ {0} /\ HandshakeAge \in Nat /\ lag \in 0 .. MaxLag
  BY Numbers DEF HostIsPrompt
<1>9. MaxLag = 0
  <2>1. Passes(i) = Passes(k) + MaxLag
    BY <1>4, <1>5
  <2> QED BY <1>5, <1>7, <1>8, <2>1, SlowerIs, AnswerIs
<1>10. Slower = MaxDelay /\ Answer = MaxDelay + MaxDelay /\ Passes(i) \in Nat
  <2>1. Slower = MaxDelay
    BY <1>9, SlowerIs DEF Slower
  <2>2. Passes(i) \in Nat
    BY <1>3, CostOfOne
  <2> QED BY <1>9, <2>1, <2>2, SlowerIs, AnswerIs
<1> QED BY <1>7, <1>8, <1>9, <1>10, SlowerIs

\* The handshake monitor asks again: answers are prompt with one more line ahead of them.
LEMMA ConfigIsPrompt ==
  ASSUME Typical, Typical', Managed, HostIsPrompt, TimingInv, Run, WishesGoFirst', ConfigUpdate
  PROVE  TimingInv'
<1>1. /\ phEvent = "NONE" /\ cmEvent = "NONE" /\ hbEvent = "NONE"
      /\ out'.kind \notin LineKind /\ UNCHANGED <<now, lag>> /\ pc # "protocol"
      /\ Cost = 0 /\ Follows(AwaitedKinds, 0, 0)
  BY UpdatesAlone
<1>2. /\ UNCHANGED hb /\ hbEvent' = "NONE"
      /\ \/ UNCHANGED <<cm, cmEvent>>
         \/ /\ cm.run /\ CONFIG_INTERVAL <= HandshakeAge
            /\ HandshakeAge' = 0
            /\ cm'.run /\ cm'.state = cm.state
            /\ \/ ~cm'.waiting /\ cmEvent' = "CFG_TIMEOUT"
               \/ cm.state = "UP" /\ cmEvent' \in {"UP_REQUEST", "UP_TIMEOUT"}
               \/ cm.state = "CFG" /\ ~cm.waiting /\ cm'.waiting /\ cmEvent' = "CFG_REQUEST"
  BY <1>1, ConfigFires
<1>3. ~Beating'
  BY <1>2 DEF Beating
<1>4. CASE ~Asking'
  <2>1. HandshakeMoves
    <3>1. CASE UNCHANGED <<cm, cmEvent>>
      BY <3>1 DEF HandshakeMoves
    <3>2. CASE HandshakeAge' = 0 /\ ~cm'.waiting
      BY <3>2 DEF HandshakeMoves
    <3> QED BY <1>2, <1>4, <3>1, <3>2 DEF Asking, Announcing
  <2> QED BY <1>1, <1>3, <1>4, <2>1, QuietIsPrompt
<1>5. CASE Asking'
  <2>1. /\ cm.run /\ CONFIG_INTERVAL <= HandshakeAge
        /\ HandshakeAge' = 0
        /\ cm'.run /\ cm'.state = cm.state
        /\ \/ cm.state = "UP" /\ cmEvent' \in {"UP_REQUEST", "UP_TIMEOUT"}
           \/ cm.state = "CFG" /\ ~cm.waiting /\ cm'.waiting /\ cmEvent' = "CFG_REQUEST"
    BY <1>1, <1>2, <1>5 DEF Asking, Announcing
  <2>2. PICK a \in Nat, b \in Nat, S \in Nat :
          a = HandshakeAge /\ b = HeartbeatAge /\ S = Slower
    BY Numbers, SlowerIs
  <2>3. HeartbeatAge' = b /\ Cost' = S
    BY <1>1, <1>2, <1>5, <2>2 DEF HeartbeatAge, Cost
  <2>4. HandshakeAge' + Cost' = S /\ HeartbeatAge' + Cost' = b + S
    BY <2>1, <2>2, <2>3
  <2>5. 2 * Slower <= a
    BY <2>1, <2>2, SlowerIs, Numbers DEF HostIsPrompt
  <2>6. AnswersArePrompt'
    <3> SUFFICES ASSUME NEW j \in DOMAIN Unanswered', Awaited(Unanswered'[j])
                 PROVE  InTime(j, HandshakeAge + Cost, HeartbeatAge + Cost)'
      BY DEF AnswersArePrompt
    <3>1. j \in Nat \ {0}
      BY DEF Typical, Cells
    <3>2. PICK i \in DOMAIN Unanswered : Means(Unanswered[i], Unanswered'[j]) /\ Comes(i, j, 0)
      BY <1>1, <3>1, AwaitedIs DEF Follows
    <3>3. Awaited(Unanswered[i])
      BY <3>2 DEF Means, Awaited
    <3>4. i \in Nat \ {0}
      BY DEF Typical, Cells
    <3>5. InTime(i, HandshakeAge + Cost, HeartbeatAge + Cost)
      BY <3>3 DEF TimingInv, AnswersArePrompt
    <3>6. HandshakeAge + Cost = a /\ HeartbeatAge + Cost = b
      BY <1>1, <2>2
    <3>7. InTime(j, S, b + S)'
      BY <2>2, <2>5, <3>1, <3>2, <3>4, <3>5, <3>6, OneMoreIsAhead
    <3> QED BY <2>4, <3>7
  <2>7. PICK z \in Int : z = Answer - CONFIG_INTERVAL
    BY AnswerIs, Numbers
  <2>8. AttemptsAge'
    <3>1. Answer - a - CONFIG_INTERVAL \in Int /\ (Answer - a - CONFIG_INTERVAL) - 0 <= z
      BY <2>7, AnswerIs, Numbers
    <3>2. \A i, j \in DOMAIN Unanswered :
            i < j /\ Announces(Unanswered[i]) /\ Configures(Unanswered[j]) =>
              DueIn(i, Answer - a - CONFIG_INTERVAL)
      BY <2>2 DEF TimingInv, AttemptsAge
    <3>3. \A i, j \in DOMAIN Unanswered' :
            i < j /\ i # 0 /\ j # 0 /\ Announces(Unanswered'[i]) /\ Configures(Unanswered'[j])
              => DueIn(i, z)'
      BY <1>1, <3>1, <3>2, AttemptsLast
    <3>4. Answer - HandshakeAge' - CONFIG_INTERVAL = z
      BY <2>1, <2>7, AnswerIs, Numbers
    <3>5. 0 \notin DOMAIN Unanswered'
      BY DEF Typical, Cells
    <3> QED BY <3>3, <3>4, <3>5 DEF AttemptsAge
  <2>9. AnnouncementsAge'
    <3>1. CASE cm.state = "UP"
      BY <2>1, <3>1 DEF AnnouncementsAge
    <3>2. CASE cm.state = "CFG" /\ ~cm.waiting /\ cm'.waiting
      <4>1. Answer - a - 0 \in Int /\ (Answer - a - 0) - 0 <= z
        BY <2>1, <2>2, <2>7, AnswerIs, Numbers
      <4>2. \A i \in DOMAIN Unanswered : Announces(Unanswered[i]) => DueIn(i, Answer - a - 0)
        BY <2>1, <2>2, <3>2 DEF TimingInv, AnnouncementsAge
      <4>3. \A j \in DOMAIN Unanswered' : j # 0 /\ Announces(Unanswered'[j]) => DueIn(j, z)'
        BY <1>1, <4>1, <4>2, AnnouncementsLast
      <4>4. Answer - HandshakeAge' - (IF cm'.waiting THEN CONFIG_INTERVAL ELSE 0) = z
        BY <2>1, <2>7, <3>2, AnswerIs, Numbers
      <4>5. 0 \notin DOMAIN Unanswered'
        BY DEF Typical, Cells
      <4> QED BY <4>3, <4>4, <4>5 DEF AnnouncementsAge
    <3> QED BY <2>1, <3>1, <3>2
  <2>10. AttemptsEnd'
    <3>1. ~UpThenConfig(Unanswered)
      BY <1>1, <2>1, AttemptIsOver
    <3>2. DOMAIN Unanswered' \subseteq Nat \ {0}
      BY DEF Typical, Cells
    <3> QED BY <1>1, <3>1, <3>2, AttemptsStayEnded DEF AttemptsEnd
  <2>11. RequestsAreFresh'
    <3>1. HandshakeAge' <= lag'
      BY <2>1, Numbers
    <3> QED BY <1>3, <2>1, <3>1 DEF RequestsAreFresh, Asking, Announcing
  <2> QED BY <2>6, <2>8, <2>9, <2>10, <2>11 DEF TimingInv
<1> QED BY <1>4, <1>5

\* When the heartbeat is updated, its interval is over or nothing happens.
LEMMA HeartbeatFires ==
  ASSUME Typical, Run, HeartbeatUpdate, hbEvent = "NONE", cmEvent = "NONE"
  PROVE  /\ UNCHANGED cm /\ cmEvent' = "NONE"
         /\ \/ UNCHANGED <<hb, hbEvent>>
            \/ /\ HEARTBEAT_INTERVAL <= HeartbeatAge /\ HeartbeatAge' = 0
               /\ \/ ~hb.waiting /\ hb'.waiting /\ hbEvent' = "HB_REQUEST"
                  \/ hb.waiting /\ ~hb'.waiting /\ hbEvent' = "HB_TIMEOUT"
<1>1. HB!Update(now) /\ UNCHANGED <<cm, cmEvent, now>>
  BY DEF HeartbeatUpdate, Step
<1>2. hb \in HB!Monitor /\ now \in Instant
  BY DEF Typical, DeviceInv, TypeOK, HB!TypeOK
<1>3. CASE UNCHANGED <<hb, hbEvent>>
  BY <1>1, <1>3
<1>4. CASE ~UNCHANGED <<hb, hbEvent>>
  <2>1. /\ HB!Elapsed(now, hb.last) >= HEARTBEAT_INTERVAL
        /\ hb' = [hb EXCEPT !.waiting = ~hb.waiting, !.last = now]
        /\ hbEvent' = IF hb.waiting THEN "HB_TIMEOUT" ELSE "HB_REQUEST"
    BY <1>1, <1>4 DEF HB!Update, HB!EmitEvent, HB!HasEvent
  <2>2. HB!Elapsed(now, hb.last) = HeartbeatAge /\ HeartbeatAge \in Nat
    BY Numbers DEF HeartbeatAge, Elapsed, HB!Elapsed
  <2>3. hb'.last = now /\ hb'.waiting = ~hb.waiting
    BY <1>2, <2>1 DEF HB!Monitor
  <2>4. HeartbeatAge' = 0
    BY <1>1, <1>2, <2>3, ElapsedTyped DEF HeartbeatAge
  <2>5. HEARTBEAT_INTERVAL <= HeartbeatAge
    BY <2>1, <2>2, Numbers
  <2>6. \/ ~hb.waiting /\ hb'.waiting /\ hbEvent' = "HB_REQUEST"
        \/ hb.waiting /\ ~hb'.waiting /\ hbEvent' = "HB_TIMEOUT"
    BY <2>1, <2>3
  <2> QED BY <1>1, <2>4, <2>5, <2>6
<1> QED BY <1>3, <1>4

\* So does the heartbeat.
LEMMA HeartbeatIsPrompt ==
  ASSUME Typical, Typical', Managed, HostIsPrompt, TimingInv, Run, WishesGoFirst', HeartbeatUpdate
  PROVE  TimingInv'
<1>1. /\ phEvent = "NONE" /\ cmEvent = "NONE" /\ hbEvent = "NONE"
      /\ out'.kind \notin LineKind /\ UNCHANGED <<now, lag>> /\ pc # "protocol"
      /\ Cost = 0 /\ Follows(AwaitedKinds, 0, 0)
  BY UpdatesAlone
<1>2. /\ UNCHANGED cm /\ cmEvent' = "NONE"
      /\ Beating' => HEARTBEAT_INTERVAL <= HeartbeatAge /\ HeartbeatAge' = 0
  BY <1>1, HeartbeatFires DEF Beating
<1>3. ~Asking' /\ ~Announcing'
  BY <1>2 DEF Asking, Announcing
<1>4. CASE ~Beating'
  <2>1. HandshakeMoves
    BY <1>2 DEF HandshakeMoves
  <2> QED BY <1>1, <1>3, <1>4, <2>1, QuietIsPrompt
<1>5. CASE Beating'
  <2>1. PICK a \in Nat, b \in Nat, S \in Nat :
          a = HandshakeAge /\ b = HeartbeatAge /\ S = Slower
    BY Numbers, SlowerIs
  <2>2. HandshakeAge' = a /\ Cost' = S
    BY <1>1, <1>2, <1>5, <2>1 DEF HandshakeAge, Cost
  <2>3. HandshakeAge' + Cost' = a + S /\ HeartbeatAge' + Cost' = S
    BY <1>2, <1>5, <2>1, <2>2
  <2>4. 2 * Slower <= b
    BY <1>2, <1>5, <2>1, SlowerIs, Numbers DEF HostIsPrompt
  <2>5. AnswersArePrompt'
    <3> SUFFICES ASSUME NEW j \in DOMAIN Unanswered', Awaited(Unanswered'[j])
                 PROVE  InTime(j, HandshakeAge + Cost, HeartbeatAge + Cost)'
      BY DEF AnswersArePrompt
    <3>1. j \in Nat \ {0}
      BY DEF Typical, Cells
    <3>2. PICK i \in DOMAIN Unanswered : Means(Unanswered[i], Unanswered'[j]) /\ Comes(i, j, 0)
      BY <1>1, <3>1, AwaitedIs DEF Follows
    <3>3. Awaited(Unanswered[i])
      BY <3>2 DEF Means, Awaited
    <3>4. i \in Nat \ {0}
      BY DEF Typical, Cells
    <3>5. InTime(i, HandshakeAge + Cost, HeartbeatAge + Cost)
      BY <3>3 DEF TimingInv, AnswersArePrompt
    <3>6. HandshakeAge + Cost = a /\ HeartbeatAge + Cost = b
      BY <1>1, <2>1
    <3>7. InTime(j, a + S, S)'
      BY <2>1, <2>4, <3>1, <3>2, <3>4, <3>5, <3>6, OneMoreIsAhead
    <3> QED BY <2>3, <3>7
  <2>6. AttemptsAge' /\ AnnouncementsAge'
    <3>1. PICK z \in Int, w \in Nat, v \in Int :
            /\ z = Answer - a - CONFIG_INTERVAL
            /\ w = IF cm.waiting THEN CONFIG_INTERVAL ELSE 0
            /\ v = Answer - a - w
      BY AnswerIs, Numbers
    <3>2. 0 \notin DOMAIN Unanswered' /\ z - 0 <= z /\ v - 0 <= v
      BY DEF Typical, Cells
    <3>3. AttemptsAge'
      <4>1. \A i, j \in DOMAIN Unanswered :
              i < j /\ Announces(Unanswered[i]) /\ Configures(Unanswered[j]) => DueIn(i, z)
        BY <2>1, <3>1 DEF TimingInv, AttemptsAge
      <4>2. \A i, j \in DOMAIN Unanswered' :
              i < j /\ i # 0 /\ j # 0 /\ Announces(Unanswered'[i]) /\ Configures(Unanswered'[j])
                => DueIn(i, z)'
        BY <1>1, <3>2, <4>1, AttemptsLast
      <4>3. Answer - HandshakeAge' - CONFIG_INTERVAL = z
        BY <2>2, <3>1
      <4> QED BY <3>2, <4>2, <4>3 DEF AttemptsAge
    <3>4. AnnouncementsAge'
      <4>1. ASSUME cm.run, cm.state = "CFG"
            PROVE  \A j \in DOMAIN Unanswered' : j # 0 /\ Announces(Unanswered'[j]) => DueIn(j, v)'
        <5>1. \A i \in DOMAIN Unanswered : Announces(Unanswered[i]) => DueIn(i, v)
          BY <2>1, <3>1, <4>1 DEF TimingInv, AnnouncementsAge
        <5> QED BY <1>1, <3>2, <5>1, AnnouncementsLast
      <4>2. Answer - HandshakeAge' - (IF cm'.waiting THEN CONFIG_INTERVAL ELSE 0) = v
        BY <1>2, <2>2, <3>1
      <4> QED BY <1>2, <3>2, <4>1, <4>2 DEF AnnouncementsAge
    <3> QED BY <3>3, <3>4
  <2>7. RequestsAreFresh' /\ AttemptsEnd'
    <3>1. HeartbeatAge' <= lag'
      BY <1>2, <1>5, Numbers
    <3>2. cmEvent' # "CFG_REQUEST"
      BY <1>2
    <3> QED BY <1>3, <3>1, <3>2 DEF RequestsAreFresh, AttemptsEnd
  <2> QED BY <2>5, <2>6, <2>7 DEF TimingInv
<1> QED BY <1>4, <1>5

\* A line that is written when none is ahead of it for the host: the one that has asked for
\* it has done so in this pass, unless the device has as much to read.
LEMMA FirstLineIsPrompt ==
  ASSUME Typical, Typical', TimingInv, UNCHANGED <<toDevice, delay, pc, lag>>, pc # "protocol",
         toHost = << >>, NEW q \in Nat \ {0}, q = 2 + Len(toDevice),
         NEW a \in Nat, NEW b \in Nat, a <= lag \/ b <= lag,
         \A i \in DOMAIN Unanswered : Awaited(Unanswered[i]) => InTime(i, a + Slower, b + Slower)
  PROVE  InTime(q, a, b)'
<1> DEFINE r == Len(toDevice)
<1>1. r \in Nat /\ Len(Answered)' = 1 + r /\ Len(Answered) = 1 + r /\ q = 2 + r
  BY DEF Typical, Cells
<1>2. delay' = 0
  BY DEF TimingInv, WishesGoFirst
<1>3. DOMAIN Unanswered = 1 .. 1 + r /\ \A i \in 2 .. 1 + r : Unanswered[i] = toDevice[i - 1]
  <2>1. Len(toHost) = 0
    OBVIOUS
  <2> QED BY <2>1 DEF Typical, Cells
<1>4. \A i \in DOMAIN toDevice : i > 1 => Awaited(toDevice[i])
  BY DEF TimingInv, WishesGoFirst
<1>5. DOMAIN toDevice = 1 .. r
  <2>1. toDevice \in Seq(Message)
    BY DEF Typical, H!TypeOK, Message
  <2> QED BY <2>1
<1> HIDE DEF r
<1>6. PICK L \in Nat, D \in Nat, S \in Nat, m \in Nat :
        L = MaxLag /\ D = MaxDelay /\ S = Slower /\ m = lag /\ m <= L /\ L <= S /\ D <= S
  <2>1. /\ MaxLag \in Nat /\ MaxDelay \in Nat /\ Slower \in Nat /\ lag \in Nat
        /\ lag <= MaxLag /\ MaxLag <= Slower /\ MaxDelay <= Slower
    BY SlowerIs, Numbers
  <2> QED BY <2>1
<1>7. PICK p \in Nat : p = Passes(q)
  BY CostOfOne
<1>8. ByDevice(q)' = p + L - m
  BY <1>6, <1>7 DEF ByDevice
<1>9. q - Len(Answered)' = 1 /\ ByHost(1)' = D + 3 * L
  <2>1. q - Len(Answered)' = 1
    BY <1>1
  <2>2. Turns(1) = 0
    BY CostOfOne
  <2>3. ByHost(1)' = D + 3 * L
    BY <1>2, <1>6, <2>2 DEF ByHost
  <2> QED BY <2>1, <2>3
<1>10. ASSUME NEW d \in Int, p + L - m <= d, D + 3 * L <= d PROVE DueIn(q, d)'
  <2>1. ByHost(q - Len(Answered))' <= d
    BY <1>9, <1>10
  <2> QED BY <1>8, <1>10, <2>1 DEF DueIn
<1>11. Response = D + 4 * L /\ Answer = D + 4 * L + S
  BY <1>6, AnswerIs
<1>12. CASE r <= 2
  <2>1. p <= 3 * L
    <3>1. Passes(1) = 0 /\ Passes(1 + 1) = Passes(1) + MaxLag
      BY CostOfOne
    <3>2. 2 \in Nat \ {0} /\ 3 \in Nat \ {0}
      OBVIOUS
    <3>3. Passes(2 + 1) = Passes(2) + MaxLag
      BY <3>2, CostOfOne
    <3>4. Passes(3 + 1) = Passes(3) + MaxLag
      BY <3>2, CostOfOne
    <3>5. Passes(2) = L /\ Passes(3) = 2 * L /\ Passes(4) = 3 * L
      BY <1>6, <3>1, <3>3, <3>4
    <3>6. q = 2 \/ q = 3 \/ q = 4
      BY <1>1, <1>12
    <3> QED BY <1>6, <1>7, <3>5, <3>6
  <2>2. ASSUME NEW x \in Nat, x <= lag PROVE DueIn(q, Response - x)'
    BY <1>6, <1>10, <1>11, <2>1, <2>2
  <2> QED BY <2>2 DEF InTime
<1>13. CASE ~(r <= 2)
  <2>1. 1 + r \in DOMAIN Unanswered /\ Awaited(Unanswered[1 + r])
    <3>1. 1 + r \in 2 .. 1 + r /\ (1 + r) - 1 = r /\ r \in 1 .. r /\ r > 1 /\ 1 + r \in 1 .. 1 + r
      BY <1>1, <1>13
    <3>2. Unanswered[1 + r] = toDevice[r]
      BY <1>3, <3>1
    <3> QED BY <1>3, <1>4, <1>5, <3>1, <3>2
  <2>2. InTime(1 + r, a + S, b + S)
    BY <1>6, <2>1
  <2>3. PICK o \in Nat : o = Passes(1 + r) /\ p = o + L /\ 3 * L <= o
    <3>1. PICK i \in Nat \ {0} : i = 1 + r /\ q = i + 1
      BY <1>1
    <3>2. Passes(i) \in Nat /\ Passes(i + 1) = Passes(i) + MaxLag
      BY CostOfOne
    <3>3. L * 3 <= L * r
      BY <1>1, <1>6, <1>13
    <3>4. Passes(i) = L * r
      BY <1>1, <1>6, <3>1 DEF Passes
    <3> QED BY <1>6, <1>7, <3>1, <3>2, <3>3, <3>4
  <2>4. ByDevice(1 + r) = o + L - m
    BY <1>6, <2>3 DEF ByDevice
  <2>5. ASSUME NEW d \in Int, DueIn(1 + r, d) PROVE o + L - m <= d
    BY <2>4, <2>5 DEF DueIn
  <2>6. ASSUME NEW x \in Nat, DueIn(1 + r, Response - (x + S)) PROVE DueIn(q, Response - x)'
    <3>1. o + L - m <= D + 4 * L - (x + S)
      BY <1>6, <1>11, <2>5, <2>6
    <3> QED BY <1>6, <1>10, <1>11, <2>3, <3>1
  <2>7. ASSUME NEW x \in Nat, DueIn(1 + r, Answer - (x + S)) PROVE DueIn(q, Answer - x)'
    <3>1. o + L - m <= D + 4 * L + S - (x + S)
      BY <1>6, <1>11, <2>5, <2>7
    <3> QED BY <1>6, <1>10, <1>11, <2>3, <3>1
  <2>8. CASE DueIn(1 + r, Response - (a + S))
    BY <2>6, <2>8 DEF InTime
  <2>9. CASE DueIn(1 + r, Response - (b + S))
    BY <2>6, <2>9 DEF InTime
  <2>10. CASE DueIn(1 + r, Answer - (a + S)) /\ DueIn(1 + r, Answer - (b + S))
    BY <2>7, <2>10 DEF InTime
  <2> QED BY <2>2, <2>8, <2>9, <2>10 DEF InTime
<1> QED BY <1>12, <1>13

\* One that is written when others are ahead of it takes a turn more than the last of them.
LEMMA NextLineIsPrompt ==
  ASSUME Typical, Typical', UNCHANGED <<toDevice, delay, pc, lag>>, pc # "protocol",
         toHost # << >>, NEW q \in Nat \ {0}, q = 2 + Len(toDevice) + Len(toHost),
         NEW a \in Nat, NEW b \in Nat,
         \A i \in DOMAIN Unanswered : Awaited(Unanswered[i]) => InTime(i, a + Slower, b + Slower)
  PROVE  InTime(q, a, b)'
<1> DEFINE r == Len(toDevice)
           n == Len(toHost)
<1>1. toHost \in Seq(LineKind) /\ n \in Nat \ {0}
  BY DEF Typical, H!TypeOK, LineKind
<1>2. /\ r \in Nat /\ Len(Answered)' = 1 + r /\ Len(Answered) = 1 + r /\ q = 2 + r + n
      /\ DOMAIN Unanswered = 1 .. 1 + r + n
      /\ \A i \in 2 + r .. 1 + r + n : Unanswered[i] = toHost[i - 1 - r]
  BY DEF Typical, Cells
<1>3. toHost[n] \in LineKind
  BY <1>1
<1> HIDE DEF r, n
<1>4. PICK i \in Nat \ {0}, k \in Nat \ {0} :
        i = 1 + r + k /\ q = i + 1 /\ i - 1 - r = k /\ k = n
  <2>1. 1 + r + n \in Nat \ {0} /\ q = (1 + r + n) + 1 /\ (1 + r + n) - 1 - r = n
    BY <1>1, <1>2
  <2> QED BY <1>1, <2>1
<1>5. i \in DOMAIN Unanswered /\ Unanswered[i] = toHost[n]
  <2>1. i \in 2 + r .. 1 + r + n /\ i \in 1 .. 1 + r + n
    BY <1>1, <1>2, <1>4
  <2> QED BY <1>2, <1>4, <2>1
<1>6. Awaited(Unanswered[i])
  BY <1>3, <1>5 DEF LineKind, Awaited, Announces, Configures, Beats
<1>7. InTime(i, a + Slower, b + Slower)
  BY <1>5, <1>6
<1>8. Comes(i, q, 0 - Slower)
  <2>1. Passes(i) \in Nat /\ Passes(i + 1) = Passes(i) + MaxLag
    BY CostOfOne
  <2>2. Turns(k) \in Nat /\ Turns(k + 1) = Turns(k) + Slower
    BY CostOfOne
  <2>3. lag \in Nat /\ delay \in Nat
    BY Numbers
  <2>4. ByDevice(q)' + (0 - Slower) <= ByDevice(i)
    BY <1>4, <2>1, <2>3, SlowerIs DEF ByDevice
  <2>5. i > Len(Answered) /\ i - Len(Answered) = k /\ q - Len(Answered)' = k + 1
    BY <1>1, <1>2, <1>4
  <2>6. ByHost(k + 1)' + (0 - Slower) <= ByHost(k)
    BY <2>2, <2>3, SlowerIs DEF ByHost
  <2>7. ByHost(q - Len(Answered))' + (0 - Slower) <= ByHost(i - Len(Answered))
    BY <2>5, <2>6
  <2>8. 0 - Slower \in Int
    BY SlowerIs
  <2> QED BY <2>4, <2>5, <2>7, <2>8, ComesIf
<1>9. /\ a <= (a + Slower) + (0 - Slower) /\ b <= (b + Slower) + (0 - Slower)
      /\ a + Slower \in Int /\ b + Slower \in Int /\ 0 - Slower \in Int /\ a \in Int /\ b \in Int
  BY SlowerIs
<1> QED BY <1>7, <1>8, <1>9, ComesInTime

\* A line that is written is the last of what is unanswered.
LEMMA WrittenIs ==
  ASSUME Typical, Typical', Managed, Run, out'.kind \in LineKind
  PROVE  \E q \in Nat \ {0} :
           /\ q = Written /\ q = 2 + Len(toDevice) + Len(toHost)
           /\ DOMAIN Unanswered' = 1 .. q /\ Unanswered'[q] = out'.kind
<1> DEFINE r == Len(toDevice)
           n == Len(toHost)
<1>1. /\ toHost \in Seq(LineKind) /\ n \in Nat
  BY DEF Typical, H!TypeOK, LineKind
<1>2. /\ UNCHANGED toDevice /\ toHost' = Append(toHost, out'.kind)
  BY RunSteps
<1>3. Len(toHost') = n + 1 /\ toHost'[n + 1] = out'.kind /\ toHost' # toHost
  BY <1>1, <1>2
<1>4. PICK q \in Nat \ {0}, x \in Nat, y \in Nat : q = 2 + x + y /\ x = r /\ y = n
  <2>1. r \in Nat /\ 2 + r + n \in Nat \ {0}
    BY <1>1 DEF Typical, Cells
  <2> QED BY <1>1, <2>1
<1>5. q = Written
  BY <1>3, <1>4 DEF Written
<1>6. /\ DOMAIN Unanswered' = 1 .. 1 + x + (y + 1)
      /\ \A i \in 2 + x .. 1 + x + (y + 1) : Unanswered'[i] = toHost'[i - 1 - x]
  BY <1>2, <1>3, <1>4 DEF Typical, Cells
<1> HIDE DEF r, n
<1>7. 1 + x + (y + 1) = q /\ q \in 2 + x .. 1 + x + (y + 1) /\ q - 1 - x = y + 1
  BY <1>4
<1>8. Unanswered'[q] = out'.kind
  BY <1>3, <1>4, <1>6, <1>7
<1> QED BY <1>4, <1>5, <1>6, <1>7, <1>8 DEF r, n

\* A line for the host is written: the answer to it comes in time, and no line is waited for
\* any more.
LEMMA WritingIsPrompt ==
  ASSUME Typical, Typical', Managed, TimingInv, Run, WishesGoFirst', out'.kind \in LineKind
  PROVE  TimingInv'
<1>1. /\ UNCHANGED <<cm, hb, pc, lag>> /\ pc # "protocol"
      /\ cmEvent' = "NONE" /\ hbEvent' = "NONE"
      /\ out'.kind = "UP" => Announcing
      /\ out'.kind = "CONFIG" => cmEvent = "CFG_REQUEST"
      /\ out'.kind = "HB" => Beating
  BY RunMonitors DEF TimingInv, WishesGoFirst
<1>2. UNCHANGED now
  BY RaisedNow DEF Typical
<1>3. PICK a \in Nat, b \in Nat, S \in Nat :
        a = HandshakeAge /\ b = HeartbeatAge /\ S = Slower
  BY Numbers, SlowerIs
<1>4. HandshakeAge' = a /\ HeartbeatAge' = b /\ Cost' = 0 /\ Cost = S
  <2>1. HandshakeAge' = a /\ HeartbeatAge' = b
    BY <1>1, <1>2, <1>3 DEF HandshakeAge, HeartbeatAge
  <2>2. Cost' = 0
    BY <1>1 DEF Cost, Asking, Announcing, Beating
  <2>3. Cost = S
    BY <1>1, <1>3 DEF Cost, Asking, LineKind
  <2> QED BY <2>1, <2>2, <2>3
<1>5. a <= lag \/ b <= lag
  BY <1>1, <1>3 DEF TimingInv, RequestsAreFresh, Asking, LineKind
<1>6. PICK q \in Nat \ {0} :
        /\ q = Written /\ q = 2 + Len(toDevice) + Len(toHost)
        /\ DOMAIN Unanswered' = 1 .. q /\ Unanswered'[q] = out'.kind
  BY WrittenIs
<1>7. Follows(AwaitedKinds, q, 0)
  <2>1. AwaitedKinds \in SUBSET NotableKinds
    BY DEF NotableKinds
  <2> QED BY <1>6, <2>1, StepMoves
<1>8. /\ \A j \in DOMAIN Unanswered' : j # q /\ Awaited(Unanswered'[j]) =>
           InTime(j, HandshakeAge + Cost, HeartbeatAge + Cost)'
      /\ \A i, j \in DOMAIN Unanswered' :
           i < j /\ i # q /\ j # q /\ Announces(Unanswered'[i]) /\ Configures(Unanswered'[j])
             => DueIn(i, Answer - HandshakeAge - CONFIG_INTERVAL)'
      /\ UNCHANGED cm /\ cm.run /\ cm.state = "CFG" =>
           \A j \in DOMAIN Unanswered' : j # q /\ Announces(Unanswered'[j]) =>
             DueIn(j, Answer - HandshakeAge - (IF cm.waiting THEN CONFIG_INTERVAL ELSE 0))'
  <2>1. HandshakeAge' <= HandshakeAge + 0 /\ HeartbeatAge' <= HeartbeatAge + 0 /\ Cost' <= Cost
    BY <1>3, <1>4
  <2> QED BY <1>7, <2>1, CellsKeepAges
<1>9. AnswersArePrompt'
  <2>1. \A i \in DOMAIN Unanswered : Awaited(Unanswered[i]) => InTime(i, a + Slower, b + Slower)
    BY <1>3, <1>4 DEF TimingInv, AnswersArePrompt
  <2>2. UNCHANGED <<toDevice, delay, pc, lag>>
    BY <1>1, RunSteps
  <2>3. InTime(q, a, b)'
    <3>1. CASE toHost = << >>
      <4>1. q = 2 + Len(toDevice)
        <5>1. Len(toHost) = 0 /\ Len(toDevice) \in Nat
          BY <3>1 DEF Typical, Cells
        <5> QED BY <1>6, <5>1
      <4> QED BY <1>1, <1>5, <2>1, <2>2, <3>1, <4>1, FirstLineIsPrompt
    <3>2. CASE toHost # << >>
      BY <1>1, <1>6, <2>1, <2>2, <3>2, NextLineIsPrompt
    <3> QED BY <3>1, <3>2
  <2>4. HandshakeAge' + Cost' = a /\ HeartbeatAge' + Cost' = b
    BY <1>4
  <2>5. InTime(q, HandshakeAge + Cost, HeartbeatAge + Cost)'
    BY <2>3, <2>4
  <2> QED BY <1>8, <2>5 DEF AnswersArePrompt
<1>10. AttemptsAge'
  <2> SUFFICES ASSUME NEW i \in DOMAIN Unanswered', NEW j \in DOMAIN Unanswered', i < j,
                      Announces(Unanswered'[i]), Configures(Unanswered'[j])
               PROVE  DueIn(i, Answer - HandshakeAge - CONFIG_INTERVAL)'
    BY DEF AttemptsAge
  <2>1. i # q
    BY <1>6
  <2>2. CASE j # q
    BY <1>8, <2>1, <2>2
  <2>3. CASE j = q
    <3>1. cmEvent = "CFG_REQUEST"
      BY <1>1, <1>6, <2>3 DEF Configures, LineKind
    <3>2. cm.run /\ cm.state = "CFG" /\ cm.waiting
      BY <3>1 DEF TimingInv, RequestsAreFresh, Typical, DeviceInv, PendingRequestIsCurrent
    <3>3. (IF cm'.waiting THEN CONFIG_INTERVAL ELSE 0) = CONFIG_INTERVAL
      BY <1>1, <3>2
    <3>4. DueIn(i, Answer - HandshakeAge - (IF cm.waiting THEN CONFIG_INTERVAL ELSE 0))'
      BY <1>1, <1>8, <2>1, <3>2
    <3> QED BY <3>3, <3>4
  <2> QED BY <2>2, <2>3
<1>11. AnnouncementsAge'
  <2>1. cm.run /\ cm.state = "CFG" => ~Announces(Unanswered'[q])
    BY <1>1, <1>6
    DEF Announces, LineKind, Announcing, Typical, DeviceInv, PendingRequestIsCurrent
  <2> QED BY <1>1, <1>8, <2>1 DEF AnnouncementsAge
<1>12. RequestsAreFresh' /\ AttemptsEnd'
  BY <1>1 DEF RequestsAreFresh, AttemptsEnd, Asking, Announcing, Beating
<1> QED BY <1>9, <1>10, <1>11, <1>12 DEF TimingInv

-----------------------------------------------------------------------------
(* Answers keep up with the retries *)

\* No step of the processor makes an answer late.
LEMMA RunIsPrompt ==
  ASSUME Typical, Typical', Managed, HostIsPrompt, TimingInv, Run
  PROVE  TimingInv'
<1>1. WishesGoFirst'
  BY WishesStayFirst DEF TimingInv
<1>2. CASE ConfigUpdate
  BY <1>1, <1>2, ConfigIsPrompt
<1>3. CASE HeartbeatUpdate
  BY <1>1, <1>3, HeartbeatIsPrompt
<1>4. CASE out'.kind \in LineKind
  BY <1>1, <1>4, WritingIsPrompt
<1>5. CASE ~ConfigUpdate /\ ~HeartbeatUpdate /\ out'.kind \notin LineKind
  <2>1. cmEvent' = "NONE" /\ hbEvent' = "NONE"
    BY <1>5, RaisedNow DEF Typical
  <2>2. ~Asking' /\ ~Beating'
    BY <2>1 DEF Asking, Announcing, Beating
  <2>3. HandshakeMoves
    BY <1>5, RunMonitors DEF TimingInv, WishesGoFirst
  <2> QED BY <1>1, <1>5, <2>2, <2>3, QuietIsPrompt
<1> QED BY <1>2, <1>3, <1>4, <1>5

\* Nor does anything else.
LEMMA TimingStep ==
  ASSUME Typical, Typical', Managed, HostIsPrompt, TimingInv, [NextSession]_all
  PROVE  TimingInv'
<1>1. CASE Run
  BY <1>1, RunIsPrompt
<1>2. CASE Outside
  BY <1>2, WishesStayFirst, OutsideIsPrompt DEF TimingInv
<1>3. CASE UNCHANGED all
  <2>1. UNCHANGED <<phEvent, cm, cmEvent, hb, hbEvent, now, lag, pc, toHost, toDevice, delay>>
    BY <1>3 DEF all, vars, monitors, H!host
  <2>2. UNCHANGED <<Unanswered, Answered>>
    BY <2>1 DEF Unanswered, Answered
  <2>3. UNCHANGED <<HandshakeAge, HeartbeatAge, Cost>>
    BY <2>1 DEF HandshakeAge, HeartbeatAge, Cost, Asking, Announcing, Beating
  <2>4. \A i, d : DueIn(i, d)' <=> DueIn(i, d)
    BY <2>1, <2>2 DEF DueIn, ByDevice, ByHost
  <2>5. \A i, a, b : InTime(i, a, b)' <=> InTime(i, a, b)
    BY <2>4 DEF InTime
  <2>6. AnswersArePrompt'
    BY <2>2, <2>3, <2>5 DEF TimingInv, AnswersArePrompt
  <2>7. AnnouncementsAge' /\ AttemptsAge'
    BY <2>1, <2>2, <2>3, <2>4 DEF TimingInv, AnnouncementsAge, AttemptsAge
  <2>8. RequestsAreFresh' /\ WishesGoFirst' /\ AttemptsEnd'
    BY <2>1, <2>2, <2>3
    DEF TimingInv, RequestsAreFresh, WishesGoFirst, AttemptsEnd, Asking, Announcing, Beating
  <2> QED BY <2>6, <2>7, <2>8 DEF TimingInv
<1> QED BY <1>1, <1>2, <1>3 DEF NextSession, Outside

\* At power-on nothing is waited for.
LEMMA TimingInit == InitSession => TimingInv
<1> SUFFICES ASSUME InitSession PROVE TimingInv
  OBVIOUS
<1>1. /\ phEvent = "NONE" /\ cmEvent = "NONE" /\ hbEvent = "NONE"
      /\ toHost = << >> /\ toDevice = << >> /\ delay = 0
  BY DEF InitSession, Init, PH!Init, CM!Init, HB!Init, H!Init
<1>2. Unanswered = <<"NONE">>
  <2>1. <<"NONE">> \in Seq({"NONE"})
    OBVIOUS
  <2> QED BY <1>1, <2>1, ConcatEmptySeq DEF Answered, Unanswered
<1>3. \A i \in DOMAIN Unanswered : Unanswered[i] = "NONE"
  BY <1>2
<1>4. AnswersArePrompt /\ AnnouncementsAge /\ AttemptsAge
  BY <1>3
  DEF AnswersArePrompt, AnnouncementsAge, AttemptsAge, Awaited, Announces, Configures, Beats
<1>5. RequestsAreFresh /\ AttemptsEnd
  BY <1>1 DEF RequestsAreFresh, AttemptsEnd, Asking, Announcing, Beating
<1>6. WishesGoFirst
  <2>1. DOMAIN toDevice = {}
    BY <1>1
  <2> QED BY <1>1, <2>1 DEF WishesGoFirst
<1> QED BY <1>4, <1>5, <1>6 DEF TimingInv

\* When the device announces itself once more, no attempt is unanswered.
LEMMA RetryIsLate ==
  ASSUME Typical, Managed, TimingInv, Run, out'.kind = "UP"
  PROVE  ~UpThenConfig(Unanswered)
BY RunMonitors DEF TimingInv, WishesGoFirst, AttemptsEnd

\* With a host and a loop that are prompt against the intervals, answers come in time: the
\* inductive invariant of the session.
THEOREM AnswersComeInTime ==
  ASSUME Managed, HostIsPrompt
  PROVE  SessionSpec => [](DeviceInv /\ AgreementInv /\ TimingInv)
<1>1. InitSession => DeviceInv /\ AgreementInv /\ TimingInv
  BY InvInit, AgreementInit, TimingInit DEF InitSession
<1>2. DeviceInv /\ AgreementInv /\ TimingInv /\ [NextSession]_all
        => (DeviceInv /\ AgreementInv /\ TimingInv)'
  <2> SUFFICES ASSUME DeviceInv, AgreementInv, TimingInv, [NextSession]_all
               PROVE  DeviceInv' /\ AgreementInv' /\ TimingInv'
    OBVIOUS
  <2>1. DeviceInv'
    BY SessionIsDevice, DeviceStep
  <2>2. Typical
    BY TypicalIs DEF AgreementInv
  <2>3. AgreementInv'
    BY <2>2, RetryIsLate, AgreementStep
  <2>4. Typical'
    BY <2>1, <2>3, TypicalIs DEF AgreementInv
  <2> QED BY <2>1, <2>2, <2>3, <2>4, TimingStep
<1> QED BY <1>1, <1>2, PTL DEF SessionSpec

\* The device never announces itself again while an announcement and a configuration after
\* it are both unanswered, whichever lines are lost, however often power is, and whatever the
\* user asks: the retries of ConfigMonitor are that much slower than a prompt host's answers.
THEOREM AnswersKeepUpWithRetries ==
  ASSUME Managed, HostIsPrompt
  PROVE  SessionSpec => AnswersKeepUp
<1>1. DeviceInv /\ AgreementInv /\ TimingInv
        => [Run /\ out'.kind = "UP" => ~UpThenConfig(Unanswered)]_all
  BY TypicalIs, RetryIsLate DEF AgreementInv
<1> QED BY <1>1, AnswersComeInTime, PTL DEF AnswersKeepUp

\* So the two sides agree: a managed device that is in session has a host that has read its
\* configuration last.
THEOREM SidesAgreeWithPromptHost ==
  ASSUME Managed, HostIsPrompt
  PROVE  SessionSpec => []SidesAgree
BY SidesAgreeInSession, AnswersKeepUpWithRetries, PTL

===============================================================================
