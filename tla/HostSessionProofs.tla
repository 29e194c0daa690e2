-------------------------- MODULE HostSessionProofs --------------------------
(***************************************************************************)
(* Proofs about HostSession: whatever is lost, whoever loses power and     *)
(* however slow the host is, the two sides agree, provided that answers    *)
(* keep up with the device's retries.                                      *)
(***************************************************************************)
EXTENDS HostSession, DeviceProofs, SequenceTheorems

-----------------------------------------------------------------------------
(* What the device does *)

\* The handshake goes on by its acknowledgements alone.
LEMMA AckMoves ==
  ASSUME NEW e, HandleEvent(e), Managed
  PROVE  /\ sm = "UP" /\ sm' = "CFG" => e = "UP_ACK"
         /\ sm = "CFG" /\ sm' = "RUN" => e = "CFG_ACK"
BY DEF HandleEvent, OnConfigTimeout, OnHeartbeatTimeout, OnStatusUpdate, FSM!HandleEvent,
       FSM!Successor, FSM!StartState, Managed

\* Each step of the processor leaves the answer it has read, or handles it; and it is the
\* answer that moves the handshake.
LEMMA RunTakesAnswer ==
  ASSUME DeviceInv, Managed, Setup \/ Loop
  PROVE  /\ phEvent' \in {phEvent, "NONE"}
         /\ sm = "UP" /\ sm' = "CFG" => phEvent = "UP_ACK" /\ phEvent' = "NONE"
         /\ sm = "CFG" /\ sm' = "RUN" => phEvent = "CFG_ACK" /\ phEvent' = "NONE"
<1> USE DEF monitors, Step
<1>1. CASE ProtocolEvent
  BY <1>1, AckMoves DEF ProtocolEvent
<1>2. CASE HeartbeatEvent
  <2>1. hbEvent \notin {"UP_ACK", "CFG_ACK"}
    BY <1>2 DEF HeartbeatEvent, DeviceInv, TypeOK, HB!TypeOK
  <2> QED BY <1>2, <2>1, AckMoves DEF HeartbeatEvent
<1>3. CASE ConfigEvent
  <2>1. cmEvent \notin {"UP_ACK", "CFG_ACK"}
    BY <1>3 DEF ConfigEvent, DeviceInv, TypeOK, CM!TypeOK, CM!Requests, CM!Timeouts
  <2> QED BY <1>3, <2>1, AckMoves DEF ConfigEvent
<1>4. CASE StatusEvent
  <2>1. stEvent \notin {"UP_ACK", "CFG_ACK"}
    BY <1>4 DEF StatusEvent, DeviceInv, TypeOK, ST!TypeOK
  <2> QED BY <1>4, <2>1, AckMoves DEF StatusEvent
<1>5. CASE Begin
  BY <1>5 DEF Begin, PH!Begin, FSM!Begin, FSM!StartState, Managed
<1>6. ASSUME NEW n \in Node, AddNode(n) PROVE UNCHANGED <<sm, phEvent>>
  BY <1>6 DEF AddNode
<1>7. CASE \/ NoMoreInput \/ NoProtocolEvent \/ PendingCommand \/ NoCommandPending
           \/ HeartbeatUpdate \/ NoHeartbeatEvent \/ ConfigUpdate \/ NoConfigEvent
           \/ NodesUpdate \/ PollNodes \/ NothingPolled \/ StatusUpdate \/ NextPass
  BY <1>7
  DEF NoMoreInput, NoProtocolEvent, PendingCommand, NoCommandPending, HeartbeatUpdate,
      NoHeartbeatEvent, ConfigUpdate, NoConfigEvent, NodesUpdate, PollNodes, NothingPolled,
      StatusUpdate, NextPass
<1> QED
  BY <1>1, <1>2, <1>3, <1>4, <1>5, <1>6, <1>7 DEF Setup, Loop

\* What a step of the processor may do to the session, and which lines it may write then.
LEMMA RunMoves ==
  ASSUME DeviceInv, Managed, Setup \/ Loop
  PROVE  /\ phEvent' \in {phEvent, "NONE"}
         /\ \/ sm' \in {"UP", "BOOT"}
            \/ sm' = sm
            \/ InSession /\ InSession'
            \/ sm = "UP" /\ sm' = "CFG" /\ phEvent = "UP_ACK" /\ phEvent' = "NONE"
            \/ sm = "CFG" /\ sm' = "RUN" /\ phEvent = "CFG_ACK" /\ phEvent' = "NONE"
         /\ out'.kind = "UP" => sm = "UP" /\ sm' = "UP"
         /\ out'.kind = "CONFIG" => sm = "CFG" /\ sm' = "CFG"
<1>1. Abstract!Next
  BY RunImplements
<1>2. Abstract!Entry = "UP" /\ Abstract!Modes = FSM!Active
  BY DEF Abstract!Entry, Abstract!Managed, Managed, Abstract!Modes, FSM!Active
<1>3. /\ \/ sm' \in {"UP", "BOOT"}
         \/ sm' = sm
         \/ sm \in FSM!Active /\ sm' \in FSM!Active
         \/ sm = "UP" /\ sm' = "CFG"
         \/ sm = "CFG" /\ sm' = "RUN"
      /\ sm' # sm => out'.kind = "NONE"
  BY <1>1, <1>2
  DEF Abstract!Next, Abstract!Start, Abstract!Announced, Abstract!Configured,
      Abstract!ChangeMode, Abstract!Restart, Abstract!PowerCycle, Abstract!Say, Abstract!Move
<1>4. sm' = sm /\ out'.kind # "NONE" => out'.kind \in Abstract!Sayable(sm)
  BY <1>1
  DEF Abstract!Next, Abstract!Start, Abstract!Announced, Abstract!Configured,
      Abstract!ChangeMode, Abstract!Restart, Abstract!PowerCycle, Abstract!Say, Abstract!Move
<1>5. sm \in FSM!States
  BY DEF DeviceInv, TypeOK
<1>6. /\ "UP" \in Abstract!Sayable(sm) => sm = "UP"
      /\ "CONFIG" \in Abstract!Sayable(sm) => sm = "CFG"
  BY <1>5 DEF FSM!States, Abstract!Sayable
<1>7. /\ out'.kind = "UP" => sm = "UP" /\ sm' = "UP"
      /\ out'.kind = "CONFIG" => sm = "CFG" /\ sm' = "CFG"
  BY <1>3, <1>4, <1>6
<1> QED BY <1>3, <1>7, RunTakesAnswer DEF InSession

-----------------------------------------------------------------------------
(* Rows of messages, oldest first *)

\* What matters in a row is where it has announcements and configurations.
Matters(x) == Announces(x) \/ Configures(x)

\* y stands for no more than x does.
Covers(x, y) == (Announces(y) => Announces(x)) /\ (Configures(y) => Configures(x))

\* What matters in row t was, in the same order, in row s.
Thins(t, s) ==
  \E f \in [DOMAIN t -> Int] :
    /\ \A i \in DOMAIN t : Matters(t[i]) => f[i] \in DOMAIN s /\ Covers(s[f[i]], t[i])
    /\ \A i, j \in DOMAIN t : i < j /\ Matters(t[i]) /\ Matters(t[j]) => f[i] < f[j]

\* A thinned row shows no order that was not there.
LEMMA Thinned ==
  ASSUME NEW t, NEW s, Thins(t, s)
  PROVE  /\ HasUp(t) => HasUp(s)
         /\ HasConfig(t) => HasConfig(s)
         /\ UpThenConfig(t) => UpThenConfig(s)
         /\ ConfigThenUp(t) => ConfigThenUp(s)
         /\ HasRound(t) => HasRound(s)
<1>1. PICK f \in [DOMAIN t -> Int] :
        /\ \A i \in DOMAIN t : Matters(t[i]) => f[i] \in DOMAIN s /\ Covers(s[f[i]], t[i])
        /\ \A i, j \in DOMAIN t : i < j /\ Matters(t[i]) /\ Matters(t[j]) => f[i] < f[j]
  BY DEF Thins
<1>2. /\ HasUp(t) => HasUp(s)
      /\ HasConfig(t) => HasConfig(s)
  BY <1>1 DEF HasUp, HasConfig, Matters, Covers
<1>3. UpThenConfig(t) => UpThenConfig(s)
  BY <1>1 DEF UpThenConfig, Matters, Covers
<1>4. ConfigThenUp(t) => ConfigThenUp(s)
  BY <1>1 DEF ConfigThenUp, Matters, Covers
<1>5. HasRound(t) => HasRound(s)
  <2> SUFFICES ASSUME NEW i \in DOMAIN t, NEW j \in DOMAIN t, NEW k \in DOMAIN t,
                      i < j, j < k, Announces(t[i]), Configures(t[j]), Announces(t[k])
               PROVE  HasRound(s)
    BY DEF HasRound
  <2>1. /\ f[i] \in DOMAIN s /\ f[j] \in DOMAIN s /\ f[k] \in DOMAIN s
        /\ f[i] < f[j] /\ f[j] < f[k]
        /\ Announces(s[f[i]]) /\ Configures(s[f[j]]) /\ Announces(s[f[k]])
    BY <1>1 DEF Matters, Covers
  <2> QED BY <2>1 DEF HasRound
<1> QED BY <1>2, <1>3, <1>4, <1>5

LineKind == {"UP", "CONFIG", "HB"}
Message == {"UP_ACK", "CFG_ACK", "HB_ACK"} \cup H!Wishes
Word == Message \cup LineKind \cup {"NONE"} \cup PH!ReceivedEvents

\* A row is thinned by thinning its parts.
LEMMA ThinnedParts ==
  ASSUME NEW t \in Seq(Word), NEW s \in Seq(Word), Thins(t, s),
         NEW u \in Seq(Word), NEW r \in Seq(Word), Thins(u, r)
  PROVE  Thins(t \o u, s \o r)
<1>1. PICK f \in [DOMAIN t -> Int] :
        /\ \A i \in DOMAIN t : Matters(t[i]) => f[i] \in DOMAIN s /\ Covers(s[f[i]], t[i])
        /\ \A i, j \in DOMAIN t : i < j /\ Matters(t[i]) /\ Matters(t[j]) => f[i] < f[j]
  BY DEF Thins
<1>2. PICK g \in [DOMAIN u -> Int] :
        /\ \A i \in DOMAIN u : Matters(u[i]) => g[i] \in DOMAIN r /\ Covers(r[g[i]], u[i])
        /\ \A i, j \in DOMAIN u : i < j /\ Matters(u[i]) /\ Matters(u[j]) => g[i] < g[j]
  BY DEF Thins
<1> DEFINE x == t \o u
           y == s \o r
<1>3. /\ x \in Seq(Word) /\ Len(x) = Len(t) + Len(u)
      /\ \A i \in 1 .. Len(t) + Len(u) : x[i] = IF i <= Len(t) THEN t[i] ELSE u[i - Len(t)]
  BY ConcatProperties
<1>4. /\ y \in Seq(Word) /\ Len(y) = Len(s) + Len(r)
      /\ \A i \in 1 .. Len(s) + Len(r) : y[i] = IF i <= Len(s) THEN s[i] ELSE r[i - Len(s)]
  BY ConcatProperties
<1> HIDE DEF x, y
<1>5. /\ DOMAIN t = 1 .. Len(t) /\ DOMAIN u = 1 .. Len(u) /\ DOMAIN s = 1 .. Len(s)
      /\ DOMAIN r = 1 .. Len(r)
      /\ Len(t) \in Nat /\ Len(u) \in Nat /\ Len(s) \in Nat /\ Len(r) \in Nat
  BY LenProperties
<1>6. DOMAIN x = 1 .. Len(t) + Len(u) /\ DOMAIN y = 1 .. Len(s) + Len(r)
  BY <1>3, <1>4, LenProperties
<1> DEFINE h == [i \in DOMAIN x |-> IF i <= Len(t) THEN f[i] ELSE Len(s) + g[i - Len(t)]]
<1>7. h \in [DOMAIN x -> Int]
  <2>1. ASSUME NEW i \in DOMAIN x, ~(i <= Len(t)) PROVE i - Len(t) \in DOMAIN u
    BY <1>5, <1>6, <2>1
  <2>2. ASSUME NEW i \in DOMAIN x, i <= Len(t) PROVE i \in DOMAIN t
    BY <1>5, <1>6, <2>2
  <2> QED BY <1>5, <2>1, <2>2
<1>8. ASSUME NEW i \in DOMAIN x, Matters(x[i]), i <= Len(t)
      PROVE  /\ i \in DOMAIN t /\ x[i] = t[i] /\ h[i] = f[i]
             /\ h[i] \in DOMAIN s /\ y[h[i]] = s[h[i]] /\ h[i] \in DOMAIN y
             /\ Covers(y[h[i]], x[i])
  <2>1. i \in DOMAIN t /\ x[i] = t[i] /\ h[i] = f[i]
    BY <1>3, <1>5, <1>6, <1>8
  <2>2. f[i] \in DOMAIN s /\ Covers(s[f[i]], t[i])
    BY <1>1, <1>8, <2>1
  <2>3. f[i] \in DOMAIN y /\ y[f[i]] = s[f[i]]
    BY <1>4, <1>5, <1>6, <2>2
  <2> QED BY <2>1, <2>2, <2>3
<1>9. ASSUME NEW i \in DOMAIN x, Matters(x[i]), ~(i <= Len(t))
      PROVE  /\ i - Len(t) \in DOMAIN u /\ x[i] = u[i - Len(t)]
             /\ h[i] = Len(s) + g[i - Len(t)]
             /\ g[i - Len(t)] \in DOMAIN r /\ h[i] \in DOMAIN y
             /\ Covers(y[h[i]], x[i])
  <2> DEFINE k == i - Len(t)
  <2>1. k \in DOMAIN u /\ x[i] = u[k] /\ h[i] = Len(s) + g[k]
    BY <1>3, <1>5, <1>6, <1>9
  <2>2. g[k] \in DOMAIN r /\ Covers(r[g[k]], u[k])
    BY <1>2, <1>9, <2>1
  <2> HIDE DEF h
  <2>3. PICK m \in 1 .. Len(r) : m = g[k]
    BY <1>5, <2>2
  <2>4. Len(s) + m \in DOMAIN y /\ y[Len(s) + m] = r[m]
    <3>1. /\ Len(s) + m \in 1 .. Len(s) + Len(r) /\ ~(Len(s) + m <= Len(s))
          /\ (Len(s) + m) - Len(s) = m
      BY <1>5
    <3> QED BY <1>4, <1>6, <3>1
  <2>5. h[i] = Len(s) + m
    BY <2>1, <2>3
  <2>6. h[i] \in DOMAIN y /\ Covers(y[h[i]], x[i])
    BY <2>1, <2>2, <2>3, <2>4, <2>5
  <2> QED BY <2>1, <2>2, <2>6
<1>10. ASSUME NEW i \in DOMAIN x, NEW j \in DOMAIN x, i < j, Matters(x[i]), Matters(x[j])
       PROVE  h[i] < h[j]
  <2>1. i \in Int /\ j \in Int
    BY <1>5, <1>6
  <2>2. CASE j <= Len(t)
    <3>1. i <= Len(t)
      BY <1>5, <1>10, <2>1, <2>2
    <3> QED BY <1>1, <1>8, <1>10, <2>2, <3>1
  <2>3. CASE ~(j <= Len(t)) /\ i <= Len(t)
    <3>1. h[i] \in 1 .. Len(s)
      BY <1>5, <1>8, <1>10, <2>3
    <3>2. h[j] = Len(s) + g[j - Len(t)] /\ g[j - Len(t)] \in 1 .. Len(r)
      BY <1>5, <1>9, <1>10, <2>3
    <3> HIDE DEF h
    <3> QED BY <1>5, <3>1, <3>2
  <2>4. CASE ~(i <= Len(t))
    <3>1. ~(j <= Len(t))
      BY <1>5, <1>10, <2>1, <2>4
    <3> DEFINE p == i - Len(t)
               q == j - Len(t)
    <3>2. /\ p \in DOMAIN u /\ x[i] = u[p] /\ h[i] = Len(s) + g[p] /\ g[p] \in DOMAIN r
          /\ q \in DOMAIN u /\ x[j] = u[q] /\ h[j] = Len(s) + g[q] /\ g[q] \in DOMAIN r
      BY <1>9, <1>10, <2>4, <3>1
    <3>3. p < q
      BY <1>5, <1>10, <2>1
    <3> HIDE DEF h, p, q
    <3>4. g[p] < g[q]
      BY <1>2, <1>10, <3>2, <3>3
    <3>5. g[p] \in Int /\ g[q] \in Int
      BY <1>5, <3>2
    <3> QED BY <1>5, <3>2, <3>4, <3>5
  <2> QED BY <2>2, <2>3, <2>4
<1>11. /\ \A i \in DOMAIN x : Matters(x[i]) => h[i] \in DOMAIN y /\ Covers(y[h[i]], x[i])
       /\ \A i, j \in DOMAIN x : i < j /\ Matters(x[i]) /\ Matters(x[j]) => h[i] < h[j]
  BY <1>8, <1>9, <1>10
<1> HIDE DEF h
<1>12. Thins(x, y)
  BY <1>7, <1>11 DEF Thins
<1> QED BY <1>12 DEF x, y

\* A row thins itself.
LEMMA ThinsSelf ==
  ASSUME NEW s \in Seq(Word)
  PROVE  Thins(s, s)
<1> DEFINE f == [i \in DOMAIN s |-> i]
<1>1. DOMAIN s \subseteq Int
  BY LenProperties
<1>2. /\ f \in [DOMAIN s -> Int]
      /\ \A i \in DOMAIN s : f[i] \in DOMAIN s /\ Covers(s[f[i]], s[i])
      /\ \A i, j \in DOMAIN s : i < j => f[i] < f[j]
  BY <1>1 DEF Covers
<1> QED BY <1>2 DEF Thins

\* The empty row thins every other.
LEMMA ThinsNothing ==
  ASSUME NEW s
  PROVE  Thins(<< >>, s)
<1>1. PICK t : t = << >>
  OBVIOUS
<1>2. DOMAIN t = {}
  BY <1>1
<1>3. [i \in DOMAIN t |-> 0] \in [DOMAIN t -> Int]
  OBVIOUS
<1>4. Thins(t, s)
  BY <1>2, <1>3 DEF Thins
<1> QED BY <1>1, <1>4

\* A message thins one that stands for as much.
LEMMA ThinsMessage ==
  ASSUME NEW d \in Word, NEW e \in Word, Covers(e, d)
  PROVE  Thins(<<d>>, <<e>>)
<1>1. PICK t, s : t = <<d>> /\ s = <<e>>
  OBVIOUS
<1>2. DOMAIN t = {1} /\ DOMAIN s = {1} /\ t[1] = d /\ s[1] = e
  BY <1>1
<1>3. [i \in DOMAIN t |-> 1] \in [DOMAIN t -> Int]
  OBVIOUS
<1>4. Thins(t, s)
  <2> DEFINE f == [i \in DOMAIN t |-> 1]
  <2>1. /\ \A i \in DOMAIN t : f[i] \in DOMAIN s /\ Covers(s[f[i]], t[i])
        /\ \A i, j \in DOMAIN t : ~(i < j)
    BY <1>2
  <2> QED BY <1>3, <2>1 DEF Thins
<1> QED BY <1>1, <1>4

\* A message that does not matter is as good as none.
LEMMA ThinsUnheard ==
  ASSUME NEW m \in Word, ~Matters(m)
  PROVE  Thins(<<m>>, << >>)
<1>1. PICK t : t = <<m>>
  OBVIOUS
<1>2. DOMAIN t = {1} /\ t[1] = m
  BY <1>1
<1>3. [i \in DOMAIN t |-> 1] \in [DOMAIN t -> Int]
  OBVIOUS
<1>4. Thins(t, << >>)
  BY <1>2, <1>3 DEF Thins
<1> QED BY <1>1, <1>4

\* What a message at the end of a row adds to what can be read off the row.
LEMMA Pushed ==
  ASSUME NEW s \in Seq(Word), NEW x \in Word
  PROVE  /\ HasUp(Append(s, x)) <=> HasUp(s) \/ Announces(x)
         /\ HasConfig(Append(s, x)) <=> HasConfig(s) \/ Configures(x)
         /\ UpThenConfig(Append(s, x)) <=> UpThenConfig(s) \/ (HasUp(s) /\ Configures(x))
         /\ ConfigThenUp(Append(s, x)) <=> ConfigThenUp(s) \/ (HasConfig(s) /\ Announces(x))
         /\ HasRound(Append(s, x)) <=> HasRound(s) \/ (UpThenConfig(s) /\ Announces(x))
<1> DEFINE t == Append(s, x)
           n == Len(s)
<1>1. /\ n \in Nat /\ DOMAIN s = 1 .. n /\ DOMAIN t = 1 .. n + 1
      /\ \A i \in 1 .. n : t[i] = s[i]
      /\ t[n + 1] = x
  BY AppendProperties, LenProperties
<1> HIDE DEF t, n
<1> DEFINE z == n + 1
<1>2. /\ \A i \in DOMAIN s : i \in DOMAIN t /\ i < z /\ t[i] = s[i]
      /\ \A i \in DOMAIN t : i # z => i \in DOMAIN s
      /\ \A i, j \in DOMAIN t : i < j => i \in DOMAIN s
      /\ z \in DOMAIN t /\ t[z] = x
  BY <1>1
<1> HIDE DEF z
<1>3. HasUp(t) <=> HasUp(s) \/ Announces(x)
  BY <1>2 DEF HasUp
<1>4. HasConfig(t) <=> HasConfig(s) \/ Configures(x)
  BY <1>2 DEF HasConfig
<1>5. UpThenConfig(t) <=> UpThenConfig(s) \/ (HasUp(s) /\ Configures(x))
  <2>1. UpThenConfig(t) => UpThenConfig(s) \/ (HasUp(s) /\ Configures(x))
    <3> SUFFICES ASSUME NEW i \in DOMAIN t, NEW j \in DOMAIN t, i < j,
                        Announces(t[i]), Configures(t[j])
                 PROVE  UpThenConfig(s) \/ (HasUp(s) /\ Configures(x))
      BY DEF UpThenConfig
    <3>1. i \in DOMAIN s /\ t[i] = s[i] /\ (j = z \/ (j \in DOMAIN s /\ t[j] = s[j]))
      BY <1>2
    <3> QED BY <1>2, <3>1 DEF UpThenConfig, HasUp
  <2>2. UpThenConfig(s) \/ (HasUp(s) /\ Configures(x)) => UpThenConfig(t)
    BY <1>2 DEF UpThenConfig, HasUp
  <2> QED BY <2>1, <2>2
<1>6. ConfigThenUp(t) <=> ConfigThenUp(s) \/ (HasConfig(s) /\ Announces(x))
  <2>1. ConfigThenUp(t) => ConfigThenUp(s) \/ (HasConfig(s) /\ Announces(x))
    <3> SUFFICES ASSUME NEW i \in DOMAIN t, NEW j \in DOMAIN t, i < j,
                        Configures(t[i]), Announces(t[j])
                 PROVE  ConfigThenUp(s) \/ (HasConfig(s) /\ Announces(x))
      BY DEF ConfigThenUp
    <3>1. i \in DOMAIN s /\ t[i] = s[i] /\ (j = z \/ (j \in DOMAIN s /\ t[j] = s[j]))
      BY <1>2
    <3> QED BY <1>2, <3>1 DEF ConfigThenUp, HasConfig
  <2>2. ConfigThenUp(s) \/ (HasConfig(s) /\ Announces(x)) => ConfigThenUp(t)
    BY <1>2 DEF ConfigThenUp, HasConfig
  <2> QED BY <2>1, <2>2
<1>7. HasRound(t) <=> HasRound(s) \/ (UpThenConfig(s) /\ Announces(x))
  <2>1. HasRound(t) => HasRound(s) \/ (UpThenConfig(s) /\ Announces(x))
    <3> SUFFICES ASSUME NEW i \in DOMAIN t, NEW j \in DOMAIN t, NEW k \in DOMAIN t, i < j, j < k,
                        Announces(t[i]), Configures(t[j]), Announces(t[k])
                 PROVE  HasRound(s) \/ (UpThenConfig(s) /\ Announces(x))
      BY DEF HasRound
    <3>1. /\ i \in DOMAIN s /\ t[i] = s[i] /\ j \in DOMAIN s /\ t[j] = s[j]
          /\ k = z \/ (k \in DOMAIN s /\ t[k] = s[k])
      BY <1>2
    <3> QED BY <1>2, <3>1 DEF HasRound, UpThenConfig
  <2>2. HasRound(s) => HasRound(t)
    BY <1>2 DEF HasRound
  <2>3. UpThenConfig(s) /\ Announces(x) => HasRound(t)
    BY <1>2 DEF HasRound, UpThenConfig
  <2> QED BY <2>1, <2>2, <2>3
<1> QED BY <1>3, <1>4, <1>5, <1>6, <1>7 DEF t

\* What a message at the head of a row adds.
LEMMA Led ==
  ASSUME NEW e \in Word, NEW r \in Seq(Word)
  PROVE  /\ Announces(e) /\ HasConfig(r) => UpThenConfig(<<e>> \o r)
         /\ Announces(e) /\ ConfigThenUp(r) => HasRound(<<e>> \o r)
         /\ Configures(e) => HasConfig(<<e>> \o r)
         /\ Configures(e) /\ HasUp(r) => ConfigThenUp(<<e>> \o r)
<1>1. PICK h \in Seq(Word) : h = <<e>> /\ Len(h) = 1 /\ h[1] = e
  <2>1. <<e>> \in Seq(Word) /\ Len(<<e>>) = 1 /\ <<e>>[1] = e
    OBVIOUS
  <2> QED BY <2>1
<1> DEFINE t == h \o r
           n == Len(r)
<1>2. /\ t \in Seq(Word) /\ Len(t) = 1 + n
      /\ \A i \in 1 .. 1 + n : t[i] = IF i <= 1 THEN h[i] ELSE r[i - 1]
  BY <1>1, ConcatProperties
<1>3. n \in Nat /\ DOMAIN r = 1 .. n /\ DOMAIN t = 1 .. 1 + n
  BY <1>2, LenProperties
<1> HIDE DEF t, n
<1>4. /\ 1 \in DOMAIN t /\ t[1] = e
      /\ \A i \in DOMAIN r : i + 1 \in DOMAIN t /\ 1 < i + 1 /\ t[i + 1] = r[i]
      /\ \A i, j \in DOMAIN r : i < j => i + 1 < j + 1
  BY <1>1, <1>2, <1>3
<1>5. /\ Announces(e) /\ HasConfig(r) => UpThenConfig(t)
      /\ Configures(e) => HasConfig(t)
      /\ Configures(e) /\ HasUp(r) => ConfigThenUp(t)
  BY <1>4 DEF HasUp, HasConfig, UpThenConfig, ConfigThenUp
<1>6. Announces(e) /\ ConfigThenUp(r) => HasRound(t)
  BY <1>4 DEF ConfigThenUp, HasRound
<1> QED BY <1>1, <1>5, <1>6 DEF t

\* A row without its first message.
LEMMA Cut ==
  ASSUME NEW s \in Seq(Word), s # << >>
  PROVE  /\ Head(s) \in Word /\ Tail(s) \in Seq(Word)
         /\ s = <<Head(s)>> \o Tail(s)
         /\ Thins(Tail(s), s)
<1>1. PICK h \in Word, y \in Seq(Word) : h = Head(s) /\ y = Tail(s)
  BY HeadTailProperties
<1>0. PICK m \in Seq(Word) : m = <<h>> /\ Len(m) = 1 /\ m[1] = h
  <2>1. <<h>> \in Seq(Word) /\ Len(<<h>>) = 1 /\ <<h>>[1] = h
    OBVIOUS
  <2> QED BY <2>1
<1>2. s = m \o y
  <2> DEFINE z == m \o y
  <2>1. /\ z \in Seq(Word) /\ Len(z) = 1 + Len(y)
        /\ \A i \in 1 .. 1 + Len(y) : z[i] = IF i <= 1 THEN m[i] ELSE y[i - 1]
    BY <1>0, ConcatProperties
  <2> HIDE DEF z
  <2>2. /\ Len(y) = Len(s) - 1 /\ Len(s) \in Nat \ {0} /\ s[1] = h
        /\ \A i \in 1 .. Len(y) : y[i] = s[i + 1]
    BY <1>1
  <2>3. ASSUME NEW i \in 1 .. Len(s) PROVE s[i] = z[i]
    <3>1. CASE i = 1
      BY <1>0, <2>1, <2>2, <3>1
    <3>2. CASE i # 1
      <4>1. i - 1 \in 1 .. Len(y) /\ (i - 1) + 1 = i
        BY <2>2, <3>2
      <4> QED BY <2>1, <2>2, <3>2, <4>1
    <3> QED BY <3>1, <3>2
  <2>4. Len(s) = Len(z)
    BY <2>1, <2>2
  <2>5. s = z
    BY <2>1, <2>3, <2>4, SeqEqual
  <2> QED BY <2>5 DEF z
<1>3. << >> \in Seq(Word) /\ << >> \o y = y
  BY ConcatEmptySeq
<1>4. Thins(<< >> \o y, m \o y)
  <2>1. Thins(<< >>, m) /\ Thins(y, y)
    BY ThinsNothing, ThinsSelf
  <2> QED BY <1>3, <2>1, ThinnedParts
<1> QED BY <1>0, <1>1, <1>2, <1>3, <1>4

\* What is unanswered is a row: what is handled, what is on its way to the device, and
\* what the host has to answer.
LEMMA RowTyped ==
  ASSUME NEW e \in Word, NEW a \in Seq(Word), NEW b \in Seq(Word)
  PROVE  <<e>> \in Seq(Word) /\ <<e>> \o a \in Seq(Word) /\ (<<e>> \o a) \o b \in Seq(Word)
BY ConcatProperties

\* The device is done with an answer, or it is lost with everything on its way.
LEMMA RowThins ==
  ASSUME NEW e \in Word, NEW d \in Word, Covers(e, d),
         NEW a \in Seq(Word), NEW c \in Seq(Word), Thins(c, a), NEW b \in Seq(Word)
  PROVE  /\ Thins(<<d>> \o c, <<e>> \o a)
         /\ Thins((<<d>> \o c) \o b, (<<e>> \o a) \o b)
BY RowTyped, ThinsMessage, ThinsSelf, ThinnedParts

\* The device reads the first message on its way to it.
LEMMA ReadThins ==
  ASSUME NEW e \in Word, NEW d \in Word,
         NEW a \in Seq(Word), a # << >>, Covers(Head(a), d), NEW b \in Seq(Word)
  PROVE  /\ Thins(<<d>> \o Tail(a), <<e>> \o a)
         /\ Thins((<<d>> \o Tail(a)) \o b, (<<e>> \o a) \o b)
<1>1. PICK h \in Word, y \in Seq(Word) : h = Head(a) /\ y = Tail(a) /\ a = <<h>> \o y
  BY Cut
<1>2. Thins(<<d>> \o y, a) /\ <<d>> \o y \in Seq(Word)
  <2>1. Thins(<<d>>, <<h>>) /\ Thins(y, y)
    BY <1>1, ThinsMessage, ThinsSelf
  <2>2. <<d>> \in Seq(Word) /\ <<h>> \in Seq(Word) /\ <<d>> \o y \in Seq(Word)
    BY ConcatProperties
  <2>3. Thins(<<d>> \o y, <<h>> \o y)
    BY <2>1, <2>2, ThinnedParts
  <2> QED BY <1>1, <2>2, <2>3
<1>3. /\ << >> \in Seq(Word) /\ << >> \o (<<d>> \o y) = <<d>> \o y
      /\ Thins(<< >>, <<e>>)
  BY <1>2, ConcatEmptySeq, ThinsNothing
<1>4. Thins(<<d>> \o y, <<e>> \o a)
  <2>1. Thins(<< >> \o (<<d>> \o y), <<e>> \o a)
    BY <1>2, <1>3, RowTyped, ThinnedParts
  <2> QED BY <1>3, <2>1
<1>5. Thins((<<d>> \o y) \o b, (<<e>> \o a) \o b)
  BY <1>2, <1>4, RowTyped, ThinsSelf, ThinnedParts
<1> QED BY <1>1, <1>4, <1>5

\* The host answers its first line: x takes the place of what it answers.
LEMMA AnswerThins ==
  ASSUME NEW s \in Seq(Word), NEW b \in Seq(Word), b # << >>, NEW x \in Word, Covers(Head(b), x)
  PROVE  /\ Append(s, x) \in Seq(Word)
         /\ Thins(Append(s, x), s \o b)
         /\ Thins(Append(s, x) \o Tail(b), s \o b)
<1>1. PICK h \in Word, y \in Seq(Word) : h = Head(b) /\ y = Tail(b) /\ b = <<h>> \o y
  BY Cut
<1>2. Append(s, x) = s \o <<x>> /\ <<x>> \in Seq(Word) /\ <<h>> \in Seq(Word)
      /\ s \o <<x>> \in Seq(Word) /\ s \o <<h>> \in Seq(Word)
  BY AppendIsConcat, ConcatProperties
<1>3. s \o b = (s \o <<h>>) \o y
  BY <1>1, <1>2, ConcatAssociative
<1>4. Thins(s \o <<x>>, s \o <<h>>)
  <2>1. Thins(<<x>>, <<h>>)
    <3>1. Covers(h, x)
      BY <1>1
    <3> QED BY <3>1, ThinsMessage
  <2>2. Thins(s, s)
    BY ThinsSelf
  <2> QED BY <1>2, <2>1, <2>2, ThinnedParts
<1>5. Thins((s \o <<x>>) \o y, (s \o <<h>>) \o y)
  BY <1>2, <1>4, ThinsSelf, ThinnedParts
<1>6. << >> \in Seq(Word) /\ (s \o <<x>>) \o << >> = s \o <<x>>
  BY <1>2, ConcatEmptySeq
<1>7. Thins((s \o <<x>>) \o << >>, (s \o <<h>>) \o y)
  BY <1>2, <1>4, <1>6, ThinsNothing, ThinnedParts
<1>8. Thins(s \o <<x>>, s \o b)
  BY <1>3, <1>6, <1>7
<1> QED BY <1>1, <1>2, <1>3, <1>5, <1>8

\* The first line the host has to answer is lost.
LEMMA LossThins ==
  ASSUME NEW s \in Seq(Word), NEW b \in Seq(Word), b # << >>
  PROVE  Thins(s \o Tail(b), s \o b)
BY Cut, ThinsSelf, ThinnedParts

-----------------------------------------------------------------------------
(* What is unanswered, step by step *)

\* What is unanswered are messages.
LEMMA Typed ==
  ASSUME DeviceInv, H!TypeOK
  PROVE  /\ phEvent \in Word /\ toDevice \in Seq(Word) /\ toHost \in Seq(Word)
         /\ Answered \in Seq(Word) /\ Unanswered \in Seq(Word)
<1>1. phEvent \in Word
  BY DEF DeviceInv, TypeOK, PH!TypeOK, Word
<1>2. toDevice \in Seq(Word) /\ toHost \in Seq(Word)
  <2>1. Message \subseteq Word /\ LineKind \subseteq Word
    BY DEF Word
  <2>2. toDevice \in Seq(Message) /\ toHost \in Seq(LineKind)
    BY DEF H!TypeOK, Message, LineKind
  <2> QED BY <2>1, <2>2
<1> QED BY <1>1, <1>2, RowTyped DEF Answered, Unanswered

\* While the phase and what the host knows stay as they are, thinning what is unanswered
\* does no harm.
LEMMA AgreementLasts ==
  ASSUME AgreementInv, H!TypeOK', UNCHANGED <<sm, configured>>,
         Thins(Answered', Answered), Thins(Unanswered', Unanswered)
  PROVE  AgreementInv'
<1>1. /\ HasUp(Unanswered') => HasUp(Unanswered)
      /\ HasConfig(Answered') => HasConfig(Answered)
      /\ UpThenConfig(Answered') => UpThenConfig(Answered)
      /\ ConfigThenUp(Unanswered') => ConfigThenUp(Unanswered)
      /\ HasRound(Unanswered') => HasRound(Unanswered)
  BY Thinned
<1> QED BY <1>1 DEF AgreementInv, InSession

\* The device reads an answer.
LEMMA ReadAgrees == DeviceInv /\ AgreementInv /\ Read => AgreementInv'
<1> SUFFICES ASSUME DeviceInv, AgreementInv, Read PROVE AgreementInv'
  OBVIOUS
<1>0. H!TypeOK
  BY DEF AgreementInv
<1>1. /\ toDevice # << >> /\ toDevice' = Tail(toDevice) /\ UNCHANGED <<toHost, delay, configured, sm>>
      /\ phEvent = "NONE" /\ phEvent' = PH!EventOfLine([message |-> Head(toDevice), command |-> NoCommand])
  BY DEF Read, ReadLine, Step, PH!Receive, PH!EmitEvent, PH!HasEvent, DeviceInv, NothingOverwritten
<1>2. Head(toDevice) \in Message /\ H!TypeOK'
  BY <1>0, <1>1 DEF H!TypeOK, Message
<1>3. phEvent' \in Word /\ Covers(Head(toDevice), phEvent')
  BY <1>1, <1>2
  DEF Message, H!Wishes, PH!EventOfLine, PH!EventOf, Word, PH!ReceivedEvents, Covers, Announces,
      Configures
<1>4. Thins(Answered', Answered) /\ Thins(Unanswered', Unanswered)
  BY <1>0, <1>1, <1>3, Typed, ReadThins DEF Answered, Unanswered
<1> QED BY <1>1, <1>2, <1>4, AgreementLasts

\* The user asks for something.
LEMMA RequestAgrees ==
  ASSUME DeviceInv, AgreementInv, NEW m \in H!Wishes, H!Request(m), UNCHANGED vars
  PROVE  AgreementInv'
<1>0. H!TypeOK
  BY DEF AgreementInv
<1>1. toDevice = << >> /\ toDevice' = <<m>> /\ UNCHANGED <<toHost, delay, configured, sm, phEvent>>
  BY DEF H!Request, vars
<1>2. H!TypeOK'
  BY <1>0, <1>1 DEF H!TypeOK
<1>3. m \in Word /\ ~Matters(m)
  BY DEF H!Wishes, Word, Message, Matters, Announces, Configures
<1>4. Covers(phEvent, phEvent) /\ <<m>> \in Seq(Word)
  BY <1>3 DEF Covers
<1>5. Thins(Answered', Answered) /\ Thins(Unanswered', Unanswered)
  BY <1>0, <1>1, <1>3, <1>4, Typed, ThinsUnheard, RowThins DEF Answered, Unanswered
<1> QED BY <1>1, <1>2, <1>5, AgreementLasts

\* A line is lost.
LEMMA LossAgrees ==
  ASSUME DeviceInv, AgreementInv, H!Lose, UNCHANGED vars
  PROVE  AgreementInv'
<1>0. H!TypeOK /\ UNCHANGED <<sm, phEvent>>
  BY DEF AgreementInv, vars
<1>1. CASE toHost # << >> /\ toHost' = Tail(toHost) /\ delay' = 0 /\ UNCHANGED <<toDevice, configured>>
  <2>1. H!TypeOK'
    BY <1>0, <1>1, HostSessionAssumption DEF H!TypeOK
  <2>2. Thins(Answered', Answered) /\ Thins(Unanswered', Unanswered)
    BY <1>0, <1>1, Typed, LossThins, ThinsSelf DEF Answered, Unanswered
  <2> QED BY <1>0, <1>1, <2>1, <2>2, AgreementLasts
<1>2. CASE toDevice # << >> /\ toDevice' = Tail(toDevice) /\ UNCHANGED <<toHost, delay, configured>>
  <2>1. H!TypeOK'
    BY <1>0, <1>2 DEF H!TypeOK
  <2>2. Covers(phEvent, phEvent)
    BY DEF Covers
  <2>3. Thins(Answered', Answered) /\ Thins(Unanswered', Unanswered)
    BY <1>0, <1>2, <2>2, Typed, Cut, RowThins DEF Answered, Unanswered
  <2> QED BY <1>0, <1>2, <2>1, <2>3, AgreementLasts
<1> QED BY <1>1, <1>2 DEF H!Lose

\* Power is lost: the device handles nothing, and nothing is on its way to it.
LEMMA PowerLossAgrees ==
  ASSUME DeviceInv, AgreementInv, PowerLost
  PROVE  AgreementInv'
<1>0. H!TypeOK
  BY DEF AgreementInv
<1>1. /\ sm' = "BOOT" /\ phEvent' = "NONE" /\ toDevice' = << >> /\ configured' = FALSE
      /\ UNCHANGED <<toHost, delay>>
  BY DEF PowerLost, PowerCycle
<1>2. H!TypeOK'
  <2>1. configured' \in BOOLEAN
    BY <1>1, Zenon
  <2>2. toDevice' \in Seq({"UP_ACK", "CFG_ACK", "HB_ACK"} \cup H!Wishes)
    BY <1>1
  <2> QED BY <1>0, <1>1, <2>1, <2>2 DEF H!TypeOK
<1>3. "NONE" \in Word /\ Covers(phEvent, "NONE") /\ << >> \in Seq(Word)
  BY DEF Word, Covers, Announces, Configures
<1>4. Thins(Unanswered', Unanswered)
  BY <1>0, <1>1, <1>3, Typed, ThinsNothing, RowThins DEF Answered, Unanswered
<1>5. ~HasRound(Unanswered')
  BY <1>4, Thinned DEF AgreementInv
<1>6. ~UpThenConfig(Answered')
  <2>1. Answered' = <<"NONE">>
    BY <1>1, <1>3, ConcatEmptySeq DEF Answered
  <2> QED BY <2>1 DEF UpThenConfig
<1>7. sm' # "CFG" /\ ~InSession'
  BY <1>1 DEF InSession, FSM!Active
<1> QED BY <1>2, <1>5, <1>6, <1>7 DEF AgreementInv

\* The host answers its first line.
LEMMA AnswerAgrees ==
  ASSUME DeviceInv, AgreementInv, HostAnswers
  PROVE  AgreementInv'
<1>0. H!TypeOK /\ UNCHANGED <<sm, phEvent>>
  BY DEF AgreementInv, HostAnswers, vars
<1> DEFINE x == H!Answer[Head(toHost)]
<1>1. /\ toHost # << >> /\ toHost' = Tail(toHost) /\ delay' = 0
      /\ toDevice' = Append(toDevice, x)
      /\ configured' = IF Head(toHost) = "HB" THEN configured ELSE Head(toHost) = "CONFIG"
  BY DEF HostAnswers, H!AnswerLine
<1>2. Head(toHost) \in LineKind
  BY <1>0, <1>1 DEF H!TypeOK, LineKind
<1>3. /\ Head(toHost) = "UP" => x = "UP_ACK"
      /\ Head(toHost) = "CONFIG" => x = "CFG_ACK"
      /\ Head(toHost) = "HB" => x = "HB_ACK"
  BY DEF H!Answer
<1> HIDE DEF x
<1>4. x \in Message /\ x \in Word /\ Covers(Head(toHost), x)
  BY <1>2, <1>3 DEF LineKind, Message, Word, Covers, Announces, Configures
<1>5. H!TypeOK'
  <2>1. configured' \in BOOLEAN
    BY <1>0, <1>1 DEF H!TypeOK
  <2>2. toDevice' \in Seq({"UP_ACK", "CFG_ACK", "HB_ACK"} \cup H!Wishes)
    BY <1>0, <1>1, <1>4 DEF H!TypeOK, Message
  <2>3. toHost' \in Seq({"UP", "CONFIG", "HB"}) /\ delay' \in 0 .. MaxDelay
    BY <1>0, <1>1, HostSessionAssumption DEF H!TypeOK
  <2> QED BY <2>1, <2>2, <2>3 DEF H!TypeOK
<1>6. Answered' = Append(Answered, x)
  <2>1. /\ Append(toDevice, x) = toDevice \o <<x>> /\ <<x>> \in Seq(Word)
        /\ <<phEvent>> \in Seq(Word)
    BY <1>0, <1>4, Typed, AppendIsConcat
  <2>2. (<<phEvent>> \o toDevice) \o <<x>> = <<phEvent>> \o (toDevice \o <<x>>)
    BY <1>0, <2>1, Typed, ConcatAssociative
  <2>3. Append(Answered, x) = Answered \o <<x>>
    BY <1>0, <1>4, Typed, AppendIsConcat
  <2> QED BY <1>0, <1>1, <2>1, <2>2, <2>3 DEF Answered
<1>7. Thins(Unanswered', Unanswered) /\ Thins(Answered', Unanswered)
  BY <1>0, <1>1, <1>4, <1>6, Typed, AnswerThins DEF Unanswered
<1>8. /\ HasUp(Unanswered') => HasUp(Unanswered)
      /\ ConfigThenUp(Unanswered') => ConfigThenUp(Unanswered)
      /\ HasRound(Unanswered') => HasRound(Unanswered)
      /\ HasUp(Answered') => HasUp(Unanswered)
      /\ ConfigThenUp(Answered') => ConfigThenUp(Unanswered)
      /\ HasRound(Answered') => HasRound(Unanswered)
  BY <1>7, Thinned
<1>9. /\ HasUp(Answered') <=> HasUp(Answered) \/ Announces(x)
      /\ HasConfig(Answered') <=> HasConfig(Answered) \/ Configures(x)
      /\ UpThenConfig(Answered') <=> UpThenConfig(Answered) \/ (HasUp(Answered) /\ Configures(x))
      /\ ConfigThenUp(Answered') <=> ConfigThenUp(Answered) \/ (HasConfig(Answered) /\ Announces(x))
      /\ HasRound(Answered') <=> HasRound(Answered) \/ (UpThenConfig(Answered) /\ Announces(x))
  BY <1>0, <1>4, <1>6, Typed, Pushed
<1>10. CASE Head(toHost) = "HB"
  <2>1. ~Announces(x) /\ ~Configures(x) /\ (configured' <=> configured)
    BY <1>1, <1>3, <1>10 DEF Announces, Configures
  <2> QED BY <1>0, <1>5, <1>8, <1>9, <2>1 DEF AgreementInv, InSession
<1>11. CASE Head(toHost) = "UP"
  <2>1. Announces(x) /\ ~Configures(x)
    BY <1>3, <1>11 DEF Announces, Configures
  <2>2. ~HasConfig(Answered') \/ sm # "CFG"
    BY <1>8, <1>9, <2>1 DEF AgreementInv
  <2>3. ~InSession
    BY <1>8, <1>9, <2>1 DEF AgreementInv
  <2>4. ~UpThenConfig(Answered')
    BY <1>8, <1>9, <2>1 DEF AgreementInv
  <2> QED BY <1>0, <1>5, <1>8, <2>2, <2>3, <2>4 DEF AgreementInv, InSession
<1>12. CASE Head(toHost) = "CONFIG"
  <2>1. configured'
    BY <1>1, <1>12
  <2> QED BY <1>0, <1>5, <1>8, <2>1 DEF AgreementInv, InSession
<1> QED BY <1>2, <1>10, <1>11, <1>12 DEF LineKind

\* Time passes.
LEMMA TimeAgrees ==
  ASSUME AgreementInv, TimePasses
  PROVE  AgreementInv'
<1>1. UNCHANGED <<sm, phEvent, toHost, toDevice, configured>>
  BY DEF TimePasses, Tick
<1>2. delay' \in 0 .. MaxDelay
  BY HostSessionAssumption DEF TimePasses, H!InTime, H!Wait, AgreementInv, H!TypeOK
<1> QED BY <1>1, <1>2 DEF AgreementInv, H!TypeOK, InSession, Answered, Unanswered

\* What the processor handles is done with, and it writes at most one line: only a further
\* announcement can follow what is unanswered as it should not.
LEMMA RunWrites ==
  ASSUME DeviceInv, AgreementInv, Managed, Run
  PROVE  /\ H!TypeOK' /\ phEvent' \in Word
         /\ Thins(Answered', Answered)
         /\ HasUp(Unanswered') => HasUp(Answered' \o toHost) \/ out'.kind = "UP"
         /\ ConfigThenUp(Unanswered') => ConfigThenUp(Answered' \o toHost) \/ out'.kind = "UP"
         /\ HasRound(Unanswered') =>
              HasRound(Unanswered) \/ (UpThenConfig(Unanswered) /\ out'.kind = "UP")
         /\ HasUp(Answered' \o toHost) => HasUp(Unanswered)
         /\ ConfigThenUp(Answered' \o toHost) => ConfigThenUp(Unanswered)
<1>0. H!TypeOK
  BY DEF AgreementInv
<1>1. /\ toDevice' = toDevice /\ delay' = delay /\ configured' = configured
      /\ H!Hear(out'.kind) /\ (Setup \/ Loop)
  BY DEF Run
<1>2. phEvent' \in Word /\ Covers(phEvent, phEvent')
  BY <1>0, <1>1, RunMoves, Typed DEF Word, Covers, Announces, Configures
<1> DEFINE k == out'.kind
           a == Answered'
           s == a \o toHost
<1>3. a = <<phEvent'>> \o toDevice
  BY <1>1 DEF Answered
<1>4. Thins(a, Answered) /\ Thins(s, Unanswered)
  BY <1>0, <1>2, <1>3, Typed, ThinsSelf, RowThins DEF Answered, Unanswered
<1>5. a \in Seq(Word) /\ s \in Seq(Word)
  BY <1>0, <1>2, <1>3, Typed, RowTyped
<1>6. toHost' = IF k \in LineKind THEN Append(toHost, k) ELSE toHost
  BY <1>1 DEF H!Hear, H!Answer, LineKind
<1>7. H!TypeOK'
  BY <1>0, <1>1, <1>6 DEF H!TypeOK, LineKind
<1>8. Unanswered' = a \o toHost'
  BY DEF Unanswered
<1> HIDE DEF k, a
<1>9. CASE k \in LineKind
  <2>0. k \in Word
    BY <1>9 DEF Word
  <2>1. Unanswered' = Append(s, k)
    <3>1. /\ Append(toHost, k) = toHost \o <<k>> /\ <<k>> \in Seq(Word)
          /\ Append(s, k) = s \o <<k>>
      BY <1>0, <1>5, <2>0, Typed, AppendIsConcat
    <3>2. (a \o toHost) \o <<k>> = a \o (toHost \o <<k>>)
      BY <1>0, <1>5, <3>1, Typed, ConcatAssociative
    <3> QED BY <1>6, <1>8, <1>9, <3>1, <3>2
  <2> HIDE DEF s
  <2>2. /\ HasUp(Unanswered') <=> HasUp(s) \/ Announces(k)
        /\ ConfigThenUp(Unanswered') <=> ConfigThenUp(s) \/ (HasConfig(s) /\ Announces(k))
        /\ HasRound(Unanswered') <=> HasRound(s) \/ (UpThenConfig(s) /\ Announces(k))
    BY <1>5, <2>0, <2>1, Pushed
  <2>3. Announces(k) => k = "UP"
    BY <1>9 DEF LineKind, Announces
  <2> USE DEF s
  <2>4. /\ HasUp(Unanswered') => HasUp(s) \/ k = "UP"
        /\ ConfigThenUp(Unanswered') => ConfigThenUp(s) \/ k = "UP"
        /\ HasRound(Unanswered') => HasRound(Unanswered) \/ (UpThenConfig(Unanswered) /\ k = "UP")
        /\ HasUp(s) => HasUp(Unanswered)
        /\ ConfigThenUp(s) => ConfigThenUp(Unanswered)
    BY <1>4, <2>2, <2>3, Thinned
  <2> QED BY <1>2, <1>4, <1>7, <2>4 DEF k, a
<1>10. CASE k \notin LineKind
  <2>1. Unanswered' = s
    BY <1>6, <1>8, <1>10
  <2> QED BY <1>2, <1>4, <1>7, <2>1, Thinned DEF k, a
<1> QED BY <1>9, <1>10

\* What follows the answer that takes the device to CFG, and to RUN.
LEMMA FirstAnswer ==
  ASSUME DeviceInv, AgreementInv, phEvent' = "NONE", UNCHANGED toDevice
  PROVE  /\ phEvent = "UP_ACK" =>
              /\ ~ConfigThenUp(Answered' \o toHost)
              /\ HasConfig(Answered') => configured
         /\ phEvent = "CFG_ACK" /\ sm = "CFG" =>
              /\ ~HasUp(Answered' \o toHost)
              /\ configured
<1>0. H!TypeOK
  BY DEF AgreementInv
<1> DEFINE a == toDevice
           r == a \o toHost
<1>1. /\ a \in Seq(Word) /\ r \in Seq(Word) /\ phEvent \in Word /\ "NONE" \in Word
      /\ <<phEvent>> \in Seq(Word) /\ <<"NONE">> \in Seq(Word)
  BY <1>0, Typed, ConcatProperties DEF Word
<1>2. Answered = <<phEvent>> \o a /\ Unanswered = <<phEvent>> \o r
  BY <1>0, <1>1, Typed, ConcatAssociative DEF Answered, Unanswered
<1>3. Answered' = <<"NONE">> \o a /\ Answered' \o toHost = <<"NONE">> \o r
  BY <1>0, <1>1, Typed, ConcatAssociative DEF Answered
<1> HIDE DEF a, r
<1>4. ASSUME NEW s \in Seq(Word) PROVE Thins(<<"NONE">> \o s, s)
  <2>1. ~Matters("NONE")
    BY DEF Matters, Announces, Configures
  <2>2. << >> \in Seq(Word) /\ << >> \o s = s
    BY ConcatEmptySeq
  <2>3. Thins(<<"NONE">> \o s, << >> \o s)
    BY <1>1, <2>1, <2>2, ThinsUnheard, ThinsSelf, ThinnedParts
  <2> QED BY <2>2, <2>3
<1>5. /\ HasConfig(Answered') => HasConfig(a)
      /\ ConfigThenUp(Answered' \o toHost) => ConfigThenUp(r)
      /\ HasUp(Answered' \o toHost) => HasUp(r)
  BY <1>1, <1>3, <1>4, Thinned
<1>6. ASSUME phEvent = "UP_ACK"
      PROVE  ~ConfigThenUp(Answered' \o toHost) /\ (HasConfig(Answered') => configured)
  <2>1. Announces(phEvent)
    BY <1>6 DEF Announces
  <2>2. /\ ConfigThenUp(r) => HasRound(Unanswered)
        /\ HasConfig(a) => UpThenConfig(Answered)
    BY <1>1, <1>2, <2>1, Led
  <2> QED BY <1>5, <2>2 DEF AgreementInv
<1>7. ASSUME phEvent = "CFG_ACK", sm = "CFG"
      PROVE  ~HasUp(Answered' \o toHost) /\ configured
  <2>1. Configures(phEvent)
    BY <1>7 DEF Configures
  <2>2. /\ HasUp(r) => ConfigThenUp(Unanswered)
        /\ HasConfig(Answered)
    BY <1>1, <1>2, <2>1, Led
  <2> QED BY <1>5, <1>7, <2>2 DEF AgreementInv
<1> QED BY <1>6, <1>7

\* A step of the processor, provided that answers keep up.
LEMMA RunAgrees ==
  ASSUME DeviceInv, AgreementInv, Managed, Run,
         out'.kind = "UP" => ~UpThenConfig(Unanswered)
  PROVE  AgreementInv'
<1>1. H!TypeOK' /\ ~HasRound(Unanswered')
  BY RunWrites DEF AgreementInv
<1>2. UNCHANGED <<toDevice, configured>> /\ (Setup \/ Loop)
  BY DEF Run
<1>3. UpThenConfig(Answered') => configured'
  BY <1>2, RunWrites, Thinned DEF AgreementInv
<1>4. CASE sm' \in {"UP", "BOOT"}
  BY <1>1, <1>3, <1>4 DEF AgreementInv, InSession, FSM!Active
<1>5. CASE sm' = sm /\ sm' \notin {"UP", "BOOT"}
  <2>1. out'.kind # "UP"
    BY <1>2, <1>5, RunMoves
  <2>2. /\ HasUp(Unanswered') => HasUp(Unanswered)
        /\ ConfigThenUp(Unanswered') => ConfigThenUp(Unanswered)
        /\ HasConfig(Answered') => HasConfig(Answered)
    BY <2>1, RunWrites, Thinned
  <2> QED BY <1>1, <1>2, <1>3, <1>5, <2>2 DEF AgreementInv, InSession
<1>6. CASE InSession /\ InSession'
  <2>1. out'.kind # "UP" /\ sm' # "CFG"
    BY <1>2, <1>6, RunMoves DEF InSession, FSM!Active
  <2>2. HasUp(Unanswered') => HasUp(Unanswered)
    BY <2>1, RunWrites
  <2> QED BY <1>1, <1>2, <1>3, <1>6, <2>1, <2>2 DEF AgreementInv
<1>7. CASE sm = "UP" /\ sm' = "CFG" /\ phEvent = "UP_ACK" /\ phEvent' = "NONE"
  <2>1. out'.kind # "UP" /\ ~InSession'
    BY <1>2, <1>7, RunMoves DEF InSession, FSM!Active
  <2>2. ~ConfigThenUp(Answered' \o toHost) /\ (HasConfig(Answered') => configured)
    BY <1>2, <1>7, FirstAnswer
  <2>3. ~ConfigThenUp(Unanswered')
    BY <2>1, <2>2, RunWrites
  <2> QED BY <1>1, <1>2, <1>3, <2>1, <2>2, <2>3 DEF AgreementInv
<1>8. CASE sm = "CFG" /\ sm' = "RUN" /\ phEvent = "CFG_ACK" /\ phEvent' = "NONE"
  <2>1. out'.kind # "UP" /\ sm' # "CFG"
    BY <1>2, <1>8, RunMoves
  <2>2. ~HasUp(Answered' \o toHost) /\ configured
    BY <1>2, <1>8, FirstAnswer
  <2>3. ~HasUp(Unanswered')
    BY <2>1, <2>2, RunWrites
  <2> QED BY <1>1, <1>2, <1>3, <2>1, <2>2, <2>3 DEF AgreementInv
<1> QED BY <1>2, <1>4, <1>5, <1>6, <1>7, <1>8, RunMoves

-----------------------------------------------------------------------------
(* The two sides agree *)

\* The device beside its host is the device.
LEMMA SessionIsDevice == AgreementInv /\ [NextSession]_all => [Next]_vars
<1> SUFFICES ASSUME AgreementInv, [NextSession]_all PROVE [Next]_vars
  OBVIOUS
<1>1. CASE Read
  <2>1. Head(toDevice) \in Message
    BY <1>1 DEF Read, AgreementInv, H!TypeOK, Message
  <2>2. [message |-> Head(toDevice), command |-> NoCommand] \in PH!HostLine
    BY <2>1 DEF Message, H!Wishes, PH!HostLine, PH!HostMessage, NoCommand
  <2> QED BY <1>1, <2>2 DEF Read, Next
<1>2. CASE Run
  BY <1>2 DEF Run, Next
<1>3. CASE TimePasses \/ PowerLost
  BY <1>3 DEF TimePasses, PowerLost, Next
<1>4. CASE HostAnswers \/ UserAsks \/ LineLost \/ RebootAsked \/ UNCHANGED all
  BY <1>4 DEF HostAnswers, UserAsks, LineLost, RebootAsked, all
<1> QED BY <1>1, <1>2, <1>3, <1>4 DEF NextSession

\* At power-on nothing is unanswered.
LEMMA AgreementInit == InitSession => AgreementInv
<1> SUFFICES ASSUME InitSession PROVE AgreementInv
  OBVIOUS
<1>1. /\ sm = "BOOT" /\ phEvent = "NONE" /\ toHost = << >> /\ toDevice = << >> /\ delay = 0
      /\ configured = FALSE
  BY DEF InitSession, Init, FSM!Init, PH!Init, H!Init
<1>2. H!TypeOK
  <2>1. configured \in BOOLEAN
    BY <1>1, Zenon
  <2> QED BY <1>1, <2>1, HostSessionAssumption DEF H!TypeOK
<1>3. Answered = <<"NONE">> /\ Unanswered = <<"NONE">>
  <2>1. <<"NONE">> \in Seq({"NONE"})
    OBVIOUS
  <2> QED BY <1>1, <2>1, ConcatEmptySeq DEF Answered, Unanswered
<1>4. ~UpThenConfig(<<"NONE">>) /\ ~HasRound(<<"NONE">>)
  BY DEF UpThenConfig, HasRound
<1> QED BY <1>1, <1>2, <1>3, <1>4 DEF AgreementInv, InSession, FSM!Active

\* No step of the device, of the host, of time or of a fault disturbs the agreement, unless
\* the device announces itself once more on top of an unanswered handshake.
LEMMA AgreementStep ==
  ASSUME Managed, DeviceInv, AgreementInv, [NextSession]_all,
         Run /\ out'.kind = "UP" => ~UpThenConfig(Unanswered)
  PROVE  AgreementInv'
<1>1. CASE Run
  BY <1>1, RunAgrees
<1>2. CASE Read
  BY <1>2, ReadAgrees
<1>3. CASE HostAnswers
  BY <1>3, AnswerAgrees
<1>4. CASE UserAsks
  BY <1>4, RequestAgrees, HostSessionAssumption DEF UserAsks, H!Wishes
<1>5. CASE RebootAsked
  BY <1>5, RequestAgrees DEF RebootAsked, H!Wishes
<1>6. CASE TimePasses
  BY <1>6, TimeAgrees
<1>7. CASE LineLost
  BY <1>7, LossAgrees DEF LineLost
<1>8. CASE PowerLost
  BY <1>8, PowerLossAgrees
<1>9. CASE UNCHANGED all
  BY <1>9
  DEF all, vars, H!host, AgreementInv, H!TypeOK, Answered, Unanswered, InSession
<1> QED BY <1>1, <1>2, <1>3, <1>4, <1>5, <1>6, <1>7, <1>8, <1>9 DEF NextSession

\* What is unanswered is never more than one attempt at the handshake, if answers keep up
\* with the retries: whichever lines are lost, however often power is, whatever the user asks.
THEOREM OneAttemptUnanswered ==
  ASSUME Managed
  PROVE  SessionSpec /\ AnswersKeepUp => [](DeviceInv /\ AgreementInv)
<1> DEFINE KeepsUp == Run /\ out'.kind = "UP" => ~UpThenConfig(Unanswered)
<1>1. InitSession => DeviceInv /\ AgreementInv
  BY InvInit, AgreementInit DEF InitSession
<1>2. DeviceInv /\ AgreementInv /\ [NextSession]_all /\ [KeepsUp]_all
        => (DeviceInv /\ AgreementInv)'
  <2> SUFFICES ASSUME DeviceInv, AgreementInv, [NextSession]_all, [KeepsUp]_all
               PROVE  DeviceInv' /\ AgreementInv'
    OBVIOUS
  <2>1. DeviceInv'
    BY SessionIsDevice, DeviceStep
  <2>2. ASSUME KeepsUp PROVE AgreementInv'
    BY <2>2, AgreementStep
  <2>3. ASSUME UNCHANGED all PROVE AgreementInv'
    BY <2>3
    DEF all, vars, H!host, AgreementInv, H!TypeOK, Answered, Unanswered, InSession
  <2> QED BY <2>1, <2>2, <2>3
<1>3. AnswersKeepUp => [][KeepsUp]_all
  BY PTL DEF AnswersKeepUp
<1> QED BY <1>1, <1>2, <1>3, PTL DEF SessionSpec

\* A managed device that is in session has a host that has read its configuration last,
\* although CFG_ACK is accepted whether or not the configuration has been sent, and no
\* answer says what it answers: if answers keep up with the retries.
THEOREM SidesAgreeInSession ==
  ASSUME Managed
  PROVE  SessionSpec /\ AnswersKeepUp => []SidesAgree
<1>1. AgreementInv => SidesAgree
  BY DEF AgreementInv, SidesAgree
<1> QED BY <1>1, OneAttemptUnanswered, PTL

=============================================================================
