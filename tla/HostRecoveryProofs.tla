--------------------------- MODULE HostRecoveryProofs --------------------------
(***************************************************************************)
(* Proofs about HostRecovery: with a host and a loop that are quick        *)
(* against the intervals, there is a session again in bounded time after   *)
(* power-on and after each fault, and it lasts.                            *)
(***************************************************************************)
EXTENDS HostRecovery, HostTimingProofs

-----------------------------------------------------------------------------
(* Numbers *)

\* A host that is quick is prompt.
LEMMA QuickIsPrompt == HostIsQuick => HostIsPrompt
BY AnswerIs, SlowerIs, OrquestratorAssumption DEF HostIsQuick, HostIsPrompt

\* The times a handshake is made of.
LEMMA PatienceIs ==
  /\ Patience(CONFIG_INTERVAL) \in Nat /\ Patience(HEARTBEAT_INTERVAL) \in Nat
  /\ Patience(CONFIG_INTERVAL) = CONFIG_INTERVAL - 1 + 2 * MaxLag
  /\ Patience(HEARTBEAT_INTERVAL) = HEARTBEAT_INTERVAL - 1 + 2 * MaxLag
  /\ 2 * MaxLag <= Patience(CONFIG_INTERVAL)
  /\ Handshake \in Nat
  /\ Handshake = Patience(CONFIG_INTERVAL) + Answer + Patience(CONFIG_INTERVAL) + Answer
<1>1. /\ CONFIG_INTERVAL \in Nat \ {0} /\ HEARTBEAT_INTERVAL \in Nat \ {0} /\ MaxLag \in Nat
      /\ Answer \in Nat
  BY AnswerIs, SlowerIs, Numbers
<1>2. /\ Patience(CONFIG_INTERVAL) \in Nat /\ Patience(HEARTBEAT_INTERVAL) \in Nat
      /\ Patience(CONFIG_INTERVAL) = CONFIG_INTERVAL - 1 + 2 * MaxLag
      /\ Patience(HEARTBEAT_INTERVAL) = HEARTBEAT_INTERVAL - 1 + 2 * MaxLag
      /\ 2 * MaxLag <= Patience(CONFIG_INTERVAL)
  BY <1>1 DEF Patience
<1> QED BY <1>1, <1>2 DEF Handshake

\* There is time for a wait and a handshake.
LEMMA RecoveryTimeIs ==
  ASSUME HostIsQuick
  PROVE  /\ RecoveryTime \in Nat
         /\ Patience(CONFIG_INTERVAL) + Handshake <= RecoveryTime
         /\ Patience(HEARTBEAT_INTERVAL) + Handshake <= RecoveryTime
         /\ Answer <= CONFIG_INTERVAL - 1 /\ Answer <= HEARTBEAT_INTERVAL - 1
BY HostSessionAssumption, AnswerIs, Numbers DEF HostIsQuick

\* The time since the last fault is a number.
SinceTyped == since \in Nat

\* A step of the session changes it by the time it takes, or sets it to 0.
LEMMA SinceMoves ==
  ASSUME SinceTyped, [NextSession]_all
  PROVE  SinceTyped'
<1>1. CASE TimePasses
  BY <1>1, HostSessionAssumption DEF TimePasses, SinceTyped
<1>2. CASE LineLost \/ RebootAsked \/ PowerLost
  BY <1>2 DEF LineLost, RebootAsked, PowerLost, Fault, SinceTyped
<1>3. CASE Read \/ Run \/ HostAnswers \/ UserAsks \/ UNCHANGED all
  BY <1>3 DEF Read, Run, HostAnswers, UserAsks, NoFault, all, SinceTyped
<1> QED BY <1>1, <1>2, <1>3 DEF NextSession

\* Where the two monitors and the clock are within their types.
LEMMA MonitorsTyped ==
  ASSUME Typical
  PROVE  /\ cm.run \in BOOLEAN /\ cm.waiting \in BOOLEAN /\ cm.state \in {"UP", "CFG"}
         /\ hb.waiting \in BOOLEAN /\ hb.run \in BOOLEAN
         /\ now \in Instant /\ cm.last \in Instant /\ hb.last \in Instant
         /\ sm \in FSM!States
BY DEF Typical, DeviceInv, TypeOK, CM!TypeOK, CM!Monitor, CM!Instant, HB!TypeOK, HB!Monitor,
       HB!Instant, Instant

\* A cell the device still has to read or to handle is not done with already.
LEMMA DueIsAhead ==
  ASSUME Typical, NEW i \in DOMAIN Unanswered, Unanswered[i] \in NotableKinds, NEW d \in Int,
         DueIn(i, d)
  PROVE  0 <= d
<1>1. i \in Nat \ {0}
  BY DEF Typical, Cells
<1>2. ByDevice(i) <= d
  BY DEF DueIn
<1>3. lag \in 0 .. MaxLag /\ MaxLag \in Nat
  BY Numbers, SlowerIs
<1>4. Passes(i) \in Nat
  BY <1>1, CostOfOne
<1>5. CASE pc # "protocol"
  BY <1>2, <1>3, <1>4, <1>5 DEF ByDevice
<1>6. CASE pc = "protocol"
  <2>1. i # 1
    BY <1>6 DEF Typical, Cells, DeviceInv, NothingOverwritten, NotableKinds, AwaitedKinds
  <2>2. PICK k \in Nat \ {0} : i = k + 1
    <3>1. i - 1 \in Nat \ {0} /\ i = (i - 1) + 1
      BY <1>1, <2>1
    <3> QED BY <3>1
  <2>3. Passes(k) \in Nat /\ Passes(k + 1) = Passes(k) + MaxLag
    BY CostOfOne
  <2>4. ByDevice(i) = Passes(k) + MaxLag - lag
    BY <1>3, <1>6, <2>2, <2>3 DEF ByDevice
  <2> QED BY <1>2, <1>3, <2>3, <2>4
<1> QED BY <1>5, <1>6

\* When a fault has just been, there is time for everything.
LEMMA TimeForEverything ==
  ASSUME Typical, HostIsQuick, since = 0
  PROVE  HandshakeInTime /\ HeartbeatInTime
<1>1. /\ HandshakeAge \in Nat /\ HeartbeatAge \in Nat /\ lag \in 0 .. MaxLag /\ MaxLag \in Nat
      /\ Answer \in Nat
  BY Numbers, SlowerIs, AnswerIs
<1>2. StartsOver
  BY <1>1, PatienceIs, RecoveryTimeIs DEF StartsOver, Left
<1>3. UpInTime
  <2>1. Left(Patience(CONFIG_INTERVAL) - HandshakeAge + Answer + (Patience(CONFIG_INTERVAL) + Answer))
    BY <1>1, PatienceIs, RecoveryTimeIs DEF Left
  <2> QED BY <2>1 DEF UpInTime
<1>4. ConfigInTime
  <2>1. Left(Patience(CONFIG_INTERVAL) - HandshakeAge + Answer)
    BY <1>1, PatienceIs, RecoveryTimeIs DEF Left
  <2>2. Left(Patience(CONFIG_INTERVAL) - HandshakeAge + Handshake)
    BY <1>1, PatienceIs, RecoveryTimeIs DEF Left
  <2> QED BY <2>1, <2>2 DEF ConfigInTime
<1>5. Left(Patience(HEARTBEAT_INTERVAL) - HeartbeatAge + Handshake)
  BY <1>1, PatienceIs, RecoveryTimeIs DEF Left
<1> QED BY <1>2, <1>3, <1>4, <1>5 DEF HandshakeInTime, HeartbeatInTime

\* Before and after a step.
LEMMA TimeAfterFault ==
  ASSUME HostIsQuick
  PROVE  (Typical /\ since = 0 => HandshakeInTime /\ HeartbeatInTime)'
<1>1. Typical /\ since = 0 => HandshakeInTime /\ HeartbeatInTime
  BY TimeForEverything
<1> QED BY <1>1, PTL

-----------------------------------------------------------------------------
(* What stays in time *)

\* A step of e milliseconds at most, after which no more of RecoveryTime is over than those.
Lasts(e) == \E s, t \in Nat : s = since /\ t = since' /\ t <= s + e

\* What is left before it, and after it.
LEMMA LeftLasts ==
  ASSUME NEW e \in Nat, Lasts(e), NEW x \in Int, NEW y \in Int, y <= x - e, Left(x)
  PROVE  Left(y)'
<1>1. PICK s \in Nat, t \in Nat : s = since /\ t = since' /\ t <= s + e
  BY DEF Lasts
<1>2. s + x <= RecoveryTime
  BY <1>1, Zenon DEF Left
<1>3. t <= s + e
  BY <1>1, Zenon
<1>4. t + y <= RecoveryTime
  BY <1>2, <1>3, HostSessionAssumption
<1> QED BY <1>1, <1>4, Zenon DEF Left

\* There is time to start over, when the pass takes the time that has passed.
LEMMA StartsOverLasts ==
  ASSUME NEW e \in Nat, Lasts(e), Typical, Typical', lag' = lag + e, StartsOver
  PROVE  StartsOver'
<1>1. PICK l \in Nat, m \in Nat : l = lag /\ m = lag'
  BY Numbers
<1>2. m = l + e
  BY <1>1, Zenon
<1>3. PICK x \in Int, y \in Int : x = MaxLag - l + Handshake /\ y = MaxLag - m + Handshake
  BY SlowerIs, PatienceIs
<1>4. y <= x - e
  BY <1>2, <1>3, SlowerIs, PatienceIs
<1>5. Left(x)
  BY <1>1, <1>3, Zenon DEF StartsOver
<1>6. Left(y)'
  BY <1>4, <1>5, LeftLasts
<1> QED BY <1>1, <1>3, <1>6, Zenon DEF StartsOver

\* What a cell leaves it still leaves when it has come to be another one.
LEMMA LeavesLasts ==
  ASSUME Typical, Typical', NEW e \in Nat, Lasts(e), NEW d \in Int,
         NEW i \in DOMAIN Unanswered, NEW j \in DOMAIN Unanswered', Comes(i, j, e), Leaves(i, d)
  PROVE  Leaves(j, d)'
<1>1. PICK s \in Nat, t \in Nat : s = since /\ t = since' /\ t <= s + e
  BY DEF Lasts
<1>2. PICK x \in Int, y \in Int : x = RecoveryTime - s - d /\ y = RecoveryTime - t - d
  BY HostSessionAssumption
<1>3. t <= s + e
  BY <1>1, Zenon
<1>4. x - e <= y
  BY <1>2, <1>3, HostSessionAssumption
<1>5. DueIn(i, x)
  BY <1>1, <1>2, Zenon DEF Leaves
<1>6. DueIn(j, y)'
  BY <1>4, <1>5, DueLasts
<1> QED BY <1>1, <1>2, <1>6, Zenon DEF Leaves

\* A cell that is waited for stays.
LEMMA CellStays ==
  ASSUME NEW e, NEW old, Keeps(NotableKinds, old, e),
         NEW i \in DOMAIN Unanswered, i # old, Awaited(Unanswered[i])
  PROVE  \E j \in DOMAIN Unanswered' : Means(Unanswered[i], Unanswered'[j]) /\ Comes(i, j, e)
BY AwaitedIs DEF NotableKinds, Keeps

\* The handshake stays in time while neither the phase nor the monitor changes, and no
\* answer it waits for is handled.
LEMMA HandshakeStays ==
  ASSUME Typical, Typical', NEW e \in Nat, Lasts(e), NEW old,
         UNCHANGED <<sm, cm>>, Keeps(NotableKinds, old, e),
         cmEvent' = "CFG_TIMEOUT" <=> cmEvent = "CFG_TIMEOUT",
         sm = "UP" /\ Announcing
           /\ Left(Answer - HandshakeAge + (Patience(CONFIG_INTERVAL) + Answer))
             => Announcing' \/ UpInTime',
         sm = "CFG" /\ cm.waiting /\ cmEvent = "CFG_REQUEST" /\ Left(Answer - HandshakeAge)
             => cmEvent' = "CFG_REQUEST" \/ ConfigInTime',
         old \in DOMAIN Unanswered =>
           /\ sm = "UP" => ~Announces(Unanswered[old])
           /\ sm = "CFG" => ~Configures(Unanswered[old]),
         sm \in {"UP", "CFG"} => HandshakeAge' = HandshakeAge + e,
         (sm = "BOOT" \/ cmEvent = "CFG_TIMEOUT") /\ StartsOver => StartsOver',
         HandshakeInTime
  PROVE  HandshakeInTime'
<1>0. /\ Patience(CONFIG_INTERVAL) \in Nat /\ Handshake \in Nat /\ Answer \in Nat
      /\ HandshakeAge \in Nat /\ HandshakeAge' \in Nat /\ CONFIG_INTERVAL \in Nat
  BY PatienceIs, AnswerIs, Numbers
<1>1. PICK a \in Nat, b \in Nat : a = HandshakeAge /\ b = HandshakeAge'
  BY <1>0
<1>2. sm \in {"UP", "CFG"} => b = a + e
  BY <1>1
<1>3. ASSUME NEW x \in Int, NEW y \in Int, Left(x), y <= x - e PROVE Left(y)'
  BY <1>3, LeftLasts
<1>4. PICK p \in Nat, r \in Nat :
        p = Patience(CONFIG_INTERVAL) /\ r = Patience(CONFIG_INTERVAL) + Answer
  BY <1>0
<1>5. ASSUME sm = "UP" PROVE UpInTime'
  <2>0. UpInTime
    BY <1>5 DEF HandshakeInTime
  <2>1. b = a + e
    BY <1>2, <1>5
  <2>2. CASE Left(p - HandshakeAge + Answer + r)
    <3>1. PICK x \in Int, y \in Int : x = p - a + Answer + r /\ y = p - b + Answer + r
      BY <1>0
    <3>2. Left(x)
      BY <1>1, <2>2, <3>1
    <3>3. y <= x - e
      BY <1>0, <2>1, <3>1
    <3>4. Left(y)'
      BY <1>3, <3>2, <3>3
    <3>5. Left(p - HandshakeAge + Answer + r)'
      BY <1>1, <3>1, <3>4
    <3> QED BY <1>4, <3>5 DEF UpInTime
  <2>3. CASE Announcing /\ Left(Answer - HandshakeAge + r)
    <3>1. PICK x \in Int, y \in Int : x = Answer - a + r /\ y = Answer - b + r
      BY <1>0
    <3>2. Left(x)
      BY <1>1, <2>3, <3>1
    <3>3. y <= x - e
      BY <1>0, <2>1, <3>1
    <3>4. Left(y)'
      BY <1>3, <3>2, <3>3
    <3>5. Left(Answer - HandshakeAge + r)'
      BY <1>1, <3>1, <3>4
    <3>6. Announcing' \/ UpInTime'
      BY <1>4, <1>5, <2>3
    <3> QED BY <1>4, <3>5, <3>6 DEF UpInTime
  <2>4. ASSUME NEW i \in DOMAIN Unanswered, Announces(Unanswered[i]), Leaves(i, r)
        PROVE  UpInTime'
    <3>1. i # old /\ Awaited(Unanswered[i])
      BY <1>5, <2>4 DEF Awaited
    <3>2. PICK j \in DOMAIN Unanswered' : Means(Unanswered[i], Unanswered'[j]) /\ Comes(i, j, e)
      BY <3>1, CellStays
    <3>3. Announces(Unanswered'[j]) /\ Leaves(j, r)'
      BY <2>4, <3>2, LeavesLasts DEF Means
    <3> QED BY <1>4, <3>3 DEF UpInTime
  <2> QED BY <1>4, <2>0, <2>2, <2>3, <2>4 DEF UpInTime
<1>6. ASSUME sm = "CFG", cmEvent # "CFG_TIMEOUT" PROVE ConfigInTime'
  <2>0. ConfigInTime
    BY <1>6 DEF HandshakeInTime
  <2>1. b = a + e
    BY <1>2, <1>6
  <2>2. CASE ~cm.waiting /\ Left(p - HandshakeAge + Answer)
    <3>1. PICK x \in Int, y \in Int : x = p - a + Answer /\ y = p - b + Answer
      BY <1>0
    <3>2. Left(x)
      BY <1>1, <2>2, <3>1
    <3>3. y <= x - e
      BY <1>0, <2>1, <3>1
    <3>4. Left(y)'
      BY <1>3, <3>2, <3>3
    <3>5. Left(p - HandshakeAge + Answer)' /\ ~cm'.waiting
      BY <1>1, <2>2, <3>1, <3>4
    <3> QED BY <1>4, <3>5 DEF ConfigInTime
  <2>3. CASE cm.waiting /\ cmEvent = "CFG_REQUEST" /\ Left(Answer - HandshakeAge)
    <3>1. PICK x \in Int, y \in Int : x = Answer - a /\ y = Answer - b
      BY <1>0
    <3>2. Left(x)
      BY <1>1, <2>3, <3>1
    <3>3. y <= x - e
      BY <1>0, <2>1, <3>1
    <3>4. Left(y)'
      BY <1>3, <3>2, <3>3
    <3>5. Left(Answer - HandshakeAge)' /\ cm'.waiting
      BY <1>1, <2>3, <3>1, <3>4
    <3>6. cmEvent' = "CFG_REQUEST" \/ ConfigInTime'
      BY <1>6, <2>3
    <3> QED BY <3>5, <3>6 DEF ConfigInTime
  <2>4. ASSUME cm.waiting, NEW i \in DOMAIN Unanswered, Configures(Unanswered[i]),
               Leaves(i, 0), DueIn(i, CONFIG_INTERVAL - 1 - HandshakeAge)
        PROVE  ConfigInTime'
    <3>1. i # old /\ Awaited(Unanswered[i])
      BY <1>6, <2>4 DEF Awaited
    <3>2. PICK j \in DOMAIN Unanswered' : Means(Unanswered[i], Unanswered'[j]) /\ Comes(i, j, e)
      BY <3>1, CellStays
    <3>3. Configures(Unanswered'[j]) /\ Leaves(j, 0)' /\ cm'.waiting
      BY <2>4, <3>2, LeavesLasts DEF Means
    <3>4. PICK x \in Int, y \in Int : x = CONFIG_INTERVAL - 1 - a /\ y = CONFIG_INTERVAL - 1 - b
      BY <1>0
    <3>5. x - e <= y
      BY <1>0, <2>1, <3>4
    <3>6. DueIn(i, x)
      BY <1>1, <2>4, <3>4
    <3>7. DueIn(j, y)'
      BY <3>2, <3>5, <3>6, DueLasts
    <3>8. DueIn(j, CONFIG_INTERVAL - 1 - HandshakeAge)'
      BY <1>1, <3>4, <3>7
    <3> QED BY <3>3, <3>8 DEF ConfigInTime
  <2>5. CASE cm.waiting /\ Left(p - HandshakeAge + Handshake)
    <3>1. PICK x \in Int, y \in Int : x = p - a + Handshake /\ y = p - b + Handshake
      BY <1>0
    <3>2. Left(x)
      BY <1>1, <2>5, <3>1
    <3>3. y <= x - e
      BY <1>0, <2>1, <3>1
    <3>4. Left(y)'
      BY <1>3, <3>2, <3>3
    <3>5. Left(p - HandshakeAge + Handshake)' /\ cm'.waiting
      BY <1>1, <2>5, <3>1, <3>4
    <3> QED BY <1>4, <3>5 DEF ConfigInTime
  <2> QED BY <1>4, <2>0, <2>2, <2>3, <2>4, <2>5 DEF ConfigInTime
<1> QED BY <1>5, <1>6 DEF HandshakeInTime

\* The heartbeat stays in time while its monitor does not change, and no answer it waits
\* for is handled.
LEMMA HeartbeatStays ==
  ASSUME Typical, Typical', NEW e \in Nat, Lasts(e), NEW old,
         UNCHANGED hb, Keeps(NotableKinds, old, e),
         old \in DOMAIN Unanswered => ~Beats(Unanswered[old]),
         Started' => Started /\ HeartbeatAge' = HeartbeatAge + e,
         hbEvent' = hbEvent \/ (hbEvent' = "NONE" /\ ~Beating),
         hbEvent' = "HB_TIMEOUT" /\ StartsOver => StartsOver',
         HeartbeatInTime
  PROVE  HeartbeatInTime'
<1>0. /\ Patience(HEARTBEAT_INTERVAL) \in Nat /\ Handshake \in Nat
      /\ HeartbeatAge \in Nat /\ HeartbeatAge' \in Nat /\ HEARTBEAT_INTERVAL \in Nat
  BY PatienceIs, Numbers
<1>1. PICK a \in Nat, b \in Nat : a = HeartbeatAge /\ b = HeartbeatAge'
  BY <1>0
<1>2. hbEvent' = "HB_TIMEOUT" => StartsOver'
  BY DEF HeartbeatInTime
<1>3. ASSUME Started', hb'.waiting
      PROVE  \/ Beating'
             \/ \E j \in DOMAIN Unanswered' :
                  Beats(Unanswered'[j]) /\ DueIn(j, HEARTBEAT_INTERVAL - 1 - HeartbeatAge)'
             \/ Left(Patience(HEARTBEAT_INTERVAL) - HeartbeatAge + Handshake)'
  <2>0. b = a + e
    BY <1>1, <1>3
  <2>1. CASE Beating
    BY <2>1 DEF Beating
  <2>2. ASSUME NEW i \in DOMAIN Unanswered, Beats(Unanswered[i]),
               DueIn(i, HEARTBEAT_INTERVAL - 1 - HeartbeatAge)
        PROVE  \E j \in DOMAIN Unanswered' :
                  Beats(Unanswered'[j]) /\ DueIn(j, HEARTBEAT_INTERVAL - 1 - HeartbeatAge)'
    <3>1. i # old /\ Awaited(Unanswered[i])
      BY <2>2 DEF Awaited
    <3>2. PICK j \in DOMAIN Unanswered' : Means(Unanswered[i], Unanswered'[j]) /\ Comes(i, j, e)
      BY <3>1, CellStays
    <3>3. PICK x \in Int, y \in Int : x = HEARTBEAT_INTERVAL - 1 - a /\ y = HEARTBEAT_INTERVAL - 1 - b
      BY <1>0
    <3>4. x - e <= y
      BY <1>0, <2>0, <3>3
    <3>5. DueIn(i, x)
      BY <1>1, <2>2, <3>3
    <3>6. DueIn(j, y)'
      BY <3>2, <3>4, <3>5, DueLasts
    <3>7. Beats(Unanswered'[j]) /\ DueIn(j, HEARTBEAT_INTERVAL - 1 - HeartbeatAge)'
      BY <1>1, <2>2, <3>2, <3>3, <3>6 DEF Means
    <3> QED BY <3>7
  <2>3. CASE Left(Patience(HEARTBEAT_INTERVAL) - HeartbeatAge + Handshake)
    <3>1. PICK x \in Int, y \in Int :
            /\ x = Patience(HEARTBEAT_INTERVAL) - a + Handshake
            /\ y = Patience(HEARTBEAT_INTERVAL) - b + Handshake
      BY <1>0
    <3>2. y <= x - e
      BY <1>0, <2>0, <3>1
    <3>3. Left(x)
      BY <1>1, <2>3, <3>1
    <3>4. Left(y)'
      BY <3>2, <3>3, LeftLasts
    <3>5. Left(Patience(HEARTBEAT_INTERVAL) - HeartbeatAge + Handshake)'
      BY <1>1, <3>1, <3>4
    <3> QED BY <3>5
  <2>4. Started /\ hb.waiting
    BY <1>3
  <2> QED BY <2>1, <2>2, <2>3, <2>4 DEF HeartbeatInTime
<1> QED BY <1>2, <1>3 DEF HeartbeatInTime

\* A reboot that was asked for is still due.
LEMMA RebootStays ==
  ASSUME Typical, Typical', NEW e \in Nat, Lasts(e), NEW new, Follows(NotableKinds, new, e),
         new \in DOMAIN Unanswered' => Unanswered'[new] # "REBOOT",
         RebootInTime
  PROVE  RebootInTime'
<1> SUFFICES ASSUME NEW j \in DOMAIN Unanswered', Unanswered'[j] = "REBOOT"
             PROVE  Leaves(j, Handshake)'
  BY DEF RebootInTime
<1>1. PICK i \in DOMAIN Unanswered : Means(Unanswered[i], Unanswered'[j]) /\ Comes(i, j, e)
  BY DEF Follows, NotableKinds
<1>2. Leaves(i, Handshake)
  BY <1>1 DEF Means, RebootInTime
<1>3. Handshake \in Int
  BY PatienceIs
<1> QED BY <1>1, <1>2, <1>3, LeavesLasts

-----------------------------------------------------------------------------
(* Outside the processor *)

\* What is waited for stays in time while nothing but time and the line changes.
LEMMA WaitingStays ==
  ASSUME Typical, Typical', NEW e \in Nat, Lasts(e), UNCHANGED <<sm, cm, cmEvent, hb, hbEvent>>,
         Keeps(NotableKinds, 0, e), Follows(NotableKinds, 0, e), StartsOver => StartsOver',
         Started /\ cm.run => HandshakeAge' = HandshakeAge + e,
         Started => HeartbeatAge' = HeartbeatAge + e,
         Managed, HandshakeInTime, HeartbeatInTime, RebootInTime
  PROVE  HandshakeInTime' /\ HeartbeatInTime' /\ RebootInTime'
<1>1. 0 \notin DOMAIN Unanswered /\ 0 \notin DOMAIN Unanswered'
  BY DEF Typical, Cells
<1>2. HandshakeInTime'
  <2>1. sm \in {"UP", "CFG"} => HandshakeAge' = HandshakeAge + e
    BY DEF Typical, DeviceInv, HandshakeAgreement, Started
  <2>2. /\ cmEvent' = "CFG_TIMEOUT" <=> cmEvent = "CFG_TIMEOUT"
        /\ Announcing => Announcing'
        /\ cmEvent = "CFG_REQUEST" => cmEvent' = "CFG_REQUEST"
    BY DEF Announcing
  <2> QED BY <1>1, <2>1, <2>2, HandshakeStays
<1>3. HeartbeatInTime'
  <2>1. Started' <=> Started
    BY DEF Started
  <2> QED BY <1>1, <2>1, HeartbeatStays
<1>4. RebootInTime'
  BY <1>1, RebootStays
<1> QED BY <1>2, <1>3, <1>4

\* Exactly one millisecond more has passed since an instant, when that is not too long ago.
LEMMA ElapsedTicks ==
  ASSUME NEW a \in Instant, NEW b \in Instant, Elapsed(a, b) < Wrap - 1
  PROVE  Elapsed(NextInstant(a), b) = Elapsed(a, b) + 1
BY WrapAssumption DEF Instant, NextInstant, Elapsed

\* A step outside the processor takes no time of the monitors, or a millisecond exactly.
LEMMA AgesGoOn ==
  ASSUME Typical, Typical', HostIsQuick, MonitorsAreOnTime, TimePasses
  PROVE  /\ Started /\ cm.run => HandshakeAge' = HandshakeAge + 1
         /\ Started => HeartbeatAge' = HeartbeatAge + 1
         /\ lag' = lag + 1 /\ lag < MaxLag /\ UNCHANGED <<sm, cm, cmEvent, hb, hbEvent, pc, called>>
<1>1. /\ UNCHANGED <<sm, cm, cmEvent, hb, hbEvent, pc, called>>
      /\ lag' = lag + 1 /\ lag < MaxLag /\ now' = NextInstant(now)
  BY DEF TimePasses, Tick, monitors
<1>2. now \in Instant /\ cm.last \in Instant /\ hb.last \in Instant
  BY MonitorsTyped
<1>3. /\ CONFIG_INTERVAL \in Nat \ {0} /\ HEARTBEAT_INTERVAL \in Nat \ {0} /\ MaxLag \in Nat
      /\ Wrap \in Nat \ {0}
  BY Numbers, SlowerIs, WrapAssumption
<1>4. PICK l \in Nat : l = lag /\ l < MaxLag
  <2>1. lag \in Nat /\ lag < MaxLag
    BY <1>1, Numbers
  <2> QED BY <2>1
<1>5. HeartbeatSlack <= 2 * MaxLag - 1 /\ ConfigSlack <= 2 * MaxLag - 1
      /\ HeartbeatSlack \in Nat /\ ConfigSlack \in Nat
  BY <1>3, <1>4 DEF HeartbeatSlack, ConfigSlack
<1>6. CONFIG_INTERVAL + 2 * MaxLag <= Wrap /\ HEARTBEAT_INTERVAL + 2 * MaxLag <= Wrap
  BY DEF HostIsQuick
<1>7. ASSUME Started, cm.run PROVE HandshakeAge' = HandshakeAge + 1
  <2>1. PICK a \in Nat : a = Elapsed(now, cm.last)
    BY <1>2, ElapsedTyped
  <2>2. HandshakeAge = a
    BY <1>7, <2>1 DEF HandshakeAge
  <2>3. a < Wrap - 1
    BY <1>3, <1>5, <1>6, <1>7, <2>2 DEF MonitorsAreOnTime
  <2>4. Elapsed(NextInstant(now), cm.last) = a + 1
    BY <1>2, <2>1, <2>3, ElapsedTicks
  <2>5. HandshakeAge' = a + 1
    BY <1>1, <1>7, <2>4 DEF HandshakeAge
  <2> QED BY <2>2, <2>5
<1>8. ASSUME Started PROVE HeartbeatAge' = HeartbeatAge + 1
  <2>1. PICK a \in Nat : a = Elapsed(now, hb.last)
    BY <1>2, ElapsedTyped
  <2>2. HeartbeatAge = a
    BY <2>1 DEF HeartbeatAge
  <2>3. a < Wrap - 1
    BY <1>3, <1>5, <1>6, <1>8, <2>2 DEF MonitorsAreOnTime
  <2>4. Elapsed(NextInstant(now), hb.last) = a + 1
    BY <1>2, <2>1, <2>3, ElapsedTicks
  <2>5. HeartbeatAge' = a + 1
    BY <1>1, <2>4 DEF HeartbeatAge
  <2> QED BY <2>2, <2>5
<1> QED BY <1>1, <1>7, <1>8

\* What a step of the environment leaves alone.
Apart == <<sm, cm, cmEvent, hb, hbEvent, called, now, lag>>

\* A monitor is on time, and has been begun once, while it is left alone.
LEMMA ApartIsOnTime ==
  ASSUME UNCHANGED Apart, BeforeHeartbeat' <=> BeforeHeartbeat, BeforeConfig' <=> BeforeConfig
  PROVE  /\ HandshakeAge' = HandshakeAge /\ HeartbeatAge' = HeartbeatAge
         /\ MonitorsAreOnTime => MonitorsAreOnTime'
         /\ BegunOnce => BegunOnce'
<1>1. HandshakeAge' = HandshakeAge /\ HeartbeatAge' = HeartbeatAge
  BY DEF Apart, HandshakeAge, HeartbeatAge
<1>2. HeartbeatSlack' = HeartbeatSlack /\ ConfigSlack' = ConfigSlack
  BY DEF Apart, HeartbeatSlack, ConfigSlack
<1>3. MonitorsAreOnTime => MonitorsAreOnTime'
  BY <1>1, <1>2 DEF Apart, MonitorsAreOnTime, Started
<1>4. BegunOnce => BegunOnce'
  BY DEF Apart, BegunOnce, Started
<1> QED BY <1>1, <1>3, <1>4

\* The device reads, the host answers, its user asks: nothing is late for that.
LEMMA MovesAreOnTime ==
  ASSUME Typical, Typical', SinceTyped, Managed, RecoveryInv,
         Read \/ HostAnswers \/ UserAsks
  PROVE  RecoveryInv'
<1>1. UNCHANGED Apart /\ (BeforeHeartbeat' <=> BeforeHeartbeat) /\ (BeforeConfig' <=> BeforeConfig)
  <2>1. CASE Read
    BY <2>1 DEF Read, ReadLine, Step, monitors, Apart, BeforeHeartbeat, BeforeConfig
  <2>2. CASE HostAnswers \/ UserAsks
    BY <2>2 DEF HostAnswers, UserAsks, vars, monitors, Apart, BeforeHeartbeat, BeforeConfig
  <2> QED BY <2>1, <2>2
<1>2. /\ HandshakeAge' = HandshakeAge /\ HeartbeatAge' = HeartbeatAge
      /\ MonitorsAreOnTime' /\ BegunOnce'
  BY <1>1, ApartIsOnTime DEF RecoveryInv
<1>3. HandshakeAge' = HandshakeAge + 0 /\ HeartbeatAge' = HeartbeatAge + 0
  BY <1>2, Numbers
<1>4. UNCHANGED <<since, lag>>
  BY <1>1 DEF Read, HostAnswers, UserAsks, NoFault, Apart
<1>5. Lasts(0)
  <2>1. PICK s \in Nat : s = since
    BY DEF SinceTyped
  <2>2. s = since /\ s = since' /\ s <= s + 0
    BY <1>4, <2>1
  <2> QED BY <2>2 DEF Lasts
<1>6. StartsOver => StartsOver'
  BY <1>4 DEF StartsOver, Left
<1>7. Follows(NotableKinds, 0, 0) /\ Keeps(NotableKinds, 0, 0)
  <2>1. CASE Read
    BY <2>1, ReadMoves
  <2>2. CASE HostAnswers
    BY <2>2, AnswerMoves
  <2>3. CASE UserAsks
    <3>1. PICK m \in UserRequests : H!Request(m)
      BY <2>3 DEF UserAsks
    <3>2. m \notin NotableKinds
      BY HostSessionAssumption DEF NotableKinds, AwaitedKinds
    <3>3. UNCHANGED vars
      BY <2>3 DEF UserAsks
    <3> QED BY <3>1, <3>2, <3>3, RequestMoves
  <2> QED BY <2>1, <2>2, <2>3
<1>8. UNCHANGED <<sm, cm, cmEvent, hb, hbEvent>> /\ 0 \in Nat
  BY <1>1 DEF Apart
<1>9. HandshakeInTime' /\ HeartbeatInTime' /\ RebootInTime'
  BY <1>3, <1>5, <1>6, <1>7, <1>8, WaitingStays DEF RecoveryInv
<1> QED BY <1>2, <1>9 DEF RecoveryInv

\* A millisecond passes.
LEMMA TimeIsOnTime ==
  ASSUME Typical, Typical', SinceTyped, Managed, HostIsQuick, RecoveryInv, TimePasses
  PROVE  RecoveryInv'
<1>1. /\ Started /\ cm.run => HandshakeAge' = HandshakeAge + 1
      /\ Started => HeartbeatAge' = HeartbeatAge + 1
      /\ lag' = lag + 1 /\ UNCHANGED <<sm, cm, cmEvent, hb, hbEvent, pc, called>>
  BY AgesGoOn DEF RecoveryInv
<1>2. Lasts(1)
  <2>1. PICK s \in Nat : s = since
    BY DEF SinceTyped
  <2>2. since' = IF s > RecoveryTime THEN s ELSE s + 1
    BY <2>1 DEF TimePasses
  <2>3. PICK t \in Nat : t = IF s > RecoveryTime THEN s ELSE s + 1
    BY HostSessionAssumption
  <2>4. t <= s + 1
    BY <2>3, HostSessionAssumption
  <2> QED BY <2>1, <2>2, <2>3, <2>4, Zenon DEF Lasts
<1>3. StartsOver => StartsOver'
  <2>1. lag' = lag + 1 /\ 1 \in Nat
    BY <1>1
  <2> QED BY <1>2, <2>1, StartsOverLasts
<1>4. Follows(NotableKinds, 0, 1) /\ Keeps(NotableKinds, 0, 1)
  BY TimeMoves
<1>6. HandshakeInTime' /\ HeartbeatInTime' /\ RebootInTime'
  <2>1. Started /\ cm.run => HandshakeAge' = HandshakeAge + 1
    BY <1>1
  <2>2. /\ UNCHANGED <<sm, cm, cmEvent, hb, hbEvent>> /\ 1 \in Nat
        /\ Started => HeartbeatAge' = HeartbeatAge + 1
    BY <1>1
  <2> QED BY <1>2, <1>3, <1>4, <2>1, <2>2, WaitingStays DEF RecoveryInv
<1>7. BegunOnce'
  BY <1>1 DEF RecoveryInv, BegunOnce, Started
<1>8. MonitorsAreOnTime'
  <2>1. HeartbeatSlack' = HeartbeatSlack + 1 /\ ConfigSlack' = ConfigSlack + 1
        /\ HeartbeatSlack \in Nat /\ ConfigSlack \in Nat
    <3>1. PICK l \in Nat : l = lag
      BY Numbers
    <3>2. lag' = l + 1
      BY <1>1, <3>1
    <3>3. (BeforeHeartbeat' <=> BeforeHeartbeat) /\ (BeforeConfig' <=> BeforeConfig)
      BY <1>1 DEF BeforeHeartbeat, BeforeConfig
    <3> QED BY <3>1, <3>2, <3>3, SlowerIs DEF HeartbeatSlack, ConfigSlack
  <2>2. (Started' <=> Started) /\ hb' = hb /\ cm' = cm
    BY <1>1 DEF Started
  <2>3. HandshakeAge \in Nat /\ HeartbeatAge \in Nat
        /\ CONFIG_INTERVAL \in Nat \ {0} /\ HEARTBEAT_INTERVAL \in Nat \ {0}
    BY Numbers
  <2>4. ASSUME Started PROVE HeartbeatAge' <= HEARTBEAT_INTERVAL - 1 + HeartbeatSlack'
    BY <1>1, <2>1, <2>3, <2>4 DEF RecoveryInv, MonitorsAreOnTime
  <2>5. ASSUME Started, cm.run PROVE HandshakeAge' <= CONFIG_INTERVAL - 1 + ConfigSlack'
    BY <1>1, <2>1, <2>3, <2>5 DEF RecoveryInv, MonitorsAreOnTime
  <2> QED BY <2>2, <2>4, <2>5 DEF RecoveryInv, MonitorsAreOnTime
<1> QED BY <1>6, <1>7, <1>8 DEF RecoveryInv

\* A reboot that has just been asked for is next, or next but one.
LEMMA RebootIsNext ==
  ASSUME Typical, Typical', HostIsQuick, RebootAsked
  PROVE  RebootInTime'
<1> SUFFICES ASSUME NEW j \in DOMAIN Unanswered', Unanswered'[j] = "REBOOT"
             PROVE  Leaves(j, Handshake)'
  BY DEF RebootInTime
<1>1. toDevice' = <<"REBOOT">> /\ UNCHANGED toHost /\ since' = 0
  BY DEF RebootAsked, H!Request, Fault
<1>2. Len(toDevice') = 1
  BY <1>1
<1>3. /\ DOMAIN Unanswered' = 1 .. 2 + Len(toHost') /\ Len(Answered)' = 2
      /\ \A i \in 3 .. 2 + Len(toHost') : Unanswered'[i] = toHost'[i - 2]
      /\ Len(toHost') \in Nat
  <2>1. /\ Len(toHost') \in Nat /\ Len(Answered)' = 1 + Len(toDevice')
        /\ DOMAIN Unanswered' = 1 .. 1 + Len(toDevice') + Len(toHost')
        /\ \A i \in 2 + Len(toDevice') .. 1 + Len(toDevice') + Len(toHost') :
             Unanswered'[i] = toHost'[i - 1 - Len(toDevice')]
    BY DEF Typical, Cells
  <2> QED BY <1>2, <2>1
<1>4. j \in {1, 2}
  <2>1. CASE j \in 3 .. 2 + Len(toHost')
    <3>1. toHost' \in Seq(LineKind)
      BY DEF Typical, H!TypeOK, LineKind
    <3>2. j - 2 \in 1 .. Len(toHost')
      BY <1>3, <2>1
    <3>3. toHost'[j - 2] \in LineKind
      BY <3>1, <3>2
    <3> QED BY <1>3, <2>1, <3>3 DEF LineKind
  <2> QED BY <1>3, <2>1
<1>5. ByDevice(j)' <= 2 * MaxLag
  <2>1. 1 \in Nat \ {0} /\ 1 + 1 = 2
    OBVIOUS
  <2>2. Passes(1) = 0 /\ Passes(1 + 1) = Passes(1) + MaxLag
    BY <2>1, CostOfOne
  <2>3. Passes(1) = 0 /\ Passes(2) = MaxLag
    BY <2>1, <2>2, SlowerIs
  <2>4. PICK l \in Nat : l = lag'
    BY Numbers
  <2> QED BY <1>4, <2>3, <2>4, SlowerIs DEF ByDevice
<1>6. PICK d \in Int : d = RecoveryTime - 0 - Handshake /\ 2 * MaxLag <= d
  BY SlowerIs, PatienceIs, RecoveryTimeIs
<1>7. DueIn(j, d)'
  <2>1. ByDevice(j)' \in Int
    BY <1>4, TimesTypedIs DEF TimesTyped
  <2>2. ByDevice(j)' <= d
    BY <1>5, <1>6, <2>1, SlowerIs
  <2> QED BY <1>3, <1>4, <2>2 DEF DueIn
<1>8. d = RecoveryTime - since' - Handshake
  BY <1>1, <1>6
<1> QED BY <1>7, <1>8, Zenon DEF Leaves

\* After a fault there is time for everything.
LEMMA FaultsAreOnTime ==
  ASSUME Typical, Typical', SinceTyped, HostIsQuick, RecoveryInv,
         LineLost \/ RebootAsked \/ PowerLost
  PROVE  RecoveryInv'
<1>1. since' = 0
  BY DEF LineLost, RebootAsked, PowerLost, Fault
<1>2. HandshakeInTime' /\ HeartbeatInTime'
  BY <1>1, TimeAfterFault
<1>3. Lasts(0) /\ 0 \in Nat
  <2>1. PICK s \in Nat : s = since
    BY DEF SinceTyped
  <2>2. 0 \in Nat /\ 0 <= s + 0
    BY <2>1
  <2> QED BY <1>1, <2>1, <2>2, Zenon DEF Lasts
<1>4. 0 \notin DOMAIN Unanswered'
  BY DEF Typical, Cells
<1>5. CASE LineLost \/ RebootAsked
  <2>1. UNCHANGED vars
    BY <1>5 DEF LineLost, RebootAsked
  <2>2. UNCHANGED Apart /\ (BeforeHeartbeat' <=> BeforeHeartbeat) /\ (BeforeConfig' <=> BeforeConfig)
    BY <2>1 DEF vars, monitors, Apart, BeforeHeartbeat, BeforeConfig
  <2>3. MonitorsAreOnTime' /\ BegunOnce'
    BY <2>2, ApartIsOnTime DEF RecoveryInv
  <2>4. RebootInTime'
    <3>1. CASE LineLost
      <4>1. Follows(NotableKinds, 0, 0)
        BY <2>1, <3>1, LossMoves DEF LineLost
      <4> QED BY <1>3, <1>4, <4>1, RebootStays DEF RecoveryInv
    <3>2. CASE RebootAsked
      BY <3>2, RebootIsNext
    <3> QED BY <1>5, <3>1, <3>2
  <2> QED BY <1>2, <2>3, <2>4 DEF RecoveryInv
<1>6. CASE PowerLost
  <2>1. ~Started'
    BY <1>6 DEF PowerLost, PowerCycle, Started
  <2>2. Follows(NotableKinds, 0, 0)
    BY <1>6, PowerLostMoves
  <2>3. RebootInTime'
    BY <1>3, <1>4, <2>2, RebootStays DEF RecoveryInv
  <2> QED BY <1>2, <2>1, <2>3 DEF RecoveryInv, MonitorsAreOnTime, BegunOnce
<1> QED BY <1>5, <1>6

-----------------------------------------------------------------------------
(* What the processor does *)

\* An event is handled, whichever emitter it was in.
Handles(e) ==
  /\ HandleEvent(e) /\ e # "NONE"
  /\ \/ phEvent = e /\ hbEvent = "NONE" /\ cmEvent = "NONE"
     \/ phEvent = "NONE" /\ hbEvent = e /\ cmEvent = "NONE"
     \/ phEvent = "NONE" /\ hbEvent = "NONE" /\ cmEvent = e
  /\ phEvent' = "NONE" /\ hbEvent' = "NONE" /\ cmEvent' = "NONE"
  /\ Started /\ UNCHANGED <<now, lag, called>>

\* What is waited for is left alone; a pass that is over was of a device that is started.
PassesOn ==
  /\ UNCHANGED <<sm, cm, cmEvent, hb, hbEvent, phEvent>>
  /\ lag' = lag \/ (Started /\ cmEvent = "NONE" /\ hbEvent = "NONE")
  /\ called <= called'

\* The processor begins, updates a monitor, handles an event, or goes on.
LEMMA RunActs ==
  ASSUME Typical, Run
  PROVE  \/ Begin \/ ConfigUpdate \/ HeartbeatUpdate \/ PassesOn
         \/ \E e \in {phEvent, hbEvent, cmEvent} : Handles(e)
<1>0. /\ DeviceInv /\ TypeOK /\ called \in Nat
      /\ pc # "setup" => Started
  BY LoopIsStarted DEF Typical, DeviceInv, TypeOK
<1> USE DEF Step, monitors, HasEvent
<1>1. CASE ProtocolEvent
  BY <1>0, <1>1 DEF ProtocolEvent, Handles, DeviceInv, NothingOverwritten
<1>2. CASE HeartbeatEvent
  BY <1>0, <1>2 DEF HeartbeatEvent, Handles, DeviceInv, NothingOverwritten
<1>3. CASE ConfigEvent
  BY <1>0, <1>3 DEF ConfigEvent, Handles, DeviceInv, NothingOverwritten
<1>4. CASE StatusEvent
  <2>1. stEvent = "STATUS_UPDATE"
    BY <1>0, <1>4 DEF StatusEvent, TypeOK, ST!TypeOK
  <2>2. UNCHANGED <<sm, cm, hb>>
    BY <1>4, <2>1 DEF StatusEvent, HandleEvent, OnConfigTimeout, OnHeartbeatTimeout, OnStatusUpdate
  <2> QED BY <1>0, <1>4, <2>2 DEF StatusEvent, PassesOn
<1>5. CASE NextPass
  BY <1>0, <1>5 DEF NextPass, PassesOn, DeviceInv, NothingOverwritten
<1>6. ASSUME NEW n \in Node, AddNode(n) PROVE PassesOn
  <2>1. called' = called + 1 /\ lag' = lag /\ UNCHANGED <<sm, cm, cmEvent, hb, hbEvent, phEvent>>
    BY <1>6 DEF AddNode, Calling
  <2> QED BY <1>0, <2>1 DEF PassesOn
<1>7. CASE \/ NoMoreInput \/ NoProtocolEvent \/ PendingCommand \/ NoCommandPending
           \/ NoHeartbeatEvent \/ NoConfigEvent \/ NodesUpdate \/ PollNodes \/ NothingPolled
           \/ StatusUpdate
  BY <1>0, <1>7
  DEF NoMoreInput, NoProtocolEvent, PendingCommand, NoCommandPending, NoHeartbeatEvent,
      NoConfigEvent, NodesUpdate, PollNodes, NothingPolled, StatusUpdate, PassesOn
<1> QED BY <1>1, <1>2, <1>3, <1>4, <1>5, <1>6, <1>7 DEF Run, Setup, Loop

\* Before a monitor is updated a pass goes on, or the next one begins.
LEMMA PhasesFollow ==
  ASSUME Run
  PROVE  /\ ~HeartbeatUpdate /\ BeforeHeartbeat => BeforeHeartbeat'
         /\ ~ConfigUpdate /\ BeforeConfig => BeforeConfig'
         /\ lag' = lag \/ (BeforeHeartbeat' /\ BeforeConfig' /\ lag' = 0 /\ ~BeforeConfig)
BY DEF Run, Setup, Loop, Begin, AddNode, Calling, NoMoreInput, ProtocolEvent, NoProtocolEvent,
       PendingCommand, NoCommandPending, HeartbeatUpdate, HeartbeatEvent, NoHeartbeatEvent,
       ConfigUpdate, ConfigEvent, NoConfigEvent, NodesUpdate, PollNodes, NothingPolled,
       StatusUpdate, StatusEvent, NextPass, Step, BeforeHeartbeat, BeforeConfig

\* So the slack of a monitor does not shrink until it is updated.
LEMMA SlackLasts ==
  ASSUME Typical, Typical', Run
  PROVE  /\ HeartbeatSlack \in Nat /\ HeartbeatSlack' \in Nat
         /\ ConfigSlack \in Nat /\ ConfigSlack' \in Nat
         /\ ~HeartbeatUpdate => HeartbeatSlack <= HeartbeatSlack'
         /\ ~ConfigUpdate => ConfigSlack <= ConfigSlack'
<1>1. PICK l \in Nat, m \in Nat, L \in Nat :
        l = lag /\ m = lag' /\ L = MaxLag
  <2>1. lag \in Nat /\ lag' \in Nat /\ MaxLag \in Nat
    BY Numbers, SlowerIs
  <2> QED BY <2>1
<1>b. l <= L
  BY <1>1, Numbers
<1>2. m = l \/ (BeforeHeartbeat' /\ BeforeConfig' /\ m = 0 /\ ~BeforeConfig)
  BY <1>1, PhasesFollow, Zenon
<1>3. /\ BeforeHeartbeat => HeartbeatSlack = L + l
      /\ ~BeforeHeartbeat => HeartbeatSlack = 0 + l
      /\ BeforeHeartbeat' => HeartbeatSlack' = L + m
      /\ ~BeforeHeartbeat' => HeartbeatSlack' = 0 + m
      /\ BeforeConfig => ConfigSlack = L + l
      /\ ~BeforeConfig => ConfigSlack = 0 + l
      /\ BeforeConfig' => ConfigSlack' = L + m
      /\ ~BeforeConfig' => ConfigSlack' = 0 + m
  BY <1>1, Zenon DEF HeartbeatSlack, ConfigSlack
<1>4. BeforeHeartbeat => BeforeConfig
  BY DEF BeforeConfig
<1>5. HeartbeatSlack \in Nat /\ HeartbeatSlack' \in Nat /\ ConfigSlack \in Nat /\ ConfigSlack' \in Nat
  BY <1>3
<1>6. ASSUME ~HeartbeatUpdate PROVE HeartbeatSlack <= HeartbeatSlack'
  <2>1. BeforeHeartbeat => BeforeHeartbeat'
    BY <1>6, PhasesFollow
  <2> QED BY <1>b, <1>2, <1>3, <1>4, <2>1
<1>7. ASSUME ~ConfigUpdate PROVE ConfigSlack <= ConfigSlack'
  <2>1. BeforeConfig => BeforeConfig'
    BY <1>7, PhasesFollow
  <2> QED BY <1>b, <1>2, <1>3, <1>4, <2>1
<1> QED BY <1>5, <1>6, <1>7

\* begin() is called on a device that is not started, and starts both monitors from now.
LEMMA BeginStarts ==
  ASSUME Typical, Managed, BegunOnce, Begin
  PROVE  /\ ~Started /\ sm' = "UP" /\ cm' = [CM!Fresh(now) EXCEPT !.run = TRUE]
         /\ hb' = [run |-> TRUE, waiting |-> FALSE, last |-> now]
         /\ cmEvent' = "NONE" /\ hbEvent' = "NONE" /\ UNCHANGED <<lag, now>>
         /\ HandshakeAge' = 0 /\ HeartbeatAge' = 0
         /\ BegunOnce'
<1>1. /\ sm' = "UP" /\ cm' = [CM!Fresh(now) EXCEPT !.run = TRUE]
      /\ hb' = [run |-> TRUE, waiting |-> FALSE, last |-> now]
      /\ cmEvent' = "NONE" /\ hbEvent' = "NONE" /\ UNCHANGED <<lag, now>>
      /\ SetupCalls[called + 1] = "begin" /\ called' = called + 1 /\ called < Len(SetupCalls)
  BY DEF Begin, Calling, FSM!Begin, FSM!StartState, CM!Begin, HB!Begin, Managed
<1>2. HandshakeAge' = 0 /\ HeartbeatAge' = 0
  BY <1>1, AgesStartOver
<1>3. /\ called \in Nat /\ DOMAIN SetupCalls = 1 .. Len(SetupCalls) /\ Len(SetupCalls) \in Nat
      /\ \A i, j \in DOMAIN SetupCalls : SetupCalls[i] = SetupCalls[j] => i = j
  BY OrquestratorAssumption DEF Typical, DeviceInv, TypeOK
<1>4. ~Started
  <2> SUFFICES ASSUME Started PROVE FALSE
    OBVIOUS
  <2>1. PICK i \in 1 .. called : SetupCalls[i] = "begin"
    BY DEF BegunOnce
  <2>2. i \in DOMAIN SetupCalls /\ called + 1 \in DOMAIN SetupCalls /\ i # called + 1
    BY <1>1, <1>3
  <2> QED BY <1>1, <1>3, <2>1, <2>2
<1>5. BegunOnce'
  <2>1. called + 1 \in 1 .. called'
    BY <1>1, <1>3
  <2> QED BY <1>1, <2>1 DEF BegunOnce
<1> QED BY <1>1, <1>2, <1>4, <1>5

\* Nothing else starts the device, and nothing stops the heartbeat.
LEMMA StartedBefore ==
  ASSUME Typical, Managed, Run, ~Begin
  PROVE  (Started' => Started) /\ hb'.run = hb.run /\ called <= called'
<1>1. CASE PassesOn
  BY <1>1 DEF PassesOn, Started
<1>2. CASE ConfigUpdate
  BY <1>2 DEF ConfigUpdate, Step, Started, Typical, DeviceInv, TypeOK
<1>3. CASE HeartbeatUpdate
  <2>1. HB!Update(now) /\ UNCHANGED <<sm, called>>
    BY <1>3 DEF HeartbeatUpdate, Step
  <2>2. hb' \in {hb, [hb EXCEPT !.waiting = ~hb.waiting, !.last = now]}
    BY <2>1 DEF HB!Update
  <2>3. hb'.run = hb.run
    BY <2>2 DEF Typical, DeviceInv, TypeOK, HB!TypeOK, HB!Monitor
  <2> QED BY <2>1, <2>3 DEF Started, Typical, DeviceInv, TypeOK
<1>4. ASSUME NEW e, Handles(e) PROVE Started /\ hb'.run = hb.run /\ called <= called'
  <2>1. hb' \in {hb, [hb EXCEPT !.waiting = FALSE, !.last = now]}
    BY <1>4, EventMonitors DEF Handles
  <2>2. hb'.run = hb.run
    BY <2>1 DEF Typical, DeviceInv, TypeOK, HB!TypeOK, HB!Monitor
  <2> QED BY <1>4, <2>2 DEF Handles, Typical, DeviceInv, TypeOK
<1> QED BY <1>1, <1>2, <1>3, <1>4, RunActs

\* Once a monitor has been updated, its interval is not over.
LEMMA UpdatedInTime ==
  ASSUME Typical, Typical', Run
  PROVE  /\ HeartbeatUpdate /\ hb.run => HeartbeatAge' <= HEARTBEAT_INTERVAL - 1
         /\ ConfigUpdate /\ cm.run => HandshakeAge' <= CONFIG_INTERVAL - 1
<1>0. /\ now \in Instant /\ cm.last \in Instant /\ hb.last \in Instant /\ UNCHANGED now
      /\ CONFIG_INTERVAL \in Nat \ {0} /\ HEARTBEAT_INTERVAL \in Nat \ {0}
  BY MonitorsTyped, Numbers, RaisedNow DEF Typical
<1>1. Elapsed(now, now) = 0 /\ Elapsed(now, cm.last) \in Nat /\ Elapsed(now, hb.last) \in Nat
  BY <1>0, ElapsedTyped
<1>2. ASSUME HeartbeatUpdate, hb.run PROVE HeartbeatAge' <= HEARTBEAT_INTERVAL - 1
  <2>1. HB!Update(now)
    BY <1>2 DEF HeartbeatUpdate
  <2>2. HB!Elapsed(now, hb.last) = Elapsed(now, hb.last)
    BY DEF Elapsed, HB!Elapsed
  <2>3. CASE Elapsed(now, hb.last) >= HEARTBEAT_INTERVAL
    <3>1. hb' = [hb EXCEPT !.waiting = ~hb.waiting, !.last = now]
      BY <1>2, <2>1, <2>2, <2>3 DEF HB!Update
    <3>2. hb'.last = now
      BY <3>1 DEF Typical, DeviceInv, TypeOK, HB!TypeOK, HB!Monitor
    <3>3. HeartbeatAge' = 0
      BY <1>0, <1>1, <3>2 DEF HeartbeatAge
    <3> QED BY <1>0, <3>3
  <2>4. CASE ~(Elapsed(now, hb.last) >= HEARTBEAT_INTERVAL)
    <3>1. UNCHANGED hb
      BY <1>2, <2>1, <2>2, <2>4 DEF HB!Update
    <3>2. HeartbeatAge' = Elapsed(now, hb.last)
      BY <1>0, <3>1 DEF HeartbeatAge
    <3> QED BY <1>0, <1>1, <2>4, <3>2
  <2> QED BY <2>3, <2>4
<1>3. ASSUME ConfigUpdate, cm.run PROVE HandshakeAge' <= CONFIG_INTERVAL - 1
  <2>1. CM!Update(now)
    BY <1>3 DEF ConfigUpdate
  <2>2. CM!Elapsed(now, cm.last) = Elapsed(now, cm.last)
    BY DEF Elapsed, CM!Elapsed
  <2>3. CASE Elapsed(now, cm.last) >= CONFIG_INTERVAL
    <3>1. cm' = [cm EXCEPT !.waiting = ~cm.waiting, !.last = now]
      BY <1>3, <2>1, <2>2, <2>3 DEF CM!Update
    <3>2. cm'.last = now
      BY <3>1 DEF Typical, DeviceInv, TypeOK, CM!TypeOK, CM!Monitor
    <3>3. Elapsed(now', cm'.last) = 0
      BY <1>0, <1>1, <3>2
    <3>4. HandshakeAge' = 0
      BY <3>3, Zenon DEF HandshakeAge
    <3> QED BY <1>0, <3>4
  <2>4. CASE ~(Elapsed(now, cm.last) >= CONFIG_INTERVAL)
    <3>1. UNCHANGED cm
      BY <1>3, <2>1, <2>2, <2>4 DEF CM!Update
    <3>2. HandshakeAge' = Elapsed(now, cm.last)
      BY <1>0, <1>3, <3>1 DEF HandshakeAge
    <3> QED BY <1>0, <1>1, <2>4, <3>2
  <2> QED BY <2>3, <2>4
<1> QED BY <1>2, <1>3

\* A number that was within a bound that has grown, or starts over, or is within the least.
LEMMA Within ==
  ASSUME NEW i \in Nat \ {0}, NEW a \in Nat, NEW b \in Nat, NEW s \in Nat, NEW t \in Nat,
         \/ b <= i - 1
         \/ b \in {a, 0} /\ a <= i - 1 + s /\ s <= t
  PROVE  b <= i - 1 + t
OBVIOUS

\* So the monitors stay on time, whatever the processor does.
LEMMA MonitorsStayOnTime ==
  ASSUME Typical, Typical', Managed, phEvent # "GET_STATE", MonitorsAreOnTime, BegunOnce, Run
  PROVE  MonitorsAreOnTime' /\ BegunOnce'
<1>0. /\ HandshakeAge \in Nat /\ HandshakeAge' \in Nat
      /\ HeartbeatAge \in Nat /\ HeartbeatAge' \in Nat
      /\ CONFIG_INTERVAL \in Nat \ {0} /\ HEARTBEAT_INTERVAL \in Nat \ {0}
      /\ HeartbeatSlack \in Nat /\ HeartbeatSlack' \in Nat
      /\ ConfigSlack \in Nat /\ ConfigSlack' \in Nat
  BY Numbers, SlackLasts
<1>1. ASSUME HeartbeatAge' = 0 PROVE HeartbeatAge' <= HEARTBEAT_INTERVAL - 1 + HeartbeatSlack'
  <2>1. 0 <= HEARTBEAT_INTERVAL - 1
    BY <1>0
  <2>2. HeartbeatAge' <= HEARTBEAT_INTERVAL - 1
    BY <1>1, <2>1, Zenon
  <2> QED BY <1>0, <2>2, Within
<1>2. ASSUME HandshakeAge' = 0 PROVE HandshakeAge' <= CONFIG_INTERVAL - 1 + ConfigSlack'
  <2>1. 0 <= CONFIG_INTERVAL - 1
    BY <1>0
  <2>2. HandshakeAge' <= CONFIG_INTERVAL - 1
    BY <1>2, <2>1, Zenon
  <2> QED BY <1>0, <2>2, Within
<1>3. CASE Begin
  <2>1. /\ hb' = [run |-> TRUE, waiting |-> FALSE, last |-> now]
        /\ HandshakeAge' = 0 /\ HeartbeatAge' = 0 /\ BegunOnce'
    BY <1>3, BeginStarts
  <2>2. hb'.run
    BY <2>1
  <2> QED BY <1>1, <1>2, <2>1, <2>2, Zenon DEF MonitorsAreOnTime
<1>4. CASE ~Begin
  <2>1. (Started' => Started) /\ hb'.run = hb.run /\ called <= called'
    BY <1>4, StartedBefore
  <2>2. HandshakeAge' \in {HandshakeAge, 0} /\ HeartbeatAge' \in {HeartbeatAge, 0}
    BY RunMonitors
  <2>3. ASSUME Started PROVE HeartbeatAge' <= HEARTBEAT_INTERVAL - 1 + HeartbeatSlack'
    <3>1. CASE HeartbeatUpdate
      <4>1. HeartbeatAge' <= HEARTBEAT_INTERVAL - 1
        BY <2>3, <3>1, UpdatedInTime DEF MonitorsAreOnTime
      <4> QED BY <1>0, <4>1, Within
    <3>2. CASE ~HeartbeatUpdate
      <4>1. HeartbeatSlack <= HeartbeatSlack'
        BY <3>2, SlackLasts
      <4>2. HeartbeatAge <= HEARTBEAT_INTERVAL - 1 + HeartbeatSlack
        BY <2>3 DEF MonitorsAreOnTime
      <4> QED BY <1>0, <2>2, <4>1, <4>2, Within
    <3> QED BY <3>1, <3>2
  <2>4. ASSUME Started PROVE HandshakeAge' <= CONFIG_INTERVAL - 1 + ConfigSlack'
    <3>1. CASE ~cm.run
      <4>1. HandshakeAge' = 0
        BY <2>2, <3>1 DEF HandshakeAge
      <4> QED BY <1>2, <4>1
    <3>2. CASE cm.run /\ ConfigUpdate
      <4>1. HandshakeAge' <= CONFIG_INTERVAL - 1
        BY <3>2, UpdatedInTime
      <4> QED BY <1>0, <4>1, Within
    <3>3. CASE cm.run /\ ~ConfigUpdate
      <4>1. ConfigSlack <= ConfigSlack'
        BY <3>3, SlackLasts
      <4>2. HandshakeAge <= CONFIG_INTERVAL - 1 + ConfigSlack
        BY <2>4, <3>3 DEF MonitorsAreOnTime
      <4> QED BY <1>0, <2>2, <4>1, <4>2, Within
    <3> QED BY <3>1, <3>2, <3>3
  <2>5. MonitorsAreOnTime'
    BY <2>1, <2>3, <2>4, Zenon DEF MonitorsAreOnTime
  <2>6. BegunOnce'
    <3>1. called \in Nat /\ called' \in Nat
      BY DEF Typical, DeviceInv, TypeOK
    <3>2. \A i \in 1 .. called : i \in 1 .. called'
      BY <2>1, <3>1
    <3> QED BY <2>1, <3>2 DEF BegunOnce
  <2> QED BY <2>5, <2>6
<1> QED BY <1>3, <1>4

\* The processor takes no time.
LEMMA RunLasts ==
  ASSUME SinceTyped, Run
  PROVE  Lasts(0) /\ 0 \in Nat /\ since' = since /\ (\A x : Left(x) => Left(x)')
<1>1. since' = since
  BY DEF Run, NoFault
<1>2. PICK s \in Nat : s = since
  BY DEF SinceTyped
<1>3. 0 \in Nat /\ s <= s + 0
  BY <1>2
<1>4. Lasts(0)
  BY <1>1, <1>2, <1>3, Zenon DEF Lasts
<1>5. \A x : Left(x) => Left(x)'
  BY <1>1, Zenon DEF Left
<1> QED BY <1>1, <1>3, <1>4, <1>5

\* What the processor writes is not a reboot.
LEMMA RebootIsOnTime ==
  ASSUME Typical, Typical', SinceTyped, Managed, RebootInTime, Run
  PROVE  RebootInTime'
<1>1. Follows(NotableKinds, Written, 0)
  <2>1. NotableKinds \in SUBSET NotableKinds
    OBVIOUS
  <2> QED BY <2>1, StepMoves
<1>2. Written \in DOMAIN Unanswered' => Unanswered'[Written] # "REBOOT"
  <2>1. CASE out'.kind \in LineKind
    <3>1. PICK q \in Nat \ {0} : q = Written /\ Unanswered'[q] = out'.kind
      BY <2>1, WrittenIs
    <3> QED BY <2>1, <3>1 DEF LineKind
  <2>2. CASE out'.kind \notin LineKind
    <3>1. Written = 0
      BY <2>2, RunSteps DEF Written
    <3> QED BY <3>1 DEF Typical, Cells
  <2> QED BY <2>1, <2>2
<1>3. Lasts(0) /\ 0 \in Nat
  BY RunLasts
<1> QED BY <1>1, <1>2, <1>3, RebootStays

\* What it writes is answered in time, for the monitor that asked.
LEMMA WrittenIsDue ==
  ASSUME Typical, Typical', Managed, TimingInv, TimingInv', Run, out'.kind \in LineKind
  PROVE  \E q \in DOMAIN Unanswered' :
           /\ Unanswered'[q] = out'.kind
           /\ out'.kind \in {"UP", "CONFIG"} => DueIn(q, Answer - HandshakeAge)'
           /\ out'.kind = "HB" => DueIn(q, Answer - HeartbeatAge)'
<1>1. PICK q \in Nat \ {0} : DOMAIN Unanswered' = 1 .. q /\ Unanswered'[q] = out'.kind
  BY WrittenIs
<1>2. q \in DOMAIN Unanswered'
  BY <1>1
<1>3. /\ UNCHANGED <<cm, hb, pc, lag>>
      /\ cmEvent' = "NONE" /\ hbEvent' = "NONE"
      /\ out'.kind = "UP" => Announcing
      /\ out'.kind = "CONFIG" => cmEvent = "CFG_REQUEST"
      /\ out'.kind = "HB" => Beating
  BY RunMonitors DEF TimingInv, WishesGoFirst
<1>4. UNCHANGED now
  BY RaisedNow DEF Typical
<1>5. PICK a \in Nat, b \in Nat, l \in Nat : a = HandshakeAge /\ b = HeartbeatAge /\ l = lag
  BY Numbers
<1>6. HandshakeAge' = a /\ HeartbeatAge' = b /\ Cost' = 0
  <2>1. HandshakeAge' = a /\ HeartbeatAge' = b
    BY <1>3, <1>4, <1>5 DEF HandshakeAge, HeartbeatAge
  <2>2. Cost' = 0
    BY <1>3 DEF Cost, Asking, Announcing, Beating
  <2> QED BY <2>1, <2>2
<1>7. /\ out'.kind \in {"UP", "CONFIG"} => a <= Slower
      /\ out'.kind = "HB" => b <= Slower
  <2>1. l <= Slower
    BY <1>5, Numbers, SlowerIs
  <2>2. /\ out'.kind \in {"UP", "CONFIG"} => a <= l
        /\ out'.kind = "HB" => b <= l
    BY <1>3, <1>5 DEF TimingInv, RequestsAreFresh, Asking
  <2> QED BY <1>5, <2>1, <2>2, SlowerIs
<1>8. InTime(q, a, b)'
  <2>1. Awaited(Unanswered'[q])
    BY <1>1 DEF Awaited, Announces, Configures, Beats, LineKind
  <2>2. InTime(q, HandshakeAge + Cost, HeartbeatAge + Cost)'
    BY <1>2, <2>1 DEF TimingInv, AnswersArePrompt
  <2>3. HandshakeAge' + Cost' = a /\ HeartbeatAge' + Cost' = b
    BY <1>5, <1>6
  <2> QED BY <2>2, <2>3
<1>9. \A x, y \in Int : x <= y /\ DueIn(q, x)' => DueIn(q, y)'
  BY DueLaterIs DEF DueLater
<1>10. ASSUME a <= Slower PROVE DueIn(q, Answer - a)'
  <2>1. PICK x \in Int, y \in Int, z \in Int :
          x = Response - a /\ y = Response - b /\ z = Answer - a
    BY AnswerIs, <1>5
  <2>2. x <= z /\ y <= z
    BY <1>10, <2>1, AnswerIs, SlowerIs
  <2>3. DueIn(q, x)' \/ DueIn(q, y)' \/ DueIn(q, z)'
    BY <1>8, <2>1 DEF InTime
  <2>4. DueIn(q, z)'
    BY <1>9, <2>2, <2>3
  <2> QED BY <2>1, <2>4
<1>11. ASSUME b <= Slower PROVE DueIn(q, Answer - b)'
  <2>1. PICK x \in Int, y \in Int, z \in Int :
          x = Response - a /\ y = Response - b /\ z = Answer - b
    BY AnswerIs, <1>5
  <2>2. x <= z /\ y <= z
    BY <1>11, <2>1, AnswerIs, SlowerIs
  <2>3. DueIn(q, x)' \/ DueIn(q, y)' \/ DueIn(q, z)'
    BY <1>8, <2>1 DEF InTime
  <2>4. DueIn(q, z)'
    BY <1>9, <2>2, <2>3
  <2> QED BY <2>1, <2>4
<1>12. /\ out'.kind \in {"UP", "CONFIG"} => DueIn(q, Answer - HandshakeAge)'
       /\ out'.kind = "HB" => DueIn(q, Answer - HeartbeatAge)'
  BY <1>6, <1>7, <1>10, <1>11
<1> QED BY <1>1, <1>2, <1>12

\* The handshake stays in time while the processor changes neither the phase nor the monitor.
LEMMA HandshakeWaits ==
  ASSUME Typical, Typical', SinceTyped, Managed, Run, UNCHANGED <<sm, cm>>,
         lag' = lag \/ (Started /\ cmEvent # "CFG_TIMEOUT"),
         cmEvent' = "CFG_TIMEOUT" <=> cmEvent = "CFG_TIMEOUT",
         sm = "UP" /\ Announcing
           /\ Left(Answer - HandshakeAge + (Patience(CONFIG_INTERVAL) + Answer))
             => Announcing' \/ UpInTime',
         sm = "CFG" /\ cm.waiting /\ cmEvent = "CFG_REQUEST" /\ Left(Answer - HandshakeAge)
             => cmEvent' = "CFG_REQUEST" \/ ConfigInTime',
         phEvent' # phEvent =>
           /\ sm = "UP" => ~Announces(phEvent)
           /\ sm = "CFG" => ~Configures(phEvent),
         HandshakeInTime
  PROVE  HandshakeInTime'
<1> DEFINE old == IF phEvent' = phEvent THEN 0 ELSE 1
<1>1. Lasts(0) /\ 0 \in Nat /\ (\A x : Left(x) => Left(x)')
  BY RunLasts
<1>2. Keeps(NotableKinds, old, 0)
  <2>1. NotableKinds \in SUBSET NotableKinds
    OBVIOUS
  <2> QED BY <2>1, StepMoves
<1>3. old \in DOMAIN Unanswered =>
        /\ sm = "UP" => ~Announces(Unanswered[old])
        /\ sm = "CFG" => ~Configures(Unanswered[old])
  <2>1. 0 \notin DOMAIN Unanswered /\ Unanswered[1] = phEvent
    BY DEF Typical, Cells
  <2> QED BY <2>1
<1>4. HandshakeAge' = HandshakeAge + 0
  <2>1. UNCHANGED now
    BY RaisedNow DEF Typical
  <2>2. HandshakeAge' = HandshakeAge
    BY <2>1 DEF HandshakeAge
  <2> QED BY <2>2, Numbers
<1>5. (sm = "BOOT" \/ cmEvent = "CFG_TIMEOUT") /\ StartsOver => StartsOver'
  <2>1. CASE lag' = lag
    BY <1>1, <2>1 DEF StartsOver
  <2>2. CASE Started /\ cmEvent # "CFG_TIMEOUT"
    BY <2>2 DEF Started
  <2> QED BY <2>1, <2>2
<1> HIDE DEF old
<1> QED BY <1>1, <1>2, <1>3, <1>4, <1>5, HandshakeStays

\* A handshake that starts has a handshake's time.
LEMMA StartIsInTime ==
  ASSUME Typical', sm' = "UP", HandshakeAge' = 0, cmEvent' # "CFG_TIMEOUT", Left(Handshake)'
  PROVE  HandshakeInTime'
<1>1. /\ Patience(CONFIG_INTERVAL) \in Nat /\ Answer \in Nat
      /\ Handshake = Patience(CONFIG_INTERVAL) + Answer + Patience(CONFIG_INTERVAL) + Answer
  BY PatienceIs, AnswerIs
<1>2. Patience(CONFIG_INTERVAL) - HandshakeAge' + Answer + (Patience(CONFIG_INTERVAL) + Answer)
        = Handshake
  BY <1>1
<1>3. Left(Patience(CONFIG_INTERVAL) - HandshakeAge + Answer + (Patience(CONFIG_INTERVAL) + Answer))'
  BY <1>2, Zenon
<1>4. UpInTime'
  BY <1>3 DEF UpInTime
<1> QED BY <1>4 DEF HandshakeInTime

\* When the pass may end before the handshake starts over, there is a handshake's time now.
LEMMA StartsOverNow ==
  ASSUME Typical, SinceTyped, StartsOver
  PROVE  Left(Handshake)
<1>1. PICK s \in Nat, l \in Nat : s = since /\ l = lag /\ l <= MaxLag
  <2>1. lag \in Nat /\ lag <= MaxLag
    BY Numbers, SlowerIs
  <2> QED BY <2>1 DEF SinceTyped
<1>2. s + (MaxLag - l + Handshake) <= RecoveryTime
  BY <1>1, Zenon DEF StartsOver, Left
<1>3. s + Handshake <= RecoveryTime
  BY <1>1, <1>2, SlowerIs, PatienceIs, HostSessionAssumption
<1> QED BY <1>1, <1>3, Zenon DEF Left

\* What an event does to the handshake.
LEMMA EventChanges ==
  ASSUME Typical, Managed, NEW e, Handles(e), e # "GET_STATE"
  PROVE  \/ e \in {"REBOOT", "HB_TIMEOUT", "CFG_TIMEOUT"} /\ sm' = "UP" /\ cm' = CM!Fresh(now)
         \/ /\ phEvent = "UP_ACK" /\ phEvent' = "NONE" /\ sm = "UP" /\ sm' = "CFG"
            /\ cm' = [cm EXCEPT !.state = "CFG", !.waiting = FALSE, !.last = now]
         \/ sm' \in FSM!Active
         \/ /\ UNCHANGED <<sm, cm>> /\ e # "CFG_TIMEOUT"
            /\ e \in {"UP_REQUEST", "UP_TIMEOUT"} => sm = "UP" /\ out'.kind = "UP"
            /\ e = "CFG_REQUEST" => out'.kind = "CONFIG"
            /\ phEvent = e =>
                 /\ sm = "UP" => ~Announces(phEvent)
                 /\ sm = "CFG" => ~Configures(phEvent)
<1>0. /\ sm \in {"UP", "CFG"} \cup FSM!Active
      /\ cm.run <=> sm \in {"UP", "CFG"}
      /\ cm.run => cm.state = sm
  BY DEF Typical, DeviceInv, TypeOK, FSM!States, FSM!Active, HandshakeAgreement, Handles, Started
<1>1. CM!RestartHandshake(now) => cm' = CM!Fresh(now)
  BY DEF CM!RestartHandshake, Managed
<1>2. FSM!StartState = "UP"
  BY DEF FSM!StartState, Managed
<1>3. /\ cmEvent \in {"NONE", "UP_REQUEST", "UP_TIMEOUT", "CFG_REQUEST", "CFG_TIMEOUT"}
      /\ hbEvent \in {"NONE", "HB_REQUEST", "HB_TIMEOUT"}
      /\ cmEvent \in {"UP_REQUEST", "UP_TIMEOUT"} => cm.run /\ cm.state = "UP"
      /\ cmEvent \in {"CFG_REQUEST", "CFG_TIMEOUT"} => cm.run /\ cm.state = "CFG"
  BY DEF Typical, DeviceInv, TypeOK, CM!TypeOK, HB!TypeOK, CM!Requests, CM!Timeouts, PendingRequestIsCurrent
<1>x. phEvent \notin {"UP_REQUEST", "UP_TIMEOUT", "CFG_REQUEST", "CFG_TIMEOUT", "HB_TIMEOUT"}
  BY DEF Typical, DeviceInv, TypeOK, PH!TypeOK, PH!ReceivedEvents
<1>4. HandleEvent(e) /\ phEvent' = "NONE"
  BY DEF Handles
<1>5. CASE e \in {"REBOOT", "HB_TIMEOUT", "CFG_TIMEOUT"}
  <2>1. sm' = "UP"
    BY <1>2, <1>4, <1>5 DEF HandleEvent, OnConfigTimeout, OnHeartbeatTimeout, FSM!HandleEvent,
          FSM!ResetEvents, OnStatusUpdate
  <2>2. cm' = CM!Fresh(now)
    BY <1>1, <1>4, <1>5 DEF HandleEvent, OnConfigTimeout, OnHeartbeatTimeout, CM!HandleEvent,
          OnStatusUpdate
  <2> QED BY <1>5, <2>1, <2>2
<1>6. CASE e = "UP_ACK"
  <2>1. FSM!HandleEvent(e) /\ CM!HandleEvent(e, now)
    BY <1>4, <1>6 DEF HandleEvent, OnConfigTimeout, OnHeartbeatTimeout, OnStatusUpdate
  <2>2. sm' = FSM!Successor(sm, "UP_ACK")
    BY <1>6, <2>1 DEF FSM!HandleEvent, FSM!ResetEvents
  <2>3. phEvent = "UP_ACK"
    BY <1>3, <1>6 DEF Handles
  <2>4. CASE sm = "UP"
    <3>1. sm' = "CFG"
      BY <2>2, <2>4 DEF FSM!Successor
    <3>2. cm.state = "UP"
      BY <1>0, <2>4
    <3>3. cm' = [cm EXCEPT !.state = "CFG", !.waiting = FALSE, !.last = now]
      BY <1>6, <2>1, <3>2 DEF CM!HandleEvent
    <3> QED BY <1>4, <2>3, <2>4, <3>1, <3>3
  <2>5. CASE sm = "CFG"
    <3>1. sm' = "CFG"
      BY <2>2, <2>5 DEF FSM!Successor
    <3>2. cm.state = "CFG"
      BY <1>0, <2>5
    <3>3. UNCHANGED cm
      BY <1>6, <2>1, <3>2 DEF CM!HandleEvent
    <3> QED BY <1>6, <2>3, <2>5, <3>1, <3>3 DEF Configures
  <2>6. CASE sm \in FSM!Active
    BY <2>2, <2>6 DEF FSM!Successor, FSM!Active
  <2> QED BY <1>0, <2>4, <2>5, <2>6
<1>7. CASE e = "CFG_ACK"
  <2>1. FSM!HandleEvent(e) /\ CM!HandleEvent(e, now)
    BY <1>4, <1>7 DEF HandleEvent, OnConfigTimeout, OnHeartbeatTimeout, OnStatusUpdate
  <2>2. sm' = FSM!Successor(sm, "CFG_ACK")
    BY <1>7, <2>1 DEF FSM!HandleEvent, FSM!ResetEvents
  <2>3. phEvent = "CFG_ACK"
    BY <1>3, <1>7 DEF Handles
  <2>4. CASE sm = "UP"
    <3>1. sm' = "UP"
      BY <2>2, <2>4 DEF FSM!Successor
    <3>2. cm.state = "UP"
      BY <1>0, <2>4
    <3>3. UNCHANGED cm
      BY <1>7, <2>1, <3>2 DEF CM!HandleEvent
    <3> QED BY <1>7, <2>3, <2>4, <3>1, <3>3 DEF Announces
  <2>5. CASE sm = "CFG"
    BY <2>2, <2>5 DEF FSM!Successor, FSM!Active
  <2>6. CASE sm \in FSM!Active
    BY <2>2, <2>6 DEF FSM!Successor, FSM!Active
  <2> QED BY <1>0, <2>4, <2>5, <2>6
<1>8. CASE e \in {"RUN_RCV", "IDLE_RCV", "DIS_RCV"}
  <2>1. FSM!HandleEvent(e) /\ UNCHANGED cm
    BY <1>4, <1>8 DEF HandleEvent, OnConfigTimeout, OnHeartbeatTimeout, OnStatusUpdate
  <2>2. sm' = FSM!Successor(sm, e)
    BY <1>8, <2>1 DEF FSM!HandleEvent, FSM!ResetEvents
  <2>3. sm \in {"UP", "CFG"} => sm' = sm
    BY <1>8, <2>2 DEF FSM!Successor
  <2>4. sm \in FSM!Active => sm' \in FSM!Active
    BY <1>8, <2>2 DEF FSM!Successor, FSM!Active
  <2> QED BY <1>0, <1>8, <2>1, <2>3, <2>4 DEF Announces, Configures
<1>9. CASE e \in {"UP_REQUEST", "UP_TIMEOUT"}
  <2>1. cmEvent = e
    BY <1>3, <1>9, <1>x DEF Handles
  <2>2. sm = "UP"
    BY <1>0, <1>3, <1>9, <2>1
  <2>3. out' = PH!StateLine(sm) /\ UNCHANGED <<sm, cm>>
    BY <1>2, <1>4, <1>9, <2>2 DEF HandleEvent, OnConfigTimeout, OnHeartbeatTimeout, OnStatusUpdate,
         Write, FSM!HandleEvent, FSM!ResetEvents
  <2>4. out'.kind = "UP"
    BY <2>2, <2>3 DEF PH!StateLine, PH!Line
  <2> QED BY <1>9, <2>2, <2>3, <2>4 DEF Announces, Configures
<1>10. CASE e = "CFG_REQUEST"
  <2>1. out' = PH!Line("CONFIG") /\ UNCHANGED <<sm, cm>>
    BY <1>4, <1>10 DEF HandleEvent, OnConfigTimeout, OnHeartbeatTimeout, OnStatusUpdate, Write
  <2>2. out'.kind = "CONFIG"
    BY <2>1 DEF PH!Line
  <2> QED BY <1>10, <2>1, <2>2 DEF Announces, Configures
<1>11. CASE e \in {"HB_ACK", "HB_REQUEST", "CMD_ACK", "CMD_PARSE_ERROR", "STATUS_UPDATE"}
  <2>1. UNCHANGED <<sm, cm>>
    BY <1>4, <1>11 DEF HandleEvent, OnConfigTimeout, OnHeartbeatTimeout, OnStatusUpdate
  <2> QED BY <1>11, <2>1 DEF Announces, Configures
<1> QED
  BY <1>4, <1>5, <1>6, <1>7, <1>8, <1>9, <1>10, <1>11
  DEF HandleEvent, OnConfigTimeout, OnHeartbeatTimeout, OnStatusUpdate

\* A cell that is done with in x milliseconds leaves what is left after them.
LEMMA LeavesIf ==
  ASSUME Typical', SinceTyped', NEW q \in DOMAIN Unanswered', NEW x \in Int, NEW d \in Int,
         DueIn(q, x)', Left(x + d)'
  PROVE  Leaves(q, d)'
<1>1. PICK t \in Nat : t = since'
  BY DEF SinceTyped
<1>2. PICK y \in Int : y = RecoveryTime - t - d
  BY HostSessionAssumption
<1>3. t + (x + d) <= RecoveryTime
  BY <1>1, Zenon DEF Left
<1>4. x <= y
  BY <1>2, <1>3, HostSessionAssumption
<1>5. q \in Nat \ {0}
  BY DEF Typical, Cells
<1>6. DueIn(q, y)'
  BY <1>4, <1>5, DueLaterIs DEF DueLater
<1> QED BY <1>1, <1>2, <1>6, Zenon DEF Leaves

\* What a cell that is handled, or still to be handled, leaves is left.
LEMMA LeavesNow ==
  ASSUME Typical, SinceTyped, NEW i \in DOMAIN Unanswered, Unanswered[i] \in NotableKinds,
         NEW d \in Nat, Leaves(i, d)
  PROVE  Left(d)
<1>1. PICK s \in Nat : s = since
  BY DEF SinceTyped
<1>2. PICK x \in Int : x = RecoveryTime - s - d
  BY HostSessionAssumption
<1>3. DueIn(i, x)
  BY <1>1, <1>2 DEF Leaves
<1>4. 0 <= x
  BY <1>3, DueIsAhead
<1>5. s + d <= RecoveryTime
  BY <1>2, <1>4, HostSessionAssumption
<1> QED BY <1>1, <1>5 DEF Left

\* The end of no interval is missed by more than two passes.
LEMMA AgesAreBounded ==
  ASSUME Typical, MonitorsAreOnTime, Started
  PROVE  /\ HeartbeatAge <= Patience(HEARTBEAT_INTERVAL)
         /\ cm.run => HandshakeAge <= Patience(CONFIG_INTERVAL)
<1>1. /\ CONFIG_INTERVAL \in Nat \ {0} /\ HEARTBEAT_INTERVAL \in Nat \ {0} /\ MaxLag \in Nat
      /\ HandshakeAge \in Nat /\ HeartbeatAge \in Nat
      /\ lag \in Nat /\ lag <= MaxLag
  BY Numbers, SlowerIs
<1>2. HeartbeatSlack <= 2 * MaxLag /\ ConfigSlack <= 2 * MaxLag
      /\ HeartbeatSlack \in Nat /\ ConfigSlack \in Nat
  BY <1>1 DEF HeartbeatSlack, ConfigSlack
<1> QED BY <1>1, <1>2, PatienceIs DEF MonitorsAreOnTime

\* Less is left than a larger amount.
LEMMA LeftLess ==
  ASSUME SinceTyped, NEW x \in Int, NEW y \in Int, y <= x, Left(x)
  PROVE  Left(y)
<1>1. PICK s \in Nat : s = since
  BY DEF SinceTyped
<1>2. s + x <= RecoveryTime
  BY <1>1 DEF Left
<1>3. s + y <= RecoveryTime
  BY <1>2, HostSessionAssumption
<1> QED BY <1>1, <1>3 DEF Left

\* When the answer to an announcement is handled, there is time for the rest of the handshake.
LEMMA UpLeavesTheRest ==
  ASSUME Typical, SinceTyped, MonitorsAreOnTime, HandshakeInTime, sm = "UP", cmEvent = "NONE", cm.run
  PROVE  Left(Patience(CONFIG_INTERVAL) + Answer)
<1>1. PICK p \in Nat, r \in Nat, A \in Nat, a \in Nat :
        p = Patience(CONFIG_INTERVAL) /\ r = p + A /\ A = Answer /\ a = HandshakeAge
  <2>1. Patience(CONFIG_INTERVAL) \in Nat /\ Answer \in Nat /\ HandshakeAge \in Nat
    BY PatienceIs, AnswerIs, Numbers
  <2>2. Patience(CONFIG_INTERVAL) + Answer \in Nat
    BY <2>1
  <2> QED BY <2>1, <2>2
<1>2. a <= p
  BY <1>1, AgesAreBounded DEF Started
<1>3. UpInTime /\ ~Announcing
  BY DEF HandshakeInTime, Announcing
<1>4. CASE Left(p - a + A + r)
  BY <1>1, <1>2, <1>4, LeftLess
<1>5. ASSUME NEW i \in DOMAIN Unanswered, Announces(Unanswered[i]), Leaves(i, r) PROVE Left(r)
  BY <1>5, LeavesNow, AwaitedIs DEF NotableKinds
<1> QED BY <1>1, <1>3, <1>4, <1>5 DEF UpInTime

\* An event leaves the handshake in time.
LEMMA EventKeepsHandshake ==
  ASSUME Typical, Typical', SinceTyped, SinceTyped', Managed, HostIsQuick, TimingInv, TimingInv',
         RecoveryInv, Run, NEW e \in {phEvent, hbEvent, cmEvent}, Handles(e)
  PROVE  HandshakeInTime'
<1>0. /\ e # "GET_STATE" /\ cmEvent' = "NONE" /\ UNCHANGED <<now, lag>> /\ Started
      /\ cmEvent \in {e, "NONE"}
      /\ cm.run <=> sm \in {"UP", "CFG"}
  <2>1. /\ cmEvent \in {"NONE", "UP_REQUEST", "UP_TIMEOUT", "CFG_REQUEST", "CFG_TIMEOUT"}
        /\ hbEvent \in {"NONE", "HB_REQUEST", "HB_TIMEOUT"}
    BY DEF Typical, DeviceInv, TypeOK, CM!TypeOK, HB!TypeOK, CM!Requests, CM!Timeouts
  <2>2. cm.run <=> sm \in {"UP", "CFG"}
    BY DEF Handles, Typical, DeviceInv, HandshakeAgreement
  <2> QED BY <2>1, <2>2 DEF Handles, TimingInv, WishesGoFirst
<1>1. since' = since /\ (\A x : Left(x) => Left(x)')
  BY RunLasts
<1>2. CASE /\ e \in {"REBOOT", "HB_TIMEOUT", "CFG_TIMEOUT"} /\ sm' = "UP" /\ cm' = CM!Fresh(now)
  <2>1. Left(Handshake)
    <3>1. CASE e = phEvent /\ e = "REBOOT"
      <4>1. 1 \in DOMAIN Unanswered /\ Unanswered[1] = "REBOOT"
        BY <3>1 DEF Typical, Cells
      <4>2. Leaves(1, Handshake)
        BY <4>1 DEF RecoveryInv, RebootInTime
      <4> QED BY <4>1, <4>2, LeavesNow, PatienceIs DEF NotableKinds
    <3>2. CASE hbEvent = "HB_TIMEOUT" \/ cmEvent = "CFG_TIMEOUT"
      BY <3>2, StartsOverNow DEF RecoveryInv, HeartbeatInTime, HandshakeInTime
    <3>3. \/ e = phEvent /\ e = "REBOOT"
          \/ hbEvent = "HB_TIMEOUT" \/ cmEvent = "CFG_TIMEOUT"
      BY <1>2
      DEF Typical, DeviceInv, TypeOK, PH!TypeOK, PH!ReceivedEvents, CM!TypeOK, HB!TypeOK,
          CM!Requests, CM!Timeouts
    <3> QED BY <3>1, <3>2, <3>3
  <2>2. HandshakeAge' = 0
    BY <1>0, <1>2, AgesStartOver
  <2>3. Left(Handshake)'
    BY <1>1, <2>1
  <2>4. cmEvent' # "CFG_TIMEOUT" /\ sm' = "UP"
    BY <1>0, <1>2
  <2> QED BY <2>2, <2>3, <2>4, StartIsInTime
<1>3. CASE /\ phEvent = "UP_ACK" /\ phEvent' = "NONE" /\ sm = "UP" /\ sm' = "CFG"
           /\ cm' = [cm EXCEPT !.state = "CFG", !.waiting = FALSE, !.last = now]
  <2>1. cmEvent = "NONE"
    BY <1>3 DEF Handles
  <2>2. Left(Patience(CONFIG_INTERVAL) + Answer)
    BY <1>0, <1>3, <2>1, UpLeavesTheRest DEF RecoveryInv
  <2>3. HandshakeAge' = 0
    BY <1>0, <1>3, AgesStartOver
  <2>4. ~cm'.waiting
    BY <1>3 DEF Typical, DeviceInv, TypeOK, CM!TypeOK, CM!Monitor
  <2>5. Patience(CONFIG_INTERVAL) - HandshakeAge' + Answer = Patience(CONFIG_INTERVAL) + Answer
    BY <2>3, PatienceIs, AnswerIs
  <2>6. Left(Patience(CONFIG_INTERVAL) - HandshakeAge + Answer)'
    BY <1>1, <2>2, <2>5, Zenon
  <2> QED BY <1>0, <1>3, <2>4, <2>6 DEF ConfigInTime, HandshakeInTime
<1>4. CASE sm' \in FSM!Active
  BY <1>0, <1>4 DEF HandshakeInTime, FSM!Active
<1>5. CASE /\ UNCHANGED <<sm, cm>> /\ e # "CFG_TIMEOUT"
           /\ e \in {"UP_REQUEST", "UP_TIMEOUT"} => sm = "UP" /\ out'.kind = "UP"
           /\ e = "CFG_REQUEST" => out'.kind = "CONFIG"
           /\ phEvent = e =>
                /\ sm = "UP" => ~Announces(phEvent)
                /\ sm = "CFG" => ~Configures(phEvent)
  <2>1. PICK a \in Nat, A \in Nat, r \in Nat :
          /\ a = HandshakeAge /\ A = Answer /\ r = Patience(CONFIG_INTERVAL) + Answer
          /\ a = HandshakeAge' /\ Answer <= CONFIG_INTERVAL - 1
    <3>1. HandshakeAge' = HandshakeAge
      BY <1>0, <1>5 DEF HandshakeAge
    <3> QED BY <3>1, Numbers, AnswerIs, PatienceIs, RecoveryTimeIs
  <2>2. ASSUME Announcing, Left(Answer - HandshakeAge + (Patience(CONFIG_INTERVAL) + Answer))
        PROVE  UpInTime'
    <3>1. out'.kind = "UP"
      BY <1>0, <1>5, <2>2 DEF Announcing
    <3>2. PICK q \in DOMAIN Unanswered' :
            Unanswered'[q] = "UP" /\ DueIn(q, Answer - HandshakeAge)'
      BY <3>1, WrittenIsDue DEF LineKind
    <3>3. PICK x \in Int : x = A - a
      <4>1. A - a \in Int
        OBVIOUS
      <4> QED BY <4>1
    <3>4. DueIn(q, x)'
      BY <2>1, <3>2, <3>3
    <3>5. Left(x + r)'
      BY <1>1, <2>1, <2>2, <3>3
    <3>6. Leaves(q, r)'
      BY <3>4, <3>5, LeavesIf
    <3> QED BY <2>1, <3>2, <3>6 DEF UpInTime, Announces
  <2>3. ASSUME cm.waiting, cmEvent = "CFG_REQUEST", Left(Answer - HandshakeAge)
        PROVE  ConfigInTime'
    <3>1. out'.kind = "CONFIG"
      BY <1>0, <1>5, <2>3
    <3>2. PICK q \in DOMAIN Unanswered' :
            Unanswered'[q] = "CONFIG" /\ DueIn(q, Answer - HandshakeAge)'
      BY <3>1, WrittenIsDue DEF LineKind
    <3>3. PICK x \in Int, y \in Int : x = A - a /\ y = CONFIG_INTERVAL - 1 - a /\ x <= y /\ x + 0 = x
      <4>1. A <= CONFIG_INTERVAL - 1 /\ CONFIG_INTERVAL \in Nat
        BY <2>1, Numbers
      <4>2. A - a \in Int /\ CONFIG_INTERVAL - 1 - a \in Int
            /\ A - a <= CONFIG_INTERVAL - 1 - a /\ (A - a) + 0 = A - a
        BY <4>1
      <4> QED BY <4>2
    <3>4. DueIn(q, x)'
      BY <2>1, <3>2, <3>3
    <3>5. Left(x + 0)'
      BY <1>1, <2>1, <2>3, <3>3
    <3>6. Leaves(q, 0)'
      BY <3>4, <3>5, LeavesIf
    <3>7. DueIn(q, y)'
      <4>1. q \in Nat \ {0}
        BY DEF Typical, Cells
      <4> QED BY <3>3, <3>4, <4>1, DueLaterIs DEF DueLater
    <3>8. DueIn(q, CONFIG_INTERVAL - 1 - HandshakeAge)'
      BY <2>1, <3>3, <3>7
    <3>9. cm'.waiting
      BY <1>5, <2>3
    <3> QED BY <3>2, <3>6, <3>8, <3>9 DEF ConfigInTime, Configures
  <2>4. phEvent' # phEvent =>
           /\ sm = "UP" => ~Announces(phEvent)
           /\ sm = "CFG" => ~Configures(phEvent)
    BY <1>5 DEF Handles
  <2>5. cmEvent' = "CFG_TIMEOUT" <=> cmEvent = "CFG_TIMEOUT"
    BY <1>0, <1>5
  <2> QED BY <1>0, <1>5, <2>2, <2>3, <2>4, <2>5, HandshakeWaits DEF RecoveryInv
<1> QED BY <1>0, <1>2, <1>3, <1>4, <1>5, EventChanges

\* The handshake's monitor asks in time, and gives up in time.
LEMMA ConfigKeepsHandshake ==
  ASSUME Typical, Typical', SinceTyped, SinceTyped', Managed, HostIsQuick, RecoveryInv, Run,
         ConfigUpdate
  PROVE  HandshakeInTime'
<1>1. /\ phEvent = "NONE" /\ cmEvent = "NONE" /\ hbEvent = "NONE"
      /\ UNCHANGED <<now, lag, sm, phEvent>> /\ pc = "config" /\ ~Announcing
  BY UpdatesAlone DEF ConfigUpdate, Step, Announcing
<1>2. Started
  BY <1>1, LoopIsStarted DEF Typical, DeviceInv
<1>3. cm.run => sm \in {"UP", "CFG"} /\ cm.state = sm
  BY <1>2 DEF Typical, DeviceInv, HandshakeAgreement
<1>4. \A x : Left(x) => Left(x)'
  BY RunLasts
<1>5. CASE UNCHANGED <<cm, cmEvent>>
  <2>1. ~Announcing /\ cmEvent # "CFG_REQUEST" /\ cmEvent' = cmEvent
    BY <1>1, <1>5
  <2> QED BY <1>1, <1>5, <2>1, HandshakeWaits DEF RecoveryInv
<1>6. CASE /\ cm.run /\ CONFIG_INTERVAL <= HandshakeAge
           /\ HandshakeAge' = 0
           /\ cm'.run /\ cm'.state = cm.state
           /\ \/ cm.state = "CFG" /\ cm.waiting /\ ~cm'.waiting /\ cmEvent' = "CFG_TIMEOUT"
              \/ cm.state = "UP" /\ cmEvent' \in {"UP_REQUEST", "UP_TIMEOUT"}
              \/ cm.state = "CFG" /\ ~cm.waiting /\ cm'.waiting /\ cmEvent' = "CFG_REQUEST"
  <2>1. PICK a \in Nat, p \in Nat, A \in Nat, r \in Nat, h \in Nat, l \in Nat :
          /\ a = HandshakeAge /\ p = Patience(CONFIG_INTERVAL) /\ A = Answer
          /\ r = Patience(CONFIG_INTERVAL) + Answer /\ h = Handshake /\ l = lag
    <3>1. /\ HandshakeAge \in Nat /\ Patience(CONFIG_INTERVAL) \in Nat /\ Answer \in Nat
          /\ Handshake \in Nat /\ lag \in Nat
      BY PatienceIs, AnswerIs, Numbers, SlowerIs
    <3>2. Patience(CONFIG_INTERVAL) + Answer \in Nat
      BY <3>1
    <3> QED BY <3>1, <3>2
  <2>2. a <= p
    BY <1>2, <1>6, <2>1, AgesAreBounded DEF RecoveryInv
  <2>3. ASSUME cm.state = "UP", cmEvent' \in {"UP_REQUEST", "UP_TIMEOUT"} PROVE HandshakeInTime'
    <3>1. sm = "UP" /\ sm' = "UP" /\ UpInTime
      BY <1>1, <1>3, <1>6, <2>3 DEF RecoveryInv, HandshakeInTime
    <3>2. CASE Left(p - a + A + r)
      <4>1. Left(A + r)
        BY <2>2, <3>2, LeftLess
      <4>2. Left(A + r)'
        BY <1>4, <4>1
      <4>3. A - HandshakeAge' + r = A + r
        BY <1>6
      <4>4. Left(A - HandshakeAge + r)'
        BY <4>2, <4>3, Zenon
      <4>5. UpInTime'
        BY <2>1, <2>3, <4>4 DEF UpInTime, Announcing
      <4> QED BY <2>3, <3>1, <4>5 DEF HandshakeInTime
    <3>3. ASSUME NEW i \in DOMAIN Unanswered, Announces(Unanswered[i]), Leaves(i, r)
          PROVE  HandshakeInTime'
      <4>1. Keeps(NotableKinds, 0, 0)
        <5>1. NotableKinds \in SUBSET NotableKinds /\ phEvent' = phEvent
          BY <1>1
        <5> QED BY <5>1, StepMoves
      <4>2. i # 0 /\ Awaited(Unanswered[i])
        BY <3>3 DEF Typical, Cells, Awaited
      <4>3. PICK j \in DOMAIN Unanswered' : Means(Unanswered[i], Unanswered'[j]) /\ Comes(i, j, 0)
        BY <4>1, <4>2, CellStays
      <4>4. Announces(Unanswered'[j]) /\ Leaves(j, r)'
        BY <3>3, <4>3, RunLasts, LeavesLasts DEF Means
      <4>5. UpInTime'
        BY <2>1, <4>4 DEF UpInTime
      <4> QED BY <2>3, <3>1, <4>5 DEF HandshakeInTime
    <3> QED BY <1>1, <2>1, <3>1, <3>2, <3>3 DEF UpInTime
  <2>4. ASSUME cm.state = "CFG" PROVE sm = "CFG" /\ sm' = "CFG" /\ ConfigInTime
    BY <1>1, <1>3, <1>6, <2>4 DEF RecoveryInv, HandshakeInTime
  <2>5. ASSUME cm.state = "CFG", ~cm.waiting, cm'.waiting, cmEvent' = "CFG_REQUEST"
        PROVE  HandshakeInTime'
    <3>1. Left(p - a + A)
      BY <2>1, <2>4, <2>5 DEF ConfigInTime
    <3>2. Left(A)
      BY <2>2, <3>1, LeftLess
    <3>3. Left(A)' /\ A - HandshakeAge' = A
      BY <1>4, <1>6, <3>2
    <3>4. Left(A - HandshakeAge)'
      BY <3>3, Zenon
    <3>5. ConfigInTime'
      BY <2>1, <2>5, <3>4 DEF ConfigInTime
    <3> QED BY <2>4, <2>5, <3>5 DEF HandshakeInTime
  <2>6. ASSUME cm.state = "CFG", cm.waiting, cmEvent' = "CFG_TIMEOUT" PROVE HandshakeInTime'
    <3>1. Left(p - a + h)
      <4>1. ASSUME NEW i \in DOMAIN Unanswered, Configures(Unanswered[i]),
                   DueIn(i, CONFIG_INTERVAL - 1 - HandshakeAge)
            PROVE  FALSE
        <5>1. PICK x \in Int : x = CONFIG_INTERVAL - 1 - a /\ ~(0 <= x)
          <6>1. CONFIG_INTERVAL \in Nat /\ CONFIG_INTERVAL <= a
            BY <1>6, <2>1, Numbers
          <6>2. CONFIG_INTERVAL - 1 - a \in Int /\ ~(0 <= CONFIG_INTERVAL - 1 - a)
            BY <6>1
          <6> QED BY <6>2
        <5>2. DueIn(i, x)
          BY <2>1, <4>1, <5>1
        <5>3. Unanswered[i] \in NotableKinds
          BY <4>1, AwaitedIs DEF NotableKinds
        <5> QED BY <5>1, <5>2, <5>3, DueIsAhead
      <4> QED BY <1>1, <2>1, <2>4, <2>6, <4>1 DEF ConfigInTime
    <3>2. MaxLag - l + h <= p - a + h
      <4>1. ConfigSlack = MaxLag + l
        BY <1>1, <2>1 DEF ConfigSlack, BeforeConfig
      <4>2. a <= CONFIG_INTERVAL - 1 + ConfigSlack
        BY <1>2, <1>6, <2>1 DEF RecoveryInv, MonitorsAreOnTime
      <4>3. p = CONFIG_INTERVAL - 1 + 2 * MaxLag /\ MaxLag \in Nat
            /\ CONFIG_INTERVAL \in Nat
        BY <2>1, PatienceIs, SlowerIs, Numbers
      <4> QED BY <4>1, <4>2, <4>3
    <3>3. Left(MaxLag - l + h)
      <4>1. MaxLag \in Nat
        BY SlowerIs
      <4> QED BY <3>1, <3>2, <4>1, LeftLess
    <3>4. Left(MaxLag - l + h)'
      BY <1>4, <3>3
    <3>5. StartsOver'
      BY <1>1, <2>1, <3>4 DEF StartsOver
    <3> QED BY <2>4, <2>6, <3>5 DEF HandshakeInTime
  <2> QED BY <1>6, <2>3, <2>5, <2>6
<1> QED BY <1>1, <1>5, <1>6, ConfigFires

\* So the processor keeps the handshake in time.
LEMMA RunKeepsHandshake ==
  ASSUME Typical, Typical', SinceTyped, SinceTyped', Managed, HostIsQuick, TimingInv, TimingInv',
         RecoveryInv, Run
  PROVE  HandshakeInTime'
<1>1. CASE Begin
  <2>1. /\ ~Started /\ sm' = "UP" /\ cmEvent' = "NONE" /\ HandshakeAge' = 0
    BY <1>1, BeginStarts DEF RecoveryInv
  <2>2. Left(Handshake)
    BY <2>1, StartsOverNow DEF RecoveryInv, HandshakeInTime, Started
  <2>3. Left(Handshake)'
    BY <2>2, RunLasts
  <2> QED BY <2>1, <2>3, StartIsInTime
<1>2. CASE PassesOn
  <2>1. /\ UNCHANGED <<sm, cm, cmEvent, phEvent>>
        /\ lag' = lag \/ (Started /\ cmEvent = "NONE")
    BY <1>2 DEF PassesOn
  <2>2. (Announcing => Announcing') /\ (cmEvent = "CFG_REQUEST" => cmEvent' = "CFG_REQUEST")
        /\ (cmEvent' = "CFG_TIMEOUT" <=> cmEvent = "CFG_TIMEOUT")
        /\ (lag' = lag \/ (Started /\ cmEvent # "CFG_TIMEOUT"))
    BY <2>1 DEF Announcing
  <2> QED BY <2>1, <2>2, HandshakeWaits DEF RecoveryInv
<1>3. CASE HeartbeatUpdate
  <2>1. UNCHANGED <<sm, cm, cmEvent, phEvent>> /\ lag' = lag
    BY <1>3 DEF HeartbeatUpdate, Step
  <2>2. (Announcing => Announcing') /\ (cmEvent = "CFG_REQUEST" => cmEvent' = "CFG_REQUEST")
        /\ (cmEvent' = "CFG_TIMEOUT" <=> cmEvent = "CFG_TIMEOUT")
    BY <2>1 DEF Announcing
  <2> QED BY <2>1, <2>2, HandshakeWaits DEF RecoveryInv
<1> QED BY <1>1, <1>2, <1>3, RunActs, ConfigKeepsHandshake, EventKeepsHandshake

\* The heartbeat stays in time while the processor does not change its monitor.
LEMMA HeartbeatWaits ==
  ASSUME Typical, Typical', SinceTyped, Managed, Run, UNCHANGED hb, Started' => Started,
         hbEvent' = hbEvent \/ (hbEvent' = "NONE" /\ ~Beating),
         hbEvent' = "HB_TIMEOUT" => lag' = lag,
         phEvent' # phEvent => ~Beats(phEvent),
         HeartbeatInTime
  PROVE  HeartbeatInTime'
<1> DEFINE old == IF phEvent' = phEvent THEN 0 ELSE 1
<1>1. Lasts(0) /\ 0 \in Nat /\ (\A x : Left(x) => Left(x)')
  BY RunLasts
<1>2. Keeps(NotableKinds, old, 0)
  <2>1. NotableKinds \in SUBSET NotableKinds
    OBVIOUS
  <2> QED BY <2>1, StepMoves
<1>3. old \in DOMAIN Unanswered => ~Beats(Unanswered[old])
  <2>1. 0 \notin DOMAIN Unanswered /\ Unanswered[1] = phEvent
    BY DEF Typical, Cells
  <2> QED BY <2>1
<1>4. HeartbeatAge' = HeartbeatAge + 0
  <2>1. UNCHANGED now
    BY RaisedNow DEF Typical
  <2>2. HeartbeatAge' = HeartbeatAge
    BY <2>1 DEF HeartbeatAge
  <2> QED BY <2>2, Numbers
<1>5. hbEvent' = "HB_TIMEOUT" /\ StartsOver => StartsOver'
  BY <1>1 DEF StartsOver
<1> HIDE DEF old
<1> QED BY <1>1, <1>2, <1>3, <1>4, <1>5, HeartbeatStays

\* An event leaves the heartbeat in time.
LEMMA EventKeepsHeartbeat ==
  ASSUME Typical, Typical', SinceTyped, Managed, HostIsQuick, TimingInv, TimingInv',
         RecoveryInv, Run, NEW e \in {phEvent, hbEvent, cmEvent}, Handles(e)
  PROVE  HeartbeatInTime'
<1>1. /\ hbEvent' = "NONE" /\ Started /\ hbEvent \in {e, "NONE"} /\ UNCHANGED <<now, lag>>
      /\ HandleEvent(e) /\ phEvent' = "NONE"
  BY DEF Handles
<1>2. CASE ~hb'.waiting
  BY <1>1, <1>2 DEF HeartbeatInTime
<1>3. CASE hb'.waiting
  <2>1. UNCHANGED hb
    <3>1. hb' \in {hb, [hb EXCEPT !.waiting = FALSE, !.last = now]}
      BY <1>1, EventMonitors
    <3>2. [hb EXCEPT !.waiting = FALSE, !.last = now].waiting = FALSE
      BY DEF Typical, DeviceInv, TypeOK, HB!TypeOK, HB!Monitor
    <3> QED BY <1>3, <3>1, <3>2
  <2>2. e # "HB_ACK"
    <3> SUFFICES ASSUME e = "HB_ACK" PROVE FALSE
      OBVIOUS
    <3>1. hb' = [hb EXCEPT !.waiting = FALSE, !.last = now]
      BY <1>1 DEF HandleEvent, OnConfigTimeout, OnHeartbeatTimeout, OnStatusUpdate, HB!HandleEvent
    <3>2. hb'.waiting = FALSE
      BY <3>1 DEF Typical, DeviceInv, TypeOK, HB!TypeOK, HB!Monitor
    <3> QED BY <1>3, <3>2
  <2>3. CASE ~Beating
    <3>1. phEvent' # phEvent => ~Beats(phEvent)
      <4>1. phEvent # phEvent' => phEvent = e
        BY <1>1 DEF Handles
      <4>2. phEvent # "HB"
        BY DEF Typical, DeviceInv, TypeOK, PH!TypeOK, PH!ReceivedEvents
      <4> QED BY <2>2, <4>1, <4>2 DEF Beats
    <3>2. hbEvent' # "HB_TIMEOUT"
      BY <1>1
    <3> QED BY <1>1, <2>1, <2>3, <3>1, <3>2, HeartbeatWaits DEF RecoveryInv
  <2>4. CASE Beating
    <3>1. e = "HB_REQUEST"
      BY <1>1, <2>4 DEF Beating
    <3>2. out'.kind = "HB"
      <4>1. out' = PH!Line("HB")
        BY <1>1, <3>1 DEF HandleEvent, OnConfigTimeout, OnHeartbeatTimeout, OnStatusUpdate, Write
      <4> QED BY <4>1 DEF PH!Line
    <3>3. PICK q \in DOMAIN Unanswered' : Unanswered'[q] = "HB" /\ DueIn(q, Answer - HeartbeatAge)'
      BY <3>2, WrittenIsDue DEF LineKind
    <3>4. PICK b \in Nat : b = HeartbeatAge'
      BY Numbers
    <3>5. PICK x \in Int, y \in Int : x = Answer - b /\ y = HEARTBEAT_INTERVAL - 1 - b /\ x <= y
      <4>1. Answer <= HEARTBEAT_INTERVAL - 1 /\ HEARTBEAT_INTERVAL \in Nat /\ Answer \in Nat
        BY RecoveryTimeIs, Numbers, AnswerIs
      <4>2. Answer - b \in Int /\ HEARTBEAT_INTERVAL - 1 - b \in Int
            /\ Answer - b <= HEARTBEAT_INTERVAL - 1 - b
        BY <4>1
      <4> QED BY <4>2
    <3>6. DueIn(q, x)'
      BY <3>3, <3>4, <3>5
    <3>7. DueIn(q, y)'
      <4>1. q \in Nat \ {0}
        BY DEF Typical, Cells
      <4> QED BY <3>5, <3>6, <4>1, DueLaterIs DEF DueLater
    <3>8. DueIn(q, HEARTBEAT_INTERVAL - 1 - HeartbeatAge)'
      BY <3>4, <3>5, <3>7
    <3> QED BY <1>1, <3>3, <3>8 DEF HeartbeatInTime, Beats
  <2> QED BY <2>3, <2>4
<1> QED BY <1>2, <1>3

\* The heartbeat's monitor asks in time, and gives up in time.
LEMMA UpdateKeepsHeartbeat ==
  ASSUME Typical, Typical', SinceTyped, Managed, RecoveryInv, Run, HeartbeatUpdate
  PROVE  HeartbeatInTime'
<1>1. /\ phEvent = "NONE" /\ cmEvent = "NONE" /\ hbEvent = "NONE"
      /\ UNCHANGED <<now, lag, sm, phEvent>> /\ pc = "heartbeat" /\ ~Beating
  BY UpdatesAlone DEF HeartbeatUpdate, Step, Beating
<1>2. Started
  BY <1>1, LoopIsStarted DEF Typical, DeviceInv
<1>3. CASE UNCHANGED <<hb, hbEvent>>
  BY <1>1, <1>2, <1>3, HeartbeatWaits DEF RecoveryInv
<1>4. CASE ~hb.waiting /\ hb'.waiting /\ hbEvent' = "HB_REQUEST"
  BY <1>4 DEF HeartbeatInTime, Beating
<1>5. CASE /\ HEARTBEAT_INTERVAL <= HeartbeatAge
           /\ hb.waiting /\ ~hb'.waiting /\ hbEvent' = "HB_TIMEOUT"
  <2>1. PICK b \in Nat, p \in Nat, h \in Nat, l \in Nat :
          /\ b = HeartbeatAge /\ p = Patience(HEARTBEAT_INTERVAL) /\ h = Handshake /\ l = lag
    <3>1. /\ HeartbeatAge \in Nat /\ Patience(HEARTBEAT_INTERVAL) \in Nat
          /\ Handshake \in Nat /\ lag \in Nat
      BY PatienceIs, Numbers, SlowerIs
    <3> QED BY <3>1
  <2>2. Left(p - b + h)
    <3>1. ASSUME NEW i \in DOMAIN Unanswered, Beats(Unanswered[i]),
                 DueIn(i, HEARTBEAT_INTERVAL - 1 - HeartbeatAge)
          PROVE  FALSE
      <4>1. PICK x \in Int : x = HEARTBEAT_INTERVAL - 1 - b /\ ~(0 <= x)
        <5>1. HEARTBEAT_INTERVAL \in Nat /\ HEARTBEAT_INTERVAL <= b
          BY <1>5, <2>1, Numbers
        <5>2. HEARTBEAT_INTERVAL - 1 - b \in Int /\ ~(0 <= HEARTBEAT_INTERVAL - 1 - b)
          BY <5>1
        <5> QED BY <5>2
      <4>2. DueIn(i, x)
        BY <2>1, <3>1, <4>1
      <4>3. Unanswered[i] \in NotableKinds
        BY <3>1 DEF NotableKinds, AwaitedKinds, Beats
      <4> QED BY <4>1, <4>2, <4>3, DueIsAhead
    <3> QED BY <1>1, <1>2, <1>5, <2>1, <3>1 DEF RecoveryInv, HeartbeatInTime
  <2>3. MaxLag - l + h <= p - b + h
    <3>1. HeartbeatSlack = MaxLag + l
      BY <1>1, <2>1 DEF HeartbeatSlack, BeforeHeartbeat
    <3>2. b <= HEARTBEAT_INTERVAL - 1 + HeartbeatSlack
      BY <1>2, <2>1 DEF RecoveryInv, MonitorsAreOnTime
    <3>3. p = HEARTBEAT_INTERVAL - 1 + 2 * MaxLag /\ MaxLag \in Nat
          /\ HEARTBEAT_INTERVAL \in Nat
      BY <2>1, PatienceIs, SlowerIs, Numbers
    <3> QED BY <3>1, <3>2, <3>3
  <2>4. Left(MaxLag - l + h)
    <3>1. MaxLag \in Nat
      BY SlowerIs
    <3> QED BY <2>2, <2>3, <3>1, LeftLess
  <2>5. Left(MaxLag - l + h)'
    BY <2>4, RunLasts
  <2>6. StartsOver'
    BY <1>1, <2>1, <2>5 DEF StartsOver
  <2> QED BY <1>5, <2>6 DEF HeartbeatInTime
<1> QED BY <1>1, <1>3, <1>4, <1>5, HeartbeatFires

\* So the processor keeps the heartbeat in time.
LEMMA RunKeepsHeartbeat ==
  ASSUME Typical, Typical', SinceTyped, Managed, HostIsQuick, TimingInv, TimingInv',
         RecoveryInv, Run
  PROVE  HeartbeatInTime'
<1>1. CASE Begin
  <2>1. hb' = [run |-> TRUE, waiting |-> FALSE, last |-> now] /\ hbEvent' = "NONE"
    BY <1>1, BeginStarts DEF RecoveryInv
  <2>2. ~hb'.waiting
    BY <2>1
  <2> QED BY <2>1, <2>2 DEF HeartbeatInTime
<1>2. CASE PassesOn
  <2>1. /\ UNCHANGED <<sm, hb, hbEvent, phEvent>>
        /\ lag' = lag \/ hbEvent = "NONE"
    BY <1>2 DEF PassesOn
  <2>2. (Started' => Started) /\ (hbEvent' = "HB_TIMEOUT" => lag' = lag)
    BY <2>1 DEF Started
  <2> QED BY <2>1, <2>2, HeartbeatWaits DEF RecoveryInv
<1>3. CASE ConfigUpdate
  <2>1. UNCHANGED <<sm, hb, hbEvent, phEvent, lag>>
    BY <1>3 DEF ConfigUpdate, Step
  <2>2. Started' => Started
    BY <2>1 DEF Started
  <2> QED BY <2>1, <2>2, HeartbeatWaits DEF RecoveryInv
<1> QED BY <1>1, <1>2, <1>3, RunActs, UpdateKeepsHeartbeat, EventKeepsHeartbeat

-----------------------------------------------------------------------------
(* There is a session again in bounded time *)

\* No step makes anything late.
LEMMA RecoveryStep ==
  ASSUME Typical, Typical', SinceTyped, Managed, HostIsQuick, TimingInv, TimingInv',
         RecoveryInv, [NextSession]_all
  PROVE  RecoveryInv'
<1>0. SinceTyped'
  BY SinceMoves
<1>1. CASE Run
  <2>1. MonitorsAreOnTime' /\ BegunOnce'
    BY <1>1, MonitorsStayOnTime DEF RecoveryInv, TimingInv, WishesGoFirst
  <2>2. HandshakeInTime' /\ HeartbeatInTime' /\ RebootInTime'
    BY <1>0, <1>1, RunKeepsHandshake, RunKeepsHeartbeat, RebootIsOnTime DEF RecoveryInv
  <2> QED BY <2>1, <2>2 DEF RecoveryInv
<1>2. CASE Read \/ HostAnswers \/ UserAsks
  BY <1>2, MovesAreOnTime
<1>3. CASE TimePasses
  BY <1>3, TimeIsOnTime
<1>4. CASE LineLost \/ RebootAsked \/ PowerLost
  BY <1>4, FaultsAreOnTime
<1>5. CASE UNCHANGED all
  <2>1. UNCHANGED <<sm, cm, cmEvent, hb, hbEvent, phEvent, pc, called, now, lag,
                    toHost, toDevice, delay, since>>
    BY <1>5 DEF all, vars, monitors, H!host
  <2>2. UNCHANGED <<Unanswered, Answered, HandshakeAge, HeartbeatAge>>
    BY <2>1 DEF Unanswered, Answered, HandshakeAge, HeartbeatAge
  <2>3. \A i, d : (DueIn(i, d) <=> DueIn(i, d)') /\ (Leaves(i, d) <=> Leaves(i, d)')
    BY <2>1, <2>2, Zenon DEF DueIn, ByDevice, ByHost, Leaves
  <2>4. \A x : Left(x) <=> Left(x)'
    BY <2>1, Zenon DEF Left
  <2>5. UNCHANGED Apart /\ (BeforeHeartbeat' <=> BeforeHeartbeat) /\ (BeforeConfig' <=> BeforeConfig)
    BY <2>1 DEF Apart, BeforeHeartbeat, BeforeConfig
  <2>6. MonitorsAreOnTime' /\ BegunOnce'
    BY <2>5, ApartIsOnTime DEF RecoveryInv
  <2>7. StartsOver <=> StartsOver'
    BY <2>1, <2>4 DEF StartsOver
  <2>8. HandshakeInTime'
    BY <2>1, <2>2, <2>3, <2>4, <2>7
    DEF RecoveryInv, HandshakeInTime, UpInTime, ConfigInTime, Announcing
  <2>9. HeartbeatInTime'
    BY <2>1, <2>2, <2>3, <2>4, <2>7 DEF RecoveryInv, HeartbeatInTime, Started, Beating
  <2>10. RebootInTime'
    BY <2>2, <2>3 DEF RecoveryInv, RebootInTime
  <2> QED BY <2>6, <2>8, <2>9, <2>10 DEF RecoveryInv
<1> QED BY <1>1, <1>2, <1>3, <1>4, <1>5 DEF NextSession

\* At power-on there is time for everything.
LEMMA RecoveryInit ==
  ASSUME HostIsQuick, InitSession, Typical
  PROVE  RecoveryInv
<1>1. sm = "BOOT" /\ since = 0 /\ phEvent = "NONE" /\ toHost = << >> /\ toDevice = << >>
  BY DEF InitSession, Init, FSM!Init, PH!Init, H!Init
<1>2. MonitorsAreOnTime /\ BegunOnce
  BY <1>1 DEF MonitorsAreOnTime, BegunOnce, Started
<1>3. HandshakeInTime /\ HeartbeatInTime
  BY <1>1, TimeForEverything
<1>4. RebootInTime
  <2>1. Unanswered = <<"NONE">>
    <3>1. <<"NONE">> \in Seq({"NONE"})
      OBVIOUS
    <3> QED BY <1>1, <3>1, ConcatEmptySeq DEF Answered, Unanswered
  <2>2. \A i \in DOMAIN Unanswered : Unanswered[i] = "NONE"
    BY <2>1
  <2> QED BY <2>2 DEF RebootInTime
<1> QED BY <1>2, <1>3, <1>4 DEF RecoveryInv

\* When nothing is late, none of RecoveryTime needs to be left in session only.
LEMMA InTimeIsInSession ==
  ASSUME Typical, SinceTyped, Managed, TimingInv, RecoveryInv
  PROVE  RecoveryBounded
<1> SUFFICES ASSUME ~InSession PROVE \E x \in Nat : Left(x)
  <2>1. ASSUME NEW x \in Nat, Left(x) PROVE ~(since > RecoveryTime)
    <3>1. PICK s \in Nat : s = since
      BY DEF SinceTyped
    <3>2. s + x <= RecoveryTime
      BY <2>1, <3>1 DEF Left
    <3> QED BY <3>1, <3>2, HostSessionAssumption
  <2> QED BY <2>1 DEF RecoveryBounded
<1>1. sm \in {"BOOT", "UP", "CFG"}
  BY MonitorsTyped DEF InSession, FSM!States, FSM!Active
<1>2. PICK a \in Nat, p \in Nat, A \in Nat, r \in Nat, h \in Nat, l \in Nat :
        /\ a = HandshakeAge /\ p = Patience(CONFIG_INTERVAL) /\ A = Answer
        /\ r = Patience(CONFIG_INTERVAL) + Answer /\ h = Handshake /\ l = lag
        /\ l <= p /\ l <= A
  <2>1. /\ HandshakeAge \in Nat /\ Patience(CONFIG_INTERVAL) \in Nat /\ Answer \in Nat
        /\ Handshake \in Nat /\ lag \in Nat /\ lag <= MaxLag /\ MaxLag \in Nat
    BY PatienceIs, AnswerIs, Numbers, SlowerIs
  <2>2. Patience(CONFIG_INTERVAL) + Answer \in Nat
    BY <2>1
  <2>3. lag <= Patience(CONFIG_INTERVAL)
    BY <2>1, PatienceIs
  <2>4. lag <= Answer
    BY <2>1, AnswerIs, SlowerIs
  <2> QED BY <2>1, <2>2, <2>3, <2>4
<1>3. Asking => a <= l
  BY <1>2 DEF TimingInv, RequestsAreFresh
<1>4. CASE sm = "BOOT" \/ (sm = "CFG" /\ cmEvent = "CFG_TIMEOUT")
  <2>1. Left(h)
    BY <1>2, <1>4, StartsOverNow DEF RecoveryInv, HandshakeInTime
  <2> QED BY <2>1
<1>5. ASSUME sm \in {"UP", "CFG"} PROVE a <= p
  BY <1>2, <1>5, AgesAreBounded
  DEF RecoveryInv, Started, Typical, DeviceInv, HandshakeAgreement
<1>6. CASE sm = "UP"
  <2>1. UpInTime
    BY <1>6 DEF RecoveryInv, HandshakeInTime
  <2>2. CASE Left(p - a + A + r)
    <3>1. p - a + A + r \in Nat
      BY <1>5, <1>6
    <3> QED BY <2>2, <3>1
  <2>3. CASE Announcing /\ Left(A - a + r)
    <3>1. a <= l
      BY <1>3, <2>3 DEF Asking
    <3>2. A - a + r \in Nat
      BY <1>2, <3>1
    <3> QED BY <2>3, <3>2
  <2>4. ASSUME NEW i \in DOMAIN Unanswered, Announces(Unanswered[i]), Leaves(i, r) PROVE Left(r)
    BY <2>4, LeavesNow, AwaitedIs DEF NotableKinds
  <2> QED BY <1>2, <2>1, <2>2, <2>3, <2>4 DEF UpInTime
<1>7. CASE sm = "CFG" /\ cmEvent # "CFG_TIMEOUT"
  <2>1. ConfigInTime
    BY <1>7 DEF RecoveryInv, HandshakeInTime
  <2>2. CASE Left(p - a + A)
    <3>1. p - a + A \in Nat
      BY <1>5, <1>7
    <3> QED BY <2>2, <3>1
  <2>3. CASE cmEvent = "CFG_REQUEST" /\ Left(A - a)
    <3>1. a <= l
      BY <1>3, <2>3 DEF Asking
    <3>2. A - a \in Nat
      BY <1>2, <3>1
    <3> QED BY <2>3, <3>2
  <2>4. ASSUME NEW i \in DOMAIN Unanswered, Configures(Unanswered[i]), Leaves(i, 0) PROVE Left(0)
    <3>1. Unanswered[i] \in NotableKinds
      BY <2>4, AwaitedIs DEF NotableKinds
    <3> QED BY <2>4, <3>1, LeavesNow
  <2>5. CASE Left(p - a + h)
    <3>1. p - a + h \in Nat
      BY <1>5, <1>7
    <3> QED BY <2>5, <3>1
  <2> QED BY <1>2, <2>1, <2>2, <2>3, <2>4, <2>5 DEF ConfigInTime
<1> QED BY <1>1, <1>4, <1>6, <1>7

\* What waits for an answer, or for a timeout, leaves time for the rest of the handshake: with
\* a host and a loop that are quick against the intervals, whatever is lost, however often
\* power is, and whatever the user asks.
THEOREM NothingIsLate ==
  ASSUME Managed, HostIsQuick
  PROVE  SessionSpec => []RecoveryInv
<1> DEFINE Invs == DeviceInv /\ AgreementInv /\ TimingInv
<1>0. Invs => Typical
  BY TypicalIs DEF AgreementInv
<1>1. InitSession => DeviceInv /\ AgreementInv /\ TimingInv
  BY InvInit, AgreementInit, TimingInit DEF InitSession
<1>2. InitSession => SinceTyped /\ RecoveryInv
  <2>1. InitSession => SinceTyped
    BY DEF InitSession, SinceTyped
  <2> QED BY <1>0, <1>1, <2>1, RecoveryInit
<1>3. SessionSpec => []Invs
  BY QuickIsPrompt, AnswersComeInTime
<1>4. Invs /\ Invs' /\ SinceTyped /\ RecoveryInv /\ [NextSession]_all => SinceTyped' /\ RecoveryInv'
  <2> SUFFICES ASSUME Invs, Invs', SinceTyped, RecoveryInv, [NextSession]_all
               PROVE  SinceTyped' /\ RecoveryInv'
    OBVIOUS
  <2>1. Typical /\ Typical'
    BY TypicalIs DEF AgreementInv
  <2> QED BY <2>1, SinceMoves, RecoveryStep
<1> HIDE DEF Invs
<1> QED BY <1>2, <1>3, <1>4, PTL DEF SessionSpec

\* Within RecoveryTime of power-on, and of the last fault, there is a session, and from then
\* on it lasts: no heartbeat is given up that the host has answered, and no late answer or
\* retry of ConfigMonitor takes the handshake round again.
THEOREM SessionInBoundedTime ==
  ASSUME Managed, HostIsQuick
  PROVE  SessionSpec => []RecoveryBounded
<1>1. SessionSpec => [](DeviceInv /\ AgreementInv /\ TimingInv)
  BY QuickIsPrompt, AnswersComeInTime
<1>2. SessionSpec => []RecoveryInv
  BY NothingIsLate
<1>3. InitSession => SinceTyped
  BY DEF InitSession, SinceTyped
<1>4. SinceTyped /\ [NextSession]_all => SinceTyped'
  BY SinceMoves
<1>5. DeviceInv /\ AgreementInv /\ TimingInv /\ RecoveryInv /\ SinceTyped => RecoveryBounded
  BY TypicalIs, InTimeIsInSession DEF AgreementInv
<1> QED BY <1>1, <1>2, <1>3, <1>4, <1>5, PTL DEF SessionSpec

===============================================================================
