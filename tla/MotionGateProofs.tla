-------------------------- MODULE MotionGateProofs --------------------------
(***************************************************************************)
(* Theorems about MotionGate, for every cooldown, minimum score and set    *)
(* of accelerations.                                                       *)
(***************************************************************************)
EXTENDS MotionGate, TLAPS

\* last_emit_ms is the latest event, and no event lies in the future.
LastEmitInv ==
    /\ (\E e \in emits : TRUE) => has_last_emit
    /\ has_last_emit => last_emit_ms \in emits /\ last_emit_ms <= now
    /\ \A e \in emits : e <= last_emit_ms

IInv == TypeOK /\ LastEmitInv /\ Spacing /\ NoMotionLost

\* One of the three distances of a capture is the largest.
LEMMA MaxDeltaIsReached ==
  ASSUME NEW s \in Captures
  PROVE  /\ MaxDelta(s) \in Nat /\ MaxDelta(s) <= 196605
         /\ \E i \in 2 .. SampleCount : MaxDelta(s) = Delta(s, i)
         /\ \A i \in 2 .. SampleCount : Delta(s, i) <= MaxDelta(s)
<1> DEFINE Bounded(d) == d \in Nat /\ d <= 196605
<1>1. \A i \in 1 .. SampleCount : s[i] \in [x : Int16, y : Int16, z : Int16]
  <2>1. \A i \in 1 .. SampleCount : s[i] \in Samples
    BY SMT DEF Captures
  <2> QED BY <2>1, GateAssumption, SMT
<1>2. \A i \in 2 .. SampleCount : Bounded(Delta(s, i))
  <2> SUFFICES ASSUME NEW i \in 2 .. SampleCount PROVE Bounded(Delta(s, i))
    BY SMT
  <2>1. i \in 1 .. SampleCount /\ i - 1 \in 1 .. SampleCount
    BY SMT DEF SampleCount
  <2>2. \A a, b \in Int16 : /\ Abs(Diff(a, b)) \in Nat
                            /\ Abs(Diff(a, b)) <= 65535
    <3> SUFFICES ASSUME NEW a \in Int16, NEW b \in Int16
                 PROVE  Abs(Diff(a, b)) \in Nat /\ Abs(Diff(a, b)) <= 65535
      BY SMT
    <3>1. /\ a \in Int /\ -32768 <= a /\ a <= 32767
          /\ b \in Int /\ -32768 <= b /\ b <= 32767
      BY SMT DEF Int16
    <3> DEFINE d == a - b
    <3>2. d \in Int /\ -65535 <= d /\ d <= 65535
      BY <3>1, SMT
    <3>3. Abs(Diff(a, b)) = IF d < 0 THEN -d ELSE d
      BY SMT DEF Abs, Diff
    <3> HIDE DEF d
    <3> QED BY <3>2, <3>3, SMT
  <2>3. /\ s[i].x \in Int16 /\ s[i].y \in Int16 /\ s[i].z \in Int16
        /\ s[i - 1].x \in Int16 /\ s[i - 1].y \in Int16 /\ s[i - 1].z \in Int16
    BY <1>1, <2>1, SMT
  <2> DEFINE dx == Abs(Diff(s[i].x, s[i - 1].x))
             dy == Abs(Diff(s[i].y, s[i - 1].y))
             dz == Abs(Diff(s[i].z, s[i - 1].z))
  <2>4. /\ dx \in Nat /\ dx <= 65535 /\ dy \in Nat /\ dy <= 65535
        /\ dz \in Nat /\ dz <= 65535
    BY <2>2, <2>3, SMT
  <2>5. Delta(s, i) = dx + dy + dz
    BY DEF Delta
  <2> HIDE DEF dx, dy, dz
  <2> QED BY <2>4, <2>5, SMT
<1> DEFINE D == {Delta(s, i) : i \in 2 .. SampleCount}
<1>3. \E m \in D : \A i \in 2 .. SampleCount : Delta(s, i) <= m
  <2>1. /\ Delta(s, 2) \in Nat /\ Delta(s, 2) \in D
        /\ Delta(s, 3) \in Nat /\ Delta(s, 3) \in D
        /\ Delta(s, 4) \in Nat /\ Delta(s, 4) \in D
    BY <1>2, SMT DEF SampleCount
  <2>2. \A i \in 2 .. SampleCount : i = 2 \/ i = 3 \/ i = 4
    BY SMT DEF SampleCount
  <2>3. \E m \in D : /\ Delta(s, 2) <= m /\ Delta(s, 3) <= m
                     /\ Delta(s, 4) <= m
    <3> HIDE DEF D
    <3> QED BY <2>1, SMT
  <2> QED BY <2>2, <2>3, SMT
<1>4. /\ MaxDelta(s) \in D
      /\ \A i \in 2 .. SampleCount : Delta(s, i) <= MaxDelta(s)
  BY <1>3, SMT DEF MaxDelta
<1>5. PICK i \in 2 .. SampleCount : MaxDelta(s) = Delta(s, i)
  BY <1>4, SMT
<1> QED BY <1>2, <1>4, <1>5, SMT

\* The score of any capture is computed without overflow of the int32_t that
\* motion_score_mg computes it in, and is at most 11992 mg.
THEOREM ScoreFits ==
  ASSUME NEW s \in Captures
  PROVE  /\ Scaled(s) \in Nat /\ Scaled(s) <= 2147483647
         /\ Score(s) \in Nat /\ Score(s) <= 11992
<1>1. MaxDelta(s) \in Nat /\ MaxDelta(s) <= 196605
  BY MaxDeltaIsReached, SMT
<1>2. Scaled(s) = MaxDelta(s) * 61 /\ Score(s) = Scaled(s) \div 1000
  BY SMT DEF Scaled, Score
<1> QED BY <1>1, <1>2, SMT

\* A round leaves samples that were captured, or none.
LEMMA CaptureTyped ==
  ASSUME NEW wake \in BOOLEAN, Capture(wake)
  PROVE  samples' \in Captures \cup {<<>>} /\ score_mg' \in Nat
<1>1. CASE samples' \in Captures /\ score_mg' = Score(samples')
  BY <1>1, ScoreFits, SMT
<1>2. CASE samples' = <<>> /\ score_mg' = 0
  BY <1>2
<1> QED BY <1>1, <1>2 DEF Capture

LEMMA InitInv == Init => IInv
<1> SUFFICES ASSUME Init PROVE IInv
  OBVIOUS
<1>1. TypeOK
  <2>1. now \in Nat
    BY GateAssumption DEF Init
  <2>2. last_emit_ms \in 0 .. now
    BY <2>1 DEF Init
  <2> QED BY <2>1, <2>2 DEF Init, TypeOK
<1>2. LastEmitInv /\ Spacing /\ NoMotionLost
  BY DEF Init, LastEmitInv, Spacing, NoMotionLost
<1> QED BY <1>1, <1>2 DEF IInv

\* A round that does not emit, and changes neither the last event nor the
\* flag, keeps the invariant if a wake-up in it comes within the cooldown.
LEMMA QuietRound ==
  ASSUME IInv, NEW wake \in BOOLEAN,
         NEW d \in {"NONE", "INACTIVITY"}, Record(wake, d),
         moving' \in BOOLEAN, UNCHANGED <<has_last_emit, last_emit_ms>>,
         Capture(wake), wake => ~Due
  PROVE  IInv'
<1>1. emits' = emits /\ now' = now /\ wakes' \subseteq wakes \cup {now}
  BY DEF Record
<1>2. TypeOK'
  BY <1>1, CaptureTyped DEF IInv, TypeOK
<1>3. LastEmitInv' /\ Spacing'
  BY <1>1 DEF IInv, LastEmitInv, Spacing
<1>4. NoMotionLost'
  <2> SUFFICES ASSUME NEW w \in wakes'
               PROVE  \E e \in emits : e <= w /\ (w - e < Cooldown \/ e = w)
    BY <1>1 DEF NoMotionLost
  <2>1. CASE w \in wakes
    BY <2>1 DEF IInv, NoMotionLost
  <2>2. CASE w \notin wakes
    <3>1. w = now /\ wake
      BY <2>2, <1>1 DEF Record
    <3>2. has_last_emit /\ ~(now - last_emit_ms >= Cooldown)
      BY <3>1 DEF Due
    <3>3. last_emit_ms \in emits /\ last_emit_ms <= now
      BY <3>2 DEF IInv, LastEmitInv
    <3>4. now - last_emit_ms < Cooldown
      BY <3>2, GateAssumption DEF IInv, TypeOK
    <3> QED BY <3>1, <3>3, <3>4
  <2> QED BY <2>1, <2>2
<1> QED BY <1>2, <1>3, <1>4 DEF IInv

\* An event is emitted only when the cooldown since the latest one has passed.
LEMMA EmitRound ==
  ASSUME IInv, NEW wake \in BOOLEAN, NEW inact \in BOOLEAN, NEW score,
         GateEmit(wake, inact, score),
         Capture(wake), Record(wake, "EMIT")
  PROVE  IInv'
<1>1. /\ emits' = emits \cup {now} /\ now' = now
      /\ wakes' \subseteq wakes \cup {now}
      /\ has_last_emit' = TRUE /\ last_emit_ms' = now /\ moving' = TRUE
  BY DEF Record, GateEmit
<1>2. TypeOK'
  <2>1. now \in Nat /\ last_emit_ms' \in 0 .. now'
    BY <1>1 DEF IInv, TypeOK
  <2> QED BY <2>1, <1>1, CaptureTyped DEF IInv, TypeOK
<1>3. \A e \in emits : e \in Nat /\ e <= now
  <2> TAKE e \in emits
  <2>1. has_last_emit /\ e <= last_emit_ms /\ last_emit_ms <= now
    BY DEF IInv, LastEmitInv
  <2>2. e \in Nat /\ last_emit_ms \in Nat /\ now \in Nat
    BY DEF IInv, TypeOK
  <2> QED BY <2>1, <2>2
<1>4. LastEmitInv'
  BY <1>1, <1>3 DEF LastEmitInv, IInv, TypeOK
<1>5. Spacing'
  <2> SUFFICES ASSUME NEW a \in emits', NEW b \in emits', a < b
               PROVE  b - a >= Cooldown
    BY DEF Spacing
  <2>1. CASE b \in emits
    <3>1. a \in emits
      BY <2>1, <1>1, <1>3 DEF IInv, TypeOK
    <3> QED BY <3>1, <2>1 DEF IInv, Spacing
  <2>2. CASE b \notin emits
    <3>1. b = now /\ a \in emits
      BY <2>2, <1>1 DEF IInv, TypeOK
    <3>2. has_last_emit /\ a <= last_emit_ms
      BY <3>1 DEF IInv, LastEmitInv
    <3>3. now - last_emit_ms >= Cooldown
      BY <3>2 DEF GateEmit, Due
    <3>4. a \in Nat /\ last_emit_ms \in Nat /\ now \in Nat
      BY <3>1 DEF IInv, TypeOK
    <3> QED BY <3>1, <3>2, <3>3, <3>4, GateAssumption
  <2> QED BY <2>1, <2>2
<1>6. NoMotionLost'
  BY <1>1 DEF NoMotionLost, IInv, TypeOK
<1> QED BY <1>2, <1>4, <1>5, <1>6 DEF IInv

LEMMA NextInv == IInv /\ [Next]_vars => IInv'
<1> SUFFICES ASSUME IInv, [Next]_vars PROVE IInv'
  OBVIOUS
<1>1. ASSUME Round PROVE IInv'
  <2>1. PICK wake \in BOOLEAN, inact \in BOOLEAN :
          Capture(wake) /\ Decide(wake, inact, score_mg')
    BY <1>1 DEF Round
  <2> DEFINE score == score_mg'
  <2>2. CASE GateInactivity(wake, inact) /\ Record(wake, "INACTIVITY")
    BY <2>1, <2>2, QuietRound DEF GateInactivity
  <2>3. CASE GateQuiet(wake, inact, score) /\ Record(wake, "NONE")
    BY <2>1, <2>3, QuietRound DEF GateQuiet, Motion, IInv, TypeOK
  <2>4. CASE GateSuppress(wake, inact, score) /\ Record(wake, "NONE")
    BY <2>1, <2>4, QuietRound DEF GateSuppress
  <2>5. CASE GateEmit(wake, inact, score) /\ Record(wake, "EMIT")
    BY <2>1, <2>5, EmitRound
  <2> QED BY <2>1, <2>2, <2>3, <2>4, <2>5 DEF Decide
<1>2. ASSUME Tick PROVE IInv'
  BY <1>2 DEF Tick, gateVars, roundVars, IInv, TypeOK, LastEmitInv, Spacing, NoMotionLost
<1>3. CASE UNCHANGED vars
  BY <1>3 DEF vars, gateVars, roundVars, IInv, TypeOK, LastEmitInv, Spacing, NoMotionLost
<1> QED BY <1>1, <1>2, <1>3 DEF Next

\* The invariant that ties last_emit_ms to the history of events.
THEOREM Invariance == Spec => []IInv
<1> QED BY InitInv, NextInv, PTL DEF Spec

\* Any two events are at least the cooldown apart, for every cooldown.
THEOREM EventsAreSpaced == Spec => []Spacing
<1>1. IInv => Spacing
  BY DEF IInv
<1> QED BY <1>1, Invariance, PTL

\* Every wake-up is, or falls within the cooldown of, an emitted event.
THEOREM EveryMotionIsReported == Spec => []NoMotionLost
<1>1. IInv => NoMotionLost
  BY DEF IInv
<1> QED BY <1>1, Invariance, PTL
-----------------------------------------------------------------------------
(* The gate implements the rate limiter.                                    *)

\* The last event decides as all events do.
LEMMA DueIsNotRecent ==
  ASSUME IInv
  PROVE  Due <=> ~Limiter!Recent
<1>1. /\ now \in Nat /\ Cooldown \in Nat /\ last_emit_ms \in Nat
      /\ has_last_emit \in BOOLEAN /\ emits \subseteq Nat
  BY GateAssumption DEF IInv, TypeOK
<1>2. CASE ~has_last_emit
  <2>1. emits = {}
    BY <1>2 DEF IInv, LastEmitInv
  <2> QED BY <1>2, <2>1 DEF Due, Limiter!Recent
<1>3. CASE has_last_emit
  <2>1. last_emit_ms \in emits /\ \A e \in emits : e <= last_emit_ms
    BY <1>3 DEF IInv, LastEmitInv
  <2>2. \A e \in emits : now - e < Cooldown => now - last_emit_ms < Cooldown
    BY <1>1, <2>1
  <2> QED BY <1>1, <1>3, <2>1, <2>2 DEF Due, Limiter!Recent
<1> QED BY <1>1, <1>2, <1>3

\* A round with the wake bit moves the limiter, any other leaves it alone.
LEMMA RoundIsMove ==
  ASSUME IInv, Round
  PROVE  Limiter!Move \/ UNCHANGED <<now, emits, wakes>>
<1>1. PICK wake \in BOOLEAN, inact \in BOOLEAN :
        Capture(wake) /\ Decide(wake, inact, score_mg')
  BY DEF Round
<1> DEFINE score == score_mg'
<1>2. ~wake => score = 0
  BY <1>1 DEF Capture
<1>3. CASE GateInactivity(wake, inact) /\ Record(wake, "INACTIVITY")
  BY <1>3 DEF GateInactivity, Record
<1>4. CASE GateQuiet(wake, inact, score) /\ Record(wake, "NONE")
  BY <1>4 DEF GateQuiet, Motion, Record
<1>5. ASSUME Motion(wake, inact, score) PROVE wake
  BY <1>2, <1>5, GateAssumption DEF Motion
<1>6. CASE GateSuppress(wake, inact, score) /\ Record(wake, "NONE")
  <2>1. wake /\ ~Due
    BY <1>5, <1>6 DEF GateSuppress
  <2> QED BY <1>6, <2>1, DueIsNotRecent DEF Record, Limiter!Move
<1>7. CASE GateEmit(wake, inact, score) /\ Record(wake, "EMIT")
  <2>1. wake /\ Due
    BY <1>5, <1>7 DEF GateEmit
  <2> QED BY <1>7, <2>1, DueIsNotRecent DEF Record, Limiter!Move
<1> QED BY <1>1, <1>3, <1>4, <1>6, <1>7 DEF Decide

\* motion_gate_update, which keeps one time, is a rate limiter that knows every
\* event, for every cooldown and every sequence of rounds.
THEOREM GateIsLimiter == Spec => ImplementsLimiter
<1>1. Init => Limiter!Init
  BY GateAssumption DEF Init, Limiter!Init
<1>2. IInv /\ [Next]_vars => [Limiter!Next]_<<now, emits, wakes>>
  <2> SUFFICES ASSUME IInv, [Next]_vars
               PROVE  [Limiter!Next]_<<now, emits, wakes>>
    OBVIOUS
  <2>1. CASE Round
    BY <2>1, RoundIsMove DEF Limiter!Next
  <2>2. CASE Tick
    BY <2>2 DEF Tick, roundVars, Limiter!Next, Limiter!Pass
  <2>3. CASE UNCHANGED vars
    BY <2>3 DEF vars, roundVars
  <2> QED BY <2>1, <2>2, <2>3 DEF Next
<1> QED BY <1>1, <1>2, Invariance, PTL DEF Spec, ImplementsLimiter, Limiter!Spec

-----------------------------------------------------------------------------
(* Types, and the score.                                                    *)

\* Every variable keeps its type in every reachable state; last_emit_ms never
\* lies in the future.
THEOREM TypeCorrect == Spec => []TypeOK
<1>1. IInv => TypeOK
  BY DEF IInv
<1> QED BY <1>1, Invariance, PTL

\* The score of the last round is that of its samples.
ScoreInv == samples = <<>> \/ (samples \in Captures /\ score_mg = Score(samples))

\* Rounding the score down to whole mg does not hide a movement.
LEMMA ScoreReaches ==
  ASSUME NEW s \in Captures
  PROVE  Score(s) >= MinScore
           <=> \E i \in 2 .. SampleCount : 61 * Delta(s, i) >= 1000 * MinScore
<1>1. /\ MaxDelta(s) \in Nat
      /\ \E i \in 2 .. SampleCount : MaxDelta(s) = Delta(s, i)
      /\ \A i \in 2 .. SampleCount : Delta(s, i) <= MaxDelta(s)
  BY MaxDeltaIsReached, SMT
<1> DEFINE m == MaxDelta(s)
<1>2. Score(s) = (m * 61) \div 1000
  BY Zenon DEF Score, Scaled
<1> HIDE DEF m
<1>3. m \in Nat /\ MinScore \in Nat
  BY <1>1, GateAssumption, SMT DEF m
<1>4. Score(s) >= MinScore <=> 61 * m >= 1000 * MinScore
  BY <1>2, <1>3, SMT
<1>5. \A i \in 2 .. SampleCount : Delta(s, i) \in Int
  <2> TAKE i \in 2 .. SampleCount
  <2>1. i \in 1 .. SampleCount /\ i - 1 \in 1 .. SampleCount
    BY SMT DEF SampleCount
  <2>2. s[i] \in [x : Int16, y : Int16, z : Int16]
        /\ s[i - 1] \in [x : Int16, y : Int16, z : Int16]
    <3>1. s[i] \in Samples /\ s[i - 1] \in Samples
      BY <2>1, SMT DEF Captures
    <3> QED BY <3>1, GateAssumption, SMT
  <2>3. \A a, b \in Int16 : Abs(Diff(a, b)) \in Int
    BY SMT DEF Int16, Abs, Diff
  <2>4. /\ Abs(Diff(s[i].x, s[i - 1].x)) \in Int
        /\ Abs(Diff(s[i].y, s[i - 1].y)) \in Int
        /\ Abs(Diff(s[i].z, s[i - 1].z)) \in Int
    BY <2>2, <2>3, SMT
  <2> QED BY <2>4, SMT DEF Delta
<1>6. ASSUME 61 * m >= 1000 * MinScore
      PROVE  \E i \in 2 .. SampleCount : 61 * Delta(s, i) >= 1000 * MinScore
  <2>1. PICK i \in 2 .. SampleCount : m = Delta(s, i)
    BY <1>1, Zenon DEF m
  <2> QED BY <1>6, <2>1, Zenon
<1>7. ASSUME NEW i \in 2 .. SampleCount, 61 * Delta(s, i) >= 1000 * MinScore
      PROVE  61 * m >= 1000 * MinScore
  <2>1. Delta(s, i) <= m /\ Delta(s, i) \in Int
    BY <1>1, <1>5, Zenon DEF m
  <2> DEFINE d == Delta(s, i)
  <2>2. 61 * d >= 1000 * MinScore /\ d <= m /\ d \in Int
    BY <1>7, <2>1, Zenon DEF d
  <2> HIDE DEF d
  <2> QED BY <2>2, <1>3, SMT
<1> QED BY <1>4, <1>6, <1>7, Zenon

LEMMA NextScore == ScoreInv /\ [Next]_vars => ScoreInv'
<1> SUFFICES ASSUME ScoreInv, [Next]_vars PROVE ScoreInv'
  OBVIOUS
<1>1. ASSUME Round PROVE ScoreInv'
  BY <1>1 DEF Round, Capture, ScoreInv
<1>2. ASSUME Tick \/ UNCHANGED vars PROVE ScoreInv'
  BY <1>2 DEF Tick, vars, roundVars, ScoreInv
<1> QED BY <1>1, <1>2 DEF Next

\* The score tells a movement of MinScore or more, for every set of
\* accelerations and every minimum: the truncating division loses none, and no
\* difference overflows (the int32_t of the code holds it, see ScoreFits).
THEOREM ScoreIsTrue == Spec => []ScoreSeesMovement
<1>1. Init => ScoreInv
  BY DEF Init, ScoreInv
<1>2. ScoreInv => ScoreSeesMovement
  <2> SUFFICES ASSUME samples \in Captures, score_mg = Score(samples)
               PROVE  ScoreSeesMovement
    BY DEF ScoreInv, ScoreSeesMovement
  <2>1. \A i \in 2 .. SampleCount :
          Delta(samples, i) = Abs(samples[i].x - samples[i - 1].x)
                              + Abs(samples[i].y - samples[i - 1].y)
                              + Abs(samples[i].z - samples[i - 1].z)
    BY Zenon DEF Delta, Diff
  <2>2. score_mg >= MinScore
          <=> \E i \in 2 .. SampleCount :
                61 * Delta(samples, i) >= 1000 * MinScore
    BY ScoreReaches, Zenon
  <2> QED BY <2>1, <2>2, SMT DEF ScoreSeesMovement
<1> QED BY <1>1, <1>2, NextScore, PTL DEF Spec
=============================================================================
