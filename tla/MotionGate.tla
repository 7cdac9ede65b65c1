----------------------------- MODULE MotionGate -----------------------------
(***************************************************************************)
(* The motion gate of the mote (mote/src/motion_gate.c) and the round of   *)
(* the IMU thread that asks it (state_machine_task in mote/src/main.c).    *)
(*                                                                         *)
(* Each round reads the wake-up source register, samples the accelerometer *)
(* if the wake bit is set, and lets the gate decide at the current uptime. *)
(***************************************************************************)
EXTENDS Integers

CONSTANTS
    Cooldown,   \* cooldown_ms: 2000 in the code
    MinScore,   \* min_score_mg: 90 in the code
    Samples,    \* the accelerations the IMU may measure
    MaxTime     \* bound of the uptime explored

Int16 == {v \in Int : -32768 <= v /\ v <= 32767}

ASSUME GateAssumption ==
    /\ Cooldown \in Nat
    /\ MinScore \in Nat \ {0}
    /\ Samples \subseteq [x : Int16, y : Int16, z : Int16]
    /\ MaxTime \in Nat

VARIABLES
    now,            \* k_uptime_get()
    moving,         \* gate->moving
    has_last_emit,  \* gate->has_last_emit
    last_emit_ms,   \* gate->last_emit_ms
    samples,        \* the samples of the last round, <<>> without any
    score_mg,       \* the score of the last round
    emits,          \* history: the times of the events emitted
    wakes           \* history: the times of the rounds with the wake bit set

gateVars == <<moving, has_last_emit, last_emit_ms>>
roundVars == <<samples, score_mg, emits, wakes>>
vars == <<now, gateVars, roundVars>>

\* MOTION_SAMPLE_COUNT
SampleCount == 4
Captures == [1 .. SampleCount -> Samples]

TypeOK ==
    /\ now \in Nat
    /\ moving \in BOOLEAN
    /\ has_last_emit \in BOOLEAN
    /\ last_emit_ms \in 0 .. now
    /\ samples \in Captures \cup {<<>>}
    /\ score_mg \in Nat
    /\ emits \in SUBSET Nat
    /\ wakes \in SUBSET Nat

Init ==
    /\ now \in 0 .. MaxTime
    /\ moving = FALSE
    /\ has_last_emit = FALSE
    /\ last_emit_ms = 0
    /\ samples = <<>>
    /\ score_mg = 0
    /\ emits = {}
    /\ wakes = {}

\* The cooldown since the last event has passed.
Due == has_last_emit => now - last_emit_ms >= Cooldown

-----------------------------------------------------------------------------
(* motion_gate_update, by its outcome.                                      *)

\* Variant: inactivity also forgets the last event.
GateInactivityForgets(hw_wake, hw_inactivity) ==
    /\ hw_inactivity /\ ~hw_wake
    /\ moving' = FALSE
    /\ has_last_emit' = FALSE
    /\ UNCHANGED last_emit_ms

\* Inactivity alone clears moving and nothing else.
GateInactivity(hw_wake, hw_inactivity) ==
    /\ hw_inactivity /\ ~hw_wake
    /\ moving' = FALSE
    /\ UNCHANGED <<has_last_emit, last_emit_ms>>

Motion(hw_wake, hw_inactivity, score) ==
    hw_wake \/ (~hw_inactivity /\ score >= MinScore)

GateQuiet(hw_wake, hw_inactivity, score) ==
    /\ ~hw_inactivity /\ ~Motion(hw_wake, hw_inactivity, score)
    /\ UNCHANGED <<moving, has_last_emit, last_emit_ms>>

\* Variant: a suppressed motion restarts the cooldown.
GateSuppressRestarts(hw_wake, hw_inactivity, score) ==
    /\ Motion(hw_wake, hw_inactivity, score)
    /\ ~Due
    /\ moving' = TRUE
    /\ last_emit_ms' = now
    /\ UNCHANGED has_last_emit

GateSuppress(hw_wake, hw_inactivity, score) ==
    /\ Motion(hw_wake, hw_inactivity, score)
    /\ ~Due
    /\ moving' = TRUE
    /\ UNCHANGED <<has_last_emit, last_emit_ms>>

\* Variant: the end of the cooldown is remembered instead of its start.
GateEmitAhead(hw_wake, hw_inactivity, score) ==
    /\ Motion(hw_wake, hw_inactivity, score)
    /\ Due
    /\ moving' = TRUE
    /\ has_last_emit' = TRUE
    /\ last_emit_ms' = now + Cooldown

GateEmit(hw_wake, hw_inactivity, score) ==
    /\ Motion(hw_wake, hw_inactivity, score)
    /\ Due
    /\ moving' = TRUE
    /\ has_last_emit' = TRUE
    /\ last_emit_ms' = now

-----------------------------------------------------------------------------
(* motion_score_mg.                                                         *)

\* Variant: the differences are taken in 16 bits.
DiffNarrow(a, b) == ((a - b + 32768) % 65536) - 32768

Diff(a, b) == a - b

Abs(a) == IF a < 0 THEN -a ELSE a

\* The distance between sample i and the one before it.
Delta(s, i) ==
    Abs(Diff(s[i].x, s[i - 1].x)) + Abs(Diff(s[i].y, s[i - 1].y))
                                  + Abs(Diff(s[i].z, s[i - 1].z))

\* The largest of the distances, which the code keeps in 32 bits.
MaxDelta(s) ==
    CHOOSE m \in {Delta(s, i) : i \in 2 .. SampleCount} :
        \A i \in 2 .. SampleCount : Delta(s, i) <= m

\* 0.061 mg per bit.
Scaled(s) == MaxDelta(s) * 61
Score(s) == Scaled(s) \div 1000

-----------------------------------------------------------------------------
(* A round of state_machine_task: the samples are captured only when the    *)
(* wake bit is set, and a failed capture leaves the score at zero.          *)

Record(wake, decision) ==
    /\ emits' = IF decision = "EMIT" THEN emits \cup {now} ELSE emits
    /\ wakes' = IF wake THEN wakes \cup {now} ELSE wakes
    /\ UNCHANGED now

Decide(wake, inact, score) ==
    \/ GateInactivity(wake, inact) /\ Record(wake, "INACTIVITY")
    \/ GateQuiet(wake, inact, score) /\ Record(wake, "NONE")
    \/ GateSuppress(wake, inact, score) /\ Record(wake, "NONE")
    \/ GateEmit(wake, inact, score) /\ Record(wake, "EMIT")

\* The samples of a round: none without the wake bit or if the capture fails.
Capture(wake) == \/ wake /\ samples' \in Captures /\ score_mg' = Score(samples')
                 \/ samples' = <<>> /\ score_mg' = 0

Round ==
    \E wake, inact \in BOOLEAN :
        Capture(wake) /\ Decide(wake, inact, score_mg')

\* The uptime is monotonic.  The bound keeps the model finite.
Tick ==
    /\ now < MaxTime
    /\ now' = now + 1
    /\ UNCHANGED <<gateVars, roundVars>>

Next == Round \/ Tick

Spec == Init /\ [][Next]_vars

-----------------------------------------------------------------------------
(* Properties.                                                              *)

\* The gate limits the rate: any two events are at least the cooldown apart,
\* also across inactivity (mote/README.md: "2s cooldown").
Spacing == \A a, b \in emits : a < b => b - a >= Cooldown

\* The gate loses no motion: each wake-up falls within the cooldown of an
\* event already emitted or is one itself, so motion that goes on is
\* reported again and again.
NoMotionLost ==
    \A w \in wakes : \E e \in emits : e <= w /\ (w - e < Cooldown \/ e = w)

\* The gate, which remembers one time, decides as if it knew every event: it is
\* a rate limiter, whatever inactivity, failed captures and rounds without
\* motion come in between.
Limiter == INSTANCE RateLimiter WITH events <- emits, motions <- wakes

ImplementsLimiter == Limiter!Spec

\* The score tells a movement of MinScore or more, wherever in the capture it
\* lies and however far the samples are apart: no difference overflows.
ScoreSeesMovement ==
    samples # <<>> =>
        (score_mg >= MinScore <=>
           \E i \in 2 .. SampleCount : LET a == samples[i] b == samples[i - 1] IN
               61 * (Abs(a.x - b.x) + Abs(a.y - b.y) + Abs(a.z - b.z))
                   >= 1000 * MinScore)
=============================================================================
