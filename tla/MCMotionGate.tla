---------------------------- MODULE MCMotionGate ----------------------------
(* Accelerations for the run of MotionGate.                                *)
EXTENDS MotionGate

\* Both ends of the range, and a sample just 90 mg away from the upper one.
MCSamples == {[x |-> 0, y |-> 0, z |-> -32768],
              [x |-> 0, y |-> 0, z |-> 32767],
              [x |-> 0, y |-> 1, z |-> 31292]}
=============================================================================
