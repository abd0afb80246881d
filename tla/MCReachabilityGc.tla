-------------------------- MODULE MCReachabilityGc --------------------------
\* Small instances of ReachabilityGc for TLC.
EXTENDS ReachabilityGc

CONSTANTS p1, p2, p3, o1, o2

Mix(pushes_, thin_, ops_, late_, edits_, faults_) ==
  [pushes |-> pushes_, thin |-> thin_, ops |-> ops_, late |-> late_,
   edits |-> edits_, faults |-> faults_]

MCMixes ==
  {Mix({p2}, {}, {o1}, TRUE, 0, 1),
   Mix({p2}, {p2}, {o1}, FALSE, 1, 1),
   Mix({p2, p3}, {}, {o1}, FALSE, 0, 0),
   Mix({p2}, {}, {o1, o2}, FALSE, 1, 0),
   Mix({}, {}, {o1}, FALSE, 0, 3)}
==============================================================================
