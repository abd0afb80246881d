--------------------------- MODULE MCNativeReceive ---------------------------
EXTENDS NativeReceive

CONSTANTS o1, o2

Mix(ops_, n, kinds_) == [ops |-> ops_, faults |-> n, kinds |-> kinds_]

MCMixes ==
  {Mix(<<o1>>, 2, {"transport", "stop", "expire"}),
   Mix(<<o1>>, 2, {"finalize", "clean", "evict", "container"}),
   Mix(<<o1>>, 1, {"stall", "unready", "container"}),
   Mix(<<o1>>, 2, {"supersede", "transport"}),
   Mix(<<o1>>, 2, {"delete", "stop", "transport"}),
   Mix(<<o1>>, 2, {"dispatch", "lapse", "other"}),
   Mix(<<o1>>, 2, {"evict", "stop"}),
   Mix(<<o1>>, 1, {"evict", "stall"}),
   Mix(<<o1, o2>>, 1, {"lapse"})}

=============================================================================
