---------------------------- MODULE MCPooledRing ----------------------------
(***************************************************************************)
(* An instance of PooledRing: every queue with the threads it is made for. *)
(***************************************************************************)
EXTENDS PooledRing

Queue(kind, capacity, p, c, pushes) ==
    [policy |-> kind, capacity |-> capacity, producers |-> p,
     consumers |-> c, pushes |-> pushes]

\* Two slots go around quickly; four have room for two producers at once.
MCConfigs ==
    {Queue("MPSCQueue", 2, {"p1", "p2"}, {"c1"}, 4),
     Queue("MPSCQueue", 4, {"p1", "p2"}, {"c1"}, 3),
     Queue("MPSC", 2, {"p1", "p2"}, {"c1"}, 4),
     Queue("MPSC", 4, {"p1", "p2"}, {"c1"}, 3),
     Queue("SPSC", 2, {"p1"}, {"c1"}, 5),
     Queue("MPMC", 2, {"p1"}, {"c1", "c2"}, 4)}

==============================================================================
