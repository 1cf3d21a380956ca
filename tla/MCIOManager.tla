---- MODULE MCIOManager ----
(* IOManager on small sets: see the MCIOManager*.cfg files. *)
EXTENDS IOManager, TLC

CONSTANTS f1, wakeup, c1, c2, cw, u1, w1, w2

\* As in TCPClientImpl: one controller to read, one to write.
MCDisjoint == c1 :> {{"read"}} @@ c2 :> {{"write"}} @@ cw :> {{"read"}}

\* One controller for both.
MCBoth == c1 :> {{"read", "write"}} @@ cw :> {{"read"}}

\* The descriptor becomes readable and writable.
MCEdges == {f1} \X Modes

\* The peer hangs up, and TimerManager calls Wakeup.
MCWakeups == {<<f1, "hup">>, <<wakeup, "read">>}

MCSymmetry == Permutations({w1, w2})

====
