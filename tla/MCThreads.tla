----------------------------- MODULE MCThreads -----------------------------
EXTENDS Threads, TLC

CONSTANTS t1, t2, t3, t4, l, s, c

MCGuard == (c :> l)

MCMay == (t1 :> {"create", "lock", "signal", "up"}) @@ (t2 :> {})
      @@ (t3 :> {"lock", "wait", "down", "exit"}) @@ (t4 :> {"lock", "try", "exit"})
=============================================================================
