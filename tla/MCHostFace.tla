----------------------------- MODULE MCHostFace -----------------------------
(* Small instances of HostFace.                                            *)
EXTENDS HostFace

Asks   == [state |-> "waiting", urgency |-> "question", updated_at |-> 1]
Blocks == [state |-> "waiting", urgency |-> "approval", updated_at |-> 0]
Busily == [state |-> "working", urgency |-> "none",     updated_at |-> 0]
Fails  == [state |-> "error",   urgency |-> "none",     updated_at |-> 0]

WaitsAndFails == {Asks, Fails}

\* A fleet of which one session waits alone for the person: the other waits
\* too, and the solo silences it.
CONSTANTS s1, s2

OneSoloed ==
  apply_solo(upsert_session(upsert_session(EmptyEngine,
      s1, NewSession([r \in RunIds |-> Blocks])), s2, NewSession([r \in RunIds |-> Asks])), s1)

NoneOrSoloed == {EmptyEngine, OneSoloed}
=============================================================================
