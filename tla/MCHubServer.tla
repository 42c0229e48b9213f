----------------------------- MODULE MCHubServer -----------------------------
(* Small instances of HubServer.                                           *)
EXTENDS HubServer, FiniteSetsExt, TLC

Waits == [state |-> "waiting", urgency |-> "approval"]
Died  == [state |-> "dead",    urgency |-> "none"]

WaitOrDead == {Waits, Died}

\* A log with every session in it, each waiting in every run, and one soloed.
Waiting(eng, id) ==
  upsert_session(eng, id,
    Registered(eng, id, [r \in RunIds |-> Waits @@ [updated_at |-> 0]]))

OneSoloed ==
  LET all == FoldSet(LAMBDA id, eng : Waiting(eng, id), EmptyEngine, SessionIds)
  IN  apply_solo(all, CHOOSE id \in SessionIds : TRUE)

EmptyOrSoloed == {EmptyEngine, OneSoloed}
=============================================================================
