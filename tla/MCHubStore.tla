------------------------------ MODULE MCHubStore ------------------------------
(* Small instances of HubStore.                                            *)
EXTENDS HubStore

\* Every run id is anchored on one native id.
OneRun == [r \in RunIds |-> CHOOSE n \in NativeIds : TRUE]

Waits == [state |-> "waiting", urgency |-> "approval"]
Works == [state |-> "working", urgency |-> "none"]
Died  == [state |-> "dead",    urgency |-> "none"]

WorkOrWait == {Works, Waits}
WorkOrDead == {Works, Died}
JustWorks  == {Works}

\* Two epochs of two deltas each.
FourStamps == [epoch : 0 .. 1, seq : 1 .. 2]
=============================================================================
