---------------------------- MODULE OutputLedger ----------------------------
(***************************************************************************)
(* What the executions promise about an output root they share: every path *)
(* has at most one owner, an owner keeps its path until it gives it back,  *)
(* and a record lists exactly the paths its execution owns, which are the  *)
(* outputs of whole candidates and stay owned from then on.                *)
(***************************************************************************)
CONSTANTS
  Execs, Paths,
  Bundles,      \* execution -> the sets of paths it publishes all or none of
  Outsider,     \* owner of the files other processes made
  Nobody

VARIABLES
  owner,        \* path -> who owns the file there
  open,         \* the executions that have not ended
  record        \* execution -> {} before it returns, {the paths its record lists} after

ledger == <<owner, open, record>>

Init ==
  /\ owner = [p \in Paths |-> Nobody]
  /\ open = Execs
  /\ record = [e \in Execs |-> {}]

OwnedBy(e) == {p \in Paths : owner[p] = e}

Claim(e, p) ==
  /\ e \in open
  /\ owner[p] = Nobody
  /\ owner' = [owner EXCEPT ![p] = e]
  /\ UNCHANGED <<open, record>>

Release(e, p) ==
  /\ e \in open
  /\ owner[p] = e
  /\ owner' = [owner EXCEPT ![p] = Nobody]
  /\ UNCHANGED <<open, record>>

Close(e) ==
  /\ e \in open
  /\ \A B \in Bundles[e] : B \subseteq OwnedBy(e) \/ B \cap OwnedBy(e) = {}
  /\ open' = open \ {e}
  /\ record' = [record EXCEPT ![e] = {OwnedBy(e)}]
  /\ UNCHANGED owner

(* Killed: no record, and what is owned stays where it is.                 *)
Abandon(e) ==
  /\ e \in open
  /\ open' = open \ {e}
  /\ UNCHANGED <<owner, record>>

Occupy(p) ==
  /\ owner[p] = Nobody
  /\ owner' = [owner EXCEPT ![p] = Outsider]
  /\ UNCHANGED <<open, record>>

Next ==
  \/ \E e \in Execs : Close(e) \/ Abandon(e)
  \/ \E e \in Execs, p \in Paths : Claim(e, p) \/ Release(e, p)
  \/ \E p \in Paths : Occupy(p)

Spec == Init /\ [][Next]_ledger
=============================================================================
