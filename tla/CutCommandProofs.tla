-------------------------- MODULE CutCommandProofs --------------------------
(* Proofs about CutCommand, for any number of commands and any plan.       *)
EXTENDS CutCommand, TLAPS

(* The candidates a command has gone through without a failure are its own.*)
Progress(c) ==
  /\ phase[c] \in {"check", "preflight"} => idx[c] = 1
  /\ phase[c] = "execute" /\ ~failed[c] =>
       \A i \in 1..Len(Plan) : i < idx[c] => clips[Plan[i]] = c
Rendered(c) ==
  phase[c] \in {"store", "write", "emit"} /\ ~failed[c] => \A k \in Clips : clips[k] = c
Stored(c) ==
  /\ phase[c] = "write" => file.by = c
  /\ phase[c] = "emit" /\ ~failed[c] => file.by = c /\ file.whole = TRUE
Promise(c) ==
  /\ phase[c] # "exited" => exit[c] = 1
  /\ exit[c] = 0 =>
       (\A k \in Clips : clips[k] = c) /\ file.by = c /\ file.whole = TRUE /\ emitted[c]

IInv == TypeOK /\ \A c \in Commands : Progress(c) /\ Rendered(c) /\ Stored(c) /\ Promise(c)

LEMMA PlanFacts ==
  /\ Len(Plan) \in Nat
  /\ \A i \in 1..Len(Plan) : Plan[i] \in Clips
  /\ \A k \in Clips : \E i \in 1..Len(Plan) : k = Plan[i]
BY CutConstants DEF Clips

LEMMA IInvInit == Init => IInv
BY PlanFacts, CutConstants
   DEF Init, IInv, TypeOK, Phases, Progress, Rendered, Stored, Promise

LEMMA TypeStep ==
  ASSUME TypeOK, [Next]_vars
  PROVE  TypeOK'
<1> USE PlanFacts DEF TypeOK, Phases, Goto, Exits, Error
<1>1. ASSUME NEW c \in Commands, Check(c) PROVE TypeOK'      BY <1>1 DEF Check
<1>2. ASSUME NEW c \in Commands, Unreadable(c) PROVE TypeOK' BY <1>2 DEF Unreadable
<1>3. ASSUME NEW c \in Commands, Preflight(c) PROVE TypeOK'  BY <1>3 DEF Preflight
<1>4. ASSUME NEW c \in Commands, Publish(c) PROVE TypeOK'    BY <1>4 DEF Publish
<1>5. ASSUME NEW c \in Commands, ClipFails(c) PROVE TypeOK'  BY <1>5 DEF ClipFails
<1>6. ASSUME NEW c \in Commands, Verify(c) PROVE TypeOK'     BY <1>6 DEF Verify
<1>7. ASSUME NEW c \in Commands, Store(c) PROVE TypeOK'
  <2>1. [by |-> c, whole |-> FALSE] \in [by : Commands \cup {Nobody}, whole : BOOLEAN]
    OBVIOUS
  <2>2. file' \in [by : Commands \cup {Nobody}, whole : BOOLEAN]
    BY <1>7, <2>1, Zenon DEF Store
  <2> QED BY <1>7, <2>2 DEF Store
<1>8. ASSUME NEW c \in Commands, Write(c) PROVE TypeOK'      BY <1>8 DEF Write
<1>9. ASSUME NEW c \in Commands, StoreFails(c) PROVE TypeOK' BY <1>9 DEF StoreFails
<1>10. ASSUME NEW c \in Commands, Emit(c) PROVE TypeOK'      BY <1>10 DEF Emit
<1>11. ASSUME NEW c \in Commands, Kill(c) PROVE TypeOK'      BY <1>11 DEF Kill
<1>12. CASE UNCHANGED vars                                   BY <1>12 DEF vars
<1> QED
  BY <1>1, <1>2, <1>3, <1>4, <1>5, <1>6, <1>7, <1>8, <1>9, <1>10, <1>11, <1>12 DEF Next

(* What one command has, a step of another one does not take away.         *)
LEMMA Kept ==
  ASSUME TypeOK, NEW d \in Commands, [Next]_vars,
         NEW c \in Commands,
         \/ Check(c) \/ Unreadable(c) \/ Preflight(c) \/ Publish(c) \/ ClipFails(c)
         \/ Verify(c) \/ Store(c) \/ Write(c) \/ StoreFails(c) \/ Emit(c) \/ Kill(c)
  PROVE  /\ \A k \in Clips : clips[k] = d => clips'[k] = d
         /\ file.by = d => file'.by = d /\ (file.whole = TRUE => file'.whole = TRUE)
         /\ c # d => /\ phase'[d] = phase[d] /\ idx'[d] = idx[d] /\ failed'[d] = failed[d]
                     /\ emitted'[d] = emitted[d] /\ exit'[d] = exit[d]
<1> d # Nobody
  BY CutConstants
<1> USE PlanFacts DEF TypeOK, Goto, Exits, Error
<1>1. CASE Check(c)      BY <1>1 DEF Check
<1>2. CASE Unreadable(c) BY <1>2 DEF Unreadable
<1>3. CASE Preflight(c)  BY <1>3 DEF Preflight
<1>4. CASE Publish(c)    BY <1>4 DEF Publish
<1>5. CASE ClipFails(c)  BY <1>5 DEF ClipFails
<1>6. CASE Verify(c)     BY <1>6 DEF Verify
<1>7. CASE Store(c)      BY <1>7 DEF Store
<1>8. CASE Write(c)      BY <1>8 DEF Write
<1>9. CASE StoreFails(c) BY <1>9 DEF StoreFails
<1>10. CASE Emit(c)      BY <1>10 DEF Emit
<1>11. CASE Kill(c)      BY <1>11 DEF Kill
<1> QED
  BY <1>1, <1>2, <1>3, <1>4, <1>5, <1>6, <1>7, <1>8, <1>9, <1>10, <1>11

(* A command's own steps keep what is said of it.                          *)
Own(c) == Progress(c) /\ Rendered(c) /\ Stored(c) /\ Promise(c)

LEMMA OwnStep ==
  ASSUME IInv, [Next]_vars, NEW c \in Commands,
         \/ Check(c) \/ Unreadable(c) \/ Preflight(c) \/ Publish(c) \/ ClipFails(c)
         \/ Verify(c) \/ Store(c) \/ Write(c) \/ StoreFails(c) \/ Emit(c) \/ Kill(c)
  PROVE  Own(c)'
<1> USE PlanFacts DEF IInv, TypeOK, Goto, Exits, Error, Own, Progress, Rendered, Stored, Promise
<1>1. CASE Check(c)      BY <1>1 DEF Check
<1>2. CASE Unreadable(c) BY <1>2 DEF Unreadable
<1>3. CASE Preflight(c)  BY <1>3 DEF Preflight
<1>4. CASE Publish(c)    BY <1>4, Kept DEF Publish
<1>5. CASE ClipFails(c)  BY <1>5 DEF ClipFails
<1>6. CASE Verify(c)
  <2>1. clips' = clips /\ phase'[c] = "store" /\ exit'[c] = 1
    BY <1>6 DEF Verify
  <2>2. ~failed'[c] => ~failed[c]
    BY <1>6 DEF Verify
  <2>3. ~failed[c] => \A k \in Clips : clips[k] = c
    BY <1>6 DEF Verify
  <2> QED BY <2>1, <2>2, <2>3
<1>7. CASE Store(c)      BY <1>7 DEF Store
<1>8. CASE Write(c)      BY <1>8 DEF Write
<1>9. CASE StoreFails(c) BY <1>9 DEF StoreFails
<1>10. CASE Emit(c)      BY <1>10 DEF Emit
<1>11. CASE Kill(c)      BY <1>11 DEF Kill
<1> QED
  BY <1>1, <1>2, <1>3, <1>4, <1>5, <1>6, <1>7, <1>8, <1>9, <1>10, <1>11

LEMMA IInvStep ==
  ASSUME IInv, [Next]_vars
  PROVE  IInv'
<1>1. TypeOK'
  BY TypeStep DEF IInv
<1>2. CASE UNCHANGED vars
  BY <1>2 DEF vars, IInv, TypeOK, Progress, Rendered, Stored, Promise
<1>3. ASSUME NEW c \in Commands,
         \/ Check(c) \/ Unreadable(c) \/ Preflight(c) \/ Publish(c) \/ ClipFails(c)
         \/ Verify(c) \/ Store(c) \/ Write(c) \/ StoreFails(c) \/ Emit(c) \/ Kill(c)
      PROVE IInv'
  <2>1. Own(c)'
    BY <1>3, OwnStep
  <2>2. ASSUME NEW d \in Commands, d # c PROVE Own(d)'
    <3>1. Own(d)
      BY DEF IInv, Own
    <3>2. TypeOK /\ d # Nobody
      BY CutConstants DEF IInv
    <3> QED
      BY <1>3, <2>2, <3>1, <3>2, Kept, PlanFacts DEF Own, Progress, Rendered, Stored, Promise
  <2> QED BY <1>1, <2>1, <2>2 DEF IInv, Own
<1> QED BY <1>2, <1>3 DEF Next

(* Exit code 0 keeps its promise against every concurrent command, kill    *)
(* and failure.                                                            *)
THEOREM ExitZeroHolds == Spec => []ExitZeroIsComplete
<1>1. IInv /\ [Next]_vars => IInv'
  BY IInvStep
<1>2. IInv => ExitZeroIsComplete
  BY DEF IInv, TypeOK, Promise, ExitZeroIsComplete, Made
<1> QED BY IInvInit, <1>1, <1>2, PTL DEF Spec
=============================================================================
