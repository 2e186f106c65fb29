------------------------- MODULE ProcessRunnerProofs -------------------------
(* Proofs about ProcessRunner, for pipes and reads of any size, and any    *)
(* amount of output.                                                       *)
EXTENDS ProcessRunner, TLAPS

(* No block is lost or invented between a write and the capture.           *)
Conservation == \A s \in Streams : captured[s] + buf[s] + pipe[s] = written[s]

(* A reader ends at the end of file, or because run closed its stream.     *)
EndOfFile ==
  \A s \in Streams : reader[s] = "finished" /\ s \notin closed =>
    ~Open /\ pipe[s] = 0 /\ buf[s] = 0

After == {"join", "alive?", "close", "done"}
Control ==
  /\ (pc = "start") => (child = "none" /\ heir = FALSE)
  /\ pc \in {"cancelled?", "expired?", "poll", "wait_terminated", "wait_killed"} =>
       child # "none" /\ status # "completed"
  /\ pc \in After => (child = "none" /\ pc = "done" /\ status # "completed")
                     \/ (child \in ExitCodes /\ rc = child)
  /\ closed # {} => pc \in {"close", "done"}
  /\ status = "completed" => rc = "zero"
  /\ pc = "done" /\ status = "completed" =>
       closed = {} /\ \A s \in Streams : reader[s] = "finished"
  /\ pc = "start" => status = "none"

IInv == TypeOK /\ Conservation /\ EndOfFile /\ Control

LEMMA IInvInit == Init => IInv
<1> SUFFICES ASSUME Init PROVE IInv
  OBVIOUS
<1>1. cancelled \in BOOLEAN
  <2>1. Cancellable \in BOOLEAN
    BY RunnerConstants, Zenon
  <2> QED BY <2>1, Zenon DEF Init
<1>2. expired \in BOOLEAN /\ heir \in BOOLEAN
  BY Zenon DEF Init
<1>3. TypeOK
  BY <1>1, <1>2, RunnerConstants DEF Init, TypeOK, Controls, ReaderStates, ExitCodes
<1>4. Conservation /\ EndOfFile /\ Control
  BY DEF Init, Conservation, EndOfFile, Control, After
<1> QED BY <1>3, <1>4 DEF IInv

LEMMA HeirType ==
  ASSUME NEW code, Exits(code)
  PROVE  heir' \in BOOLEAN
<1>1. MayInherit \in BOOLEAN
  BY RunnerConstants, Zenon
<1> QED BY <1>1, Zenon DEF Exits

LEMMA TypeStep ==
  ASSUME TypeOK, [Next]_vars
  PROVE  TypeOK'
<1> USE DEF TypeOK, Controls, ReaderStates, ExitCodes, control, process, drain
<1>1. CASE StartCancelled   BY <1>1 DEF StartCancelled, Return
<1>2. CASE LaunchFails      BY <1>2 DEF LaunchFails, Return
<1>3. CASE Launch           BY <1>3 DEF Launch
<1>4. CASE CheckCancelled   BY <1>4 DEF CheckCancelled, Moves
<1>5. CASE CheckExpired     BY <1>5 DEF CheckExpired, Moves
<1>6. CASE Poll             BY <1>6 DEF Poll, Moves, Reap
<1>7. CASE Terminated       BY <1>7 DEF Terminated, Moves, Reap
<1>8. CASE Killed           BY <1>8 DEF Killed, Reap
<1>9. CASE Join             BY <1>9, RunnerConstants DEF Join, NextStream
<1>10. CASE CheckAlive      BY <1>10 DEF CheckAlive, Return, Moves
<1>11. CASE Close           BY <1>11, RunnerConstants DEF Close, NextStream
<1>12. ASSUME NEW s \in Streams, Reader(s) PROVE TypeOK'
  <2>1. CASE StartRead(s)   BY <2>1 DEF StartRead
  <2>2. CASE Receive(s)     BY <2>2 DEF Receive
  <2>3. CASE EndRead(s)     BY <2>3 DEF EndRead
  <2> QED BY <1>12, <2>1, <2>2, <2>3 DEF Reader
<1>13. ASSUME NEW s \in Streams, Write(s) PROVE TypeOK'
  BY <1>13 DEF Write
<1>14. ASSUME NEW code \in ExitCodes, Exits(code) PROVE TypeOK'
  <2>1. heir' \in BOOLEAN      BY <1>14, HeirType
  <2> QED BY <1>14, <2>1 DEF Exits
<1>15. CASE Exit \/ Dies     BY <1>14, <1>15 DEF Exit, Dies
<1>16. CASE HeirExits
  <2>1. heir' \in BOOLEAN      BY <1>16, Zenon DEF HeirExits
  <2> QED BY <1>16, <2>1 DEF HeirExits
<1>17. CASE Cancel          BY <1>17 DEF Cancel
<1>18. CASE Expire          BY <1>18 DEF Expire
<1>19. CASE UNCHANGED vars  BY <1>19 DEF vars
<1> QED
  BY <1>1, <1>2, <1>3, <1>4, <1>5, <1>6, <1>7, <1>8, <1>9, <1>10, <1>11, <1>12, <1>13,
     <1>14, <1>15, <1>16, <1>17, <1>18, <1>19 DEF Next, Runner

LEMMA IInvStep ==
  ASSUME IInv, [Next]_vars
  PROVE  IInv'
<1>0. TypeOK'
  BY TypeStep DEF IInv
<1> USE DEF IInv, Conservation, EndOfFile, Control, After, Open, control, process, drain
<1>1. CASE StartCancelled
  BY <1>0, <1>1 DEF StartCancelled, Return
<1>2. CASE LaunchFails
  BY <1>0, <1>2 DEF LaunchFails, Return
<1>3. CASE Launch
  BY <1>0, <1>3 DEF Launch, TypeOK
<1>4. CASE CheckCancelled
  BY <1>0, <1>4 DEF CheckCancelled, Moves, TypeOK
<1>5. CASE CheckExpired
  BY <1>0, <1>5 DEF CheckExpired, Moves
<1>6. CASE Poll
  BY <1>0, <1>6 DEF Poll, Moves, Reap, TypeOK, ExitCodes
<1>7. CASE Terminated
  BY <1>0, <1>7 DEF Terminated, Moves, Reap, TypeOK, ExitCodes
<1>8. CASE Killed
  BY <1>0, <1>8 DEF Killed, Reap, TypeOK, ExitCodes
<1>9. CASE Join
  BY <1>0, <1>9 DEF Join, NextStream
<1>10. CASE CheckAlive
  BY <1>0, <1>10 DEF CheckAlive, Return, Moves, Finished
<1>11. CASE Close
  BY <1>0, <1>11 DEF Close, NextStream, TypeOK
<1>12. ASSUME NEW s \in Streams, Reader(s) PROVE IInv'
  <2>1. CASE StartRead(s)
    BY <1>0, <2>1 DEF StartRead, TypeOK
  <2>2. CASE Receive(s)
    BY <1>0, <2>2 DEF Receive, TypeOK
  <2>3. CASE EndRead(s)
    <3>1. Conservation'
      <4> SUFFICES ASSUME NEW t \in Streams
                   PROVE  captured'[t] + buf'[t] + pipe'[t] = written'[t]
        OBVIOUS
      <4>1. captured[t] \in Nat /\ buf[t] \in Nat /\ pipe[t] \in Nat /\ written[t] \in Nat
        BY DEF TypeOK
      <4>2. captured'[t] + buf'[t] = captured[t] + buf[t]
        BY <2>3, <4>1 DEF EndRead, TypeOK
      <4>3. pipe' = pipe /\ written' = written
        BY <2>3 DEF EndRead
      <4> QED BY <4>1, <4>2, <4>3
    <3>2. EndOfFile'
      BY <2>3, RunnerConstants DEF EndRead, TypeOK
    <3>3. Control'
      BY <2>3 DEF EndRead, TypeOK
    <3> QED BY <1>0, <3>1, <3>2, <3>3
  <2> QED BY <1>12, <2>1, <2>2, <2>3 DEF Reader
<1>13. ASSUME NEW s \in Streams, Write(s) PROVE IInv'
  BY <1>0, <1>13 DEF Write, TypeOK
<1>14. CASE Exit
  BY <1>0, <1>14 DEF Exit, Exits, ExitCodes
<1>15. CASE Dies
  BY <1>0, <1>15 DEF Dies, Exits, ExitCodes
<1>16. CASE HeirExits
  BY <1>0, <1>16 DEF HeirExits
<1>17. CASE Cancel
  BY <1>0, <1>17 DEF Cancel
<1>18. CASE Expire
  BY <1>0, <1>18 DEF Expire
<1>19. CASE UNCHANGED vars
  BY <1>0, <1>19 DEF vars
<1> QED
  BY <1>1, <1>2, <1>3, <1>4, <1>5, <1>6, <1>7, <1>8, <1>9, <1>10, <1>11, <1>12, <1>13,
     <1>14, <1>15, <1>16, <1>17, <1>18, <1>19 DEF Next, Runner

LEMMA Invariance == Spec => []IInv
<1>1. IInv /\ [Next]_vars => IInv'
  BY IInvStep
<1> QED
  BY IInvInit, <1>1, PTL DEF Spec

(* A completed outcome is the whole truth about the child and its output,  *)
(* although any join may have given up and reads are cut anywhere.         *)
THEOREM CompletedOutcome == Spec => []CompletedIsWhole
<1>1. IInv => CompletedIsWhole
  <2> SUFFICES ASSUME IInv, pc = "done", status = "completed"
               PROVE  rc = "zero" /\ ~Open /\ \A s \in Streams : captured[s] = written[s]
    BY DEF CompletedIsWhole
  <2>1. rc = "zero" /\ closed = {} /\ \A s \in Streams : reader[s] = "finished"
    BY DEF IInv, Control
  <2>2. ~Open /\ \A s \in Streams : pipe[s] = 0 /\ buf[s] = 0
    BY <2>1, RunnerConstants DEF IInv, EndOfFile
  <2>3. \A s \in Streams : captured[s] = written[s]
    <3> SUFFICES ASSUME NEW s \in Streams PROVE captured[s] = written[s]
      OBVIOUS
    <3>1. captured[s] \in Nat /\ captured[s] + buf[s] + pipe[s] = written[s]
      BY DEF IInv, TypeOK, Conservation
    <3> QED BY <2>2, <3>1
  <2> QED BY <2>1, <2>2, <2>3
<1> QED BY <1>1, Invariance, PTL

(* Whatever the outcome, the child has exited and has been waited for.     *)
THEOREM ChildHasExited == Spec => []ChildIsReaped
<1>1. IInv => ChildIsReaped
  BY DEF IInv, Control, After, ChildIsReaped, ExitCodes
<1> QED BY <1>1, Invariance, PTL

(* The variables keep their types.                                         *)
THEOREM RunnerTypes == Spec => []TypeOK
BY Invariance, PTL DEF IInv
=============================================================================
