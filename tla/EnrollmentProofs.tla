-------------------------- MODULE EnrollmentProofs --------------------------
(***************************************************************************)
(* What Enrollment promises for any processes, dialogs and rules, any      *)
(* number of checks, and whatever other programs do to the file.           *)
(*                                                                         *)
(* WaitForEnrollment counts the polls that agree, and forgets them when    *)
(* one does not.  The invariant says that its count is never more than the *)
(* number of polls in a row that found what it is about to enroll.  For    *)
(* the file it says which steps can meet which version of it.              *)
(***************************************************************************)
EXTENDS Enrollment, FiniteSetTheorems, TLAPS

-----------------------------------------------------------------------------
(* The inductive invariant *)

Files == [inode : 0 .. MaxWrites + 2, rules : SUBSET Rules,
          whole : BOOLEAN, ours : BOOLEAN]

Types ==
  /\ unborn \subseteq Procs /\ alive \subseteq Procs
  /\ dialog \in Dialogs \cup {NoDialog}
  /\ mode \in {"append", "output", "print"}
  /\ pc \in {"load", "first_list", "first_read", "wait", "list", "read",
             "final_list", "final_read", "recheck", "write_temp", "rename",
             "create", "write", "done", "dead"}
  /\ listed \subseteq Procs /\ seen \subseteq Dialogs
  /\ candidate \in Procs \cup {NoProc} /\ stable \in Dialogs \cup {NoDialog}
  /\ count \in 0 .. StableChecks /\ steady \in 0 .. StableChecks
  /\ outcome \in {"none", "ok", "failed"}
  /\ (count = 0) <=> (stable = NoDialog)

Flags == /\ empty \in BOOLEAN /\ temp \in BOOLEAN
         /\ raced \in BOOLEAN /\ stuck \in BOOLEAN

\* The bounds on what is written: the enrollment writes once, at its end.
Written ==
  /\ file \in Files /\ loaded \in Files
  /\ writes \in 0 .. MaxWrites + 1
  /\ pc \notin {"write", "done", "dead"} => writes <= MaxWrites

Waiting == {"wait", "list", "read"}
Final == {"final_list", "final_read"}

\* The polls that the count stands for.
Counted ==
  /\ pc \in {"load", "first_list", "first_read"} => count = 0
  /\ pc \in Waiting => count < StableChecks
  /\ pc \in Final => count = StableChecks
  /\ pc \in Waiting \cup Final /\ stable # NoDialog =>
       candidate \in Procs /\ last = <<candidate, stable>> /\ count <= steady
  /\ pc \in {"load", "first_list", "first_read"} \cup Waiting \cup Final =>
       enrolled = NoRule
  /\ enrolled # NoRule => enrolled = last /\ steady = StableChecks

\* Which file each step can meet.
Met ==
  /\ temp => pc \in {"rename", "dead"} \/ (pc = "done" /\ stuck)
  /\ stuck => pc = "done" /\ outcome = "failed"
  /\ file.ours => pc \in {"write", "done", "dead"}
  /\ mode = "output" => loaded.rules = {}
  /\ pc \in {"create", "write"} => mode = "output"
  /\ pc \in {"write_temp", "rename"} /\ ~raced => file = loaded
  /\ pc = "write" /\ ~raced => file.ours
  /\ mode = "append" => Complete
  /\ pc = "done" /\ ~stuck => Complete

IInv == Types /\ Flags /\ Written /\ Counted /\ Met

-----------------------------------------------------------------------------
(* The file *)

\* No file, as a record.
LEMMA NoFileTyped ==
  ASSUME EnrollmentAssumption
  PROVE  /\ NoFile \in Files
         /\ NoFile.inode = 0 /\ NoFile.rules = {} /\ ~NoFile.ours
<1>1. 0 \in 0 .. MaxWrites + 2
  BY DEF EnrollmentAssumption
<1> QED
  BY <1>1 DEF NoFile, Files

\* A file that is there at the start.
LEMMA DraftTyped ==
  ASSUME EnrollmentAssumption, NEW r \in SUBSET Rules,
         NEW f, f = [NoFile EXCEPT !.rules = r, !.inode = 1]
  PROVE  f \in Files /\ ~f.ours
<1> DEFINE g(w, o) == [inode |-> 1, rules |-> r, whole |-> w, ours |-> o]
<1>1. 1 \in 0 .. MaxWrites + 2
  BY DEF EnrollmentAssumption
<1>2. f = [inode |-> 1, rules |-> r, whole |-> TRUE, ours |-> FALSE]
  BY DEF NoFile
<1>3. \A w \in BOOLEAN, o \in BOOLEAN : g(w, o) \in Files
  BY <1>1 DEF Files
<1>4. ~g(TRUE, FALSE).ours
  OBVIOUS
<1>5. f = g(TRUE, FALSE)
  BY <1>2
<1>6. g(TRUE, FALSE) \in Files
  BY <1>3
<1> QED
  BY <1>4, <1>5, <1>6

\* A file that is written within the bound.
LEMMA FileTyped ==
  ASSUME EnrollmentAssumption, writes \in 0 .. MaxWrites + 1, writes <= MaxWrites,
         NEW r \in SUBSET Rules, NEW w \in BOOLEAN, NEW o \in BOOLEAN
  PROVE  File(r, w, o) \in Files
<1>1. writes + 2 \in 0 .. MaxWrites + 2
  BY DEF EnrollmentAssumption
<1> QED
  BY <1>1 DEF File, Files

\* What the last step writes into the file that was created.
LEMMA Filled ==
  ASSUME EnrollmentAssumption, NEW f \in Files,
         NEW g, g = [f EXCEPT !.rules = {Name}, !.whole = TRUE]
  PROVE  g \in Files /\ g.ours = f.ours /\ g.whole /\ g.rules = {Name}
  BY DEF Files, EnrollmentAssumption

\* The types, and the count that is zero without a dialog.
LEMMA KeepsTypes ==
  ASSUME EnrollmentAssumption, Types, Counted, Next
  PROVE  Types'
<1> USE DEF EnrollmentAssumption, Types, Counted, Waiting, Final, world,
         observation, policy
<1>1. CASE Load
  BY <1>1 DEF Load, Goto, Ends
<1>2. CASE FirstList
  BY <1>2 DEF FirstList, Goto, Ends
<1>3. CASE FirstRead
  BY <1>3 DEF FirstRead, Goto, Ends
<1>4. CASE Tick
  BY <1>4 DEF Tick, Goto
<1>5. CASE List
  BY <1>5 DEF List, Lists, Goto, Ends
<1>6. CASE Read
  BY <1>6 DEF Read, Found, Count, Eligible, StartOver, Observe, Goto, Ends
<1>7. CASE FinalList
  BY <1>7 DEF FinalList, Goto, Ends
<1>8. CASE FinalRead
  BY <1>8 DEF FinalRead, Eligible, Goto, Ends
<1>9. CASE Recheck
  BY <1>9 DEF Recheck, Goto, Ends
<1>10. CASE WriteTemp
  BY <1>10 DEF WriteTemp, DropTemp, Goto, Ends
<1>11. CASE RenameTemp
  BY <1>11 DEF RenameTemp, DropTemp, File, Goto, Ends
<1>12. CASE Create
  BY <1>12 DEF Create, File, NoFile, Goto, Ends
<1>13. CASE Write
  BY <1>13 DEF Write, WholePolicy, NoFile, Goto, Ends
<1>14. CASE Timeout
  BY <1>14 DEF Timeout, Ends
<1>15. CASE Kill
  BY <1>15 DEF Kill, Goto
<1>16. ASSUME NEW p \in Procs, Launch(p)
      PROVE  Types'
  BY <1>16 DEF Launch, WorldChanges
<1>17. ASSUME NEW p \in Procs, Exit(p)
      PROVE  Types'
  BY <1>17 DEF Exit, WorldChanges
<1>18. ASSUME NEW d \in Dialogs \cup {NoDialog}, NEW e \in BOOLEAN,
             DialogChanges(d, e)
      PROVE  Types'
  BY <1>18 DEF DialogChanges, WorldChanges
<1>19. ASSUME NEW r \in SUBSET Rules, OthersWrite(r)
      PROVE  Types'
  BY <1>19 DEF OthersWrite, File, Overtaking
<1>20. CASE OthersRemove
  BY <1>20 DEF OthersRemove, NoFile, Overtaking
<1> QED
  BY <1>1, <1>2, <1>3, <1>4, <1>5, <1>6, <1>7, <1>8, <1>9, <1>10, <1>11, <1>12,
     <1>13, <1>14, <1>15, <1>16, <1>17, <1>18, <1>19, <1>20
     DEF Next, Enroll

\* The Booleans.
LEMMA KeepsFlags ==
  ASSUME Flags, Next
  PROVE  Flags'
<1> USE DEF Flags, world, observation, policy
<1>1. CASE Load
  BY <1>1 DEF Load, Goto, Ends
<1>2. CASE FirstList
  BY <1>2 DEF FirstList, Goto, Ends
<1>3. CASE FirstRead
  BY <1>3 DEF FirstRead, Goto, Ends
<1>4. CASE Tick
  BY <1>4 DEF Tick, Goto
<1>5. CASE List
  BY <1>5 DEF List, Lists, Goto, Ends
<1>6. CASE Read
  BY <1>6 DEF Read, Found, Count, Eligible, StartOver, Observe, Goto, Ends
<1>7. CASE FinalList
  BY <1>7 DEF FinalList, Goto, Ends
<1>8. CASE FinalRead
  BY <1>8 DEF FinalRead, Eligible, Goto, Ends
<1>9. CASE Recheck
  BY <1>9 DEF Recheck, Goto, Ends
<1>10. CASE WriteTemp
  BY <1>10 DEF WriteTemp, DropTemp, Goto, Ends
<1>11. CASE RenameTemp
  BY <1>11 DEF RenameTemp, DropTemp, File, Goto, Ends
<1>12. CASE Create
  BY <1>12 DEF Create, File, NoFile, Goto, Ends
<1>13. CASE Write
  BY <1>13 DEF Write, WholePolicy, NoFile, Goto, Ends
<1>14. CASE Timeout
  BY <1>14 DEF Timeout, Ends
<1>15. CASE Kill
  BY <1>15 DEF Kill, Goto
<1>16. ASSUME NEW p \in Procs, Launch(p)
      PROVE  Flags'
  BY <1>16 DEF Launch, WorldChanges
<1>17. ASSUME NEW p \in Procs, Exit(p)
      PROVE  Flags'
  BY <1>17 DEF Exit, WorldChanges
<1>18. ASSUME NEW d \in Dialogs \cup {NoDialog}, NEW e \in BOOLEAN,
             DialogChanges(d, e)
      PROVE  Flags'
  BY <1>18 DEF DialogChanges, WorldChanges
<1>19. ASSUME NEW r \in SUBSET Rules, OthersWrite(r)
      PROVE  Flags'
  BY <1>19 DEF OthersWrite, File, Overtaking
<1>20. CASE OthersRemove
  BY <1>20 DEF OthersRemove, NoFile, Overtaking
<1> QED
  BY <1>1, <1>2, <1>3, <1>4, <1>5, <1>6, <1>7, <1>8, <1>9, <1>10, <1>11, <1>12,
     <1>13, <1>14, <1>15, <1>16, <1>17, <1>18, <1>19, <1>20
     DEF Next, Enroll

\* The files, and the bound on their number.
LEMMA KeepsWritten ==
  ASSUME EnrollmentAssumption, Types, Flags, Written, Next
  PROVE  Written'
<1> USE DEF EnrollmentAssumption, Types, Flags, Written, Files, world,
         observation, policy
<1>1. CASE Load
  BY <1>1 DEF Load, Goto, Ends
<1>2. CASE FirstList
  BY <1>2 DEF FirstList, Goto, Ends
<1>3. CASE FirstRead
  BY <1>3 DEF FirstRead, Goto, Ends
<1>4. CASE Tick
  BY <1>4 DEF Tick, Goto
<1>5. CASE List
  BY <1>5 DEF List, Lists, Goto, Ends
<1>6. CASE Read
  BY <1>6 DEF Read, Found, Count, Eligible, StartOver, Observe, Goto, Ends
<1>7. CASE FinalList
  BY <1>7 DEF FinalList, Goto, Ends
<1>8. CASE FinalRead
  BY <1>8 DEF FinalRead, Eligible, Goto, Ends
<1>9. CASE Recheck
  BY <1>9 DEF Recheck, Goto, Ends
<1>10. CASE WriteTemp
  BY <1>10 DEF WriteTemp, DropTemp, Goto, Ends
<1>11. CASE RenameTemp
  <2>1. pc = "rename" /\ writes <= MaxWrites /\ loaded' = loaded
    BY <1>11 DEF RenameTemp
  <2>2. /\ writes' \in {writes, writes + 1} /\ pc' = "done"
        /\ file' \in {file, File(loaded.rules \cup {Name}, TRUE, TRUE)}
    BY <1>11 DEF RenameTemp, Ends
  <2>3. loaded.rules \cup {Name} \in SUBSET Rules
    OBVIOUS
  <2>4. File(loaded.rules \cup {Name}, TRUE, TRUE) \in Files
    BY <2>1, <2>3, FileTyped DEF Written
  <2>5. writes' \in 0 .. MaxWrites + 1
    BY <2>1, <2>2
  <2> QED
    BY <2>1, <2>2, <2>4, <2>5
<1>12. CASE Create
  <2>1. pc = "create" /\ writes <= MaxWrites /\ loaded' = loaded
    BY <1>12 DEF Create
  <2>2. /\ writes' \in {writes, writes + 1}
        /\ pc' \in {"write", "done"}
        /\ file' \in {file, File({}, FALSE, TRUE)}
    BY <1>12 DEF Create, Goto, Ends
  <2>3. File({}, FALSE, TRUE) \in Files
    BY <2>1, FileTyped DEF Written
  <2>4. writes' \in 0 .. MaxWrites + 1
    BY <2>1, <2>2
  <2> QED
    BY <2>1, <2>2, <2>3, <2>4
<1>13. CASE Write
  <2>1. file' \in Files
    BY <1>13, NoFileTyped, Filled DEF Write, WholePolicy
  <2> QED
    BY <1>13, <2>1 DEF Write, Ends
<1>14. CASE Timeout
  BY <1>14 DEF Timeout, Ends
<1>15. CASE Kill
  BY <1>15 DEF Kill, Goto
<1>16. ASSUME NEW p \in Procs, Launch(p)
      PROVE  Written'
  BY <1>16 DEF Launch, WorldChanges
<1>17. ASSUME NEW p \in Procs, Exit(p)
      PROVE  Written'
  BY <1>17 DEF Exit, WorldChanges
<1>18. ASSUME NEW d \in Dialogs \cup {NoDialog}, NEW e \in BOOLEAN,
             DialogChanges(d, e)
      PROVE  Written'
  BY <1>18 DEF DialogChanges, WorldChanges
<1>19. ASSUME NEW r \in SUBSET Rules, OthersWrite(r)
      PROVE  Written'
  BY <1>19 DEF OthersWrite, File, Overtaking
<1>20. CASE OthersRemove
  BY <1>20 DEF OthersRemove, NoFile, Overtaking
<1> QED
  BY <1>1, <1>2, <1>3, <1>4, <1>5, <1>6, <1>7, <1>8, <1>9, <1>10, <1>11, <1>12,
     <1>13, <1>14, <1>15, <1>16, <1>17, <1>18, <1>19, <1>20
     DEF Next, Enroll

\* The count and the polls that it stands for.
LEMMA KeepsCounted ==
  ASSUME EnrollmentAssumption, Types, Counted, Next
  PROVE  Counted'
<1> USE DEF EnrollmentAssumption, Types, Counted, Waiting, Final, world,
         observation, policy
<1>1. CASE Load
  BY <1>1 DEF Load, Goto, Ends
<1>2. CASE FirstList
  BY <1>2 DEF FirstList, Goto, Ends
<1>3. CASE FirstRead
  BY <1>3 DEF FirstRead, Goto, Ends
<1>4. CASE Tick
  BY <1>4 DEF Tick, Goto
<1>5. CASE List
  BY <1>5 DEF List, Lists, Goto, Ends
<1>6. CASE Read
  <2>1. /\ pc = "read" /\ enrolled' = enrolled /\ enrolled = NoRule
        /\ Observe
    BY <1>6 DEF Read
  <2>2. CASE Ends("failed")
    BY <2>1, <2>2 DEF Ends
  <2>3. CASE StartOver
    BY <2>1, <2>3 DEF StartOver, Goto
  <2>4. ASSUME NEW p \in Procs, listed = {p}, candidate' = p, Eligible,
               Count(p, IF p = candidate THEN count ELSE 0)
        PROVE  Counted'
    <3>1. Cardinality(listed) = 1 /\ (CHOOSE q \in listed : TRUE) = p
      BY <2>4, FS_Singleton
    <3>2. /\ last' = <<p, dialog>> /\ <<p, dialog>> # NoRule
          /\ dialog \in Dialogs
          /\ steady' = IF <<p, dialog>> # last THEN 1
                       ELSE IF steady < StableChecks THEN steady + 1
                       ELSE steady
      BY <2>1, <2>4, <3>1 DEF Observe, Eligible, NoRule
    <3>3. stable' = dialog /\ stable' # NoDialog
      BY <2>4, <3>2 DEF Count
    <3>4. count' \in 1 .. StableChecks /\ count' <= steady'
      <4>1. CASE p = candidate /\ count # 0 /\ stable = dialog
        <5>1. count' = count + 1 /\ last = <<p, dialog>> /\ count <= steady
          BY <2>1, <2>4, <3>2, <4>1 DEF Count
        <5> QED
          BY <2>1, <3>2, <5>1
      <4>2. CASE ~(p = candidate /\ count # 0 /\ stable = dialog)
        <5>1. count' = 1
          BY <2>4, <4>2 DEF Count
        <5> QED
          BY <3>2, <5>1
      <4> QED
        BY <4>1, <4>2
    <3>5. pc' = IF count' < StableChecks THEN "wait" ELSE "final_list"
      BY <2>4 DEF Count, Goto
    <3> QED
      BY <2>1, <2>4, <3>2, <3>3, <3>4, <3>5
  <2> QED
    BY <1>6, <2>2, <2>3, <2>4 DEF Read, Found
<1>7. CASE FinalList
  BY <1>7 DEF FinalList, Goto, Ends
<1>8. CASE FinalRead
  BY <1>8 DEF FinalRead, Eligible, Goto, Ends
<1>9. CASE Recheck
  BY <1>9 DEF Recheck, Goto, Ends
<1>10. CASE WriteTemp
  BY <1>10 DEF WriteTemp, DropTemp, Goto, Ends
<1>11. CASE RenameTemp
  BY <1>11 DEF RenameTemp, DropTemp, File, Goto, Ends
<1>12. CASE Create
  BY <1>12 DEF Create, File, NoFile, Goto, Ends
<1>13. CASE Write
  BY <1>13 DEF Write, WholePolicy, NoFile, Goto, Ends
<1>14. CASE Timeout
  BY <1>14 DEF Timeout, Ends
<1>15. CASE Kill
  BY <1>15 DEF Kill, Goto
<1>16. ASSUME NEW p \in Procs, Launch(p)
      PROVE  Counted'
  BY <1>16 DEF Launch, WorldChanges
<1>17. ASSUME NEW p \in Procs, Exit(p)
      PROVE  Counted'
  BY <1>17 DEF Exit, WorldChanges
<1>18. ASSUME NEW d \in Dialogs \cup {NoDialog}, NEW e \in BOOLEAN,
             DialogChanges(d, e)
      PROVE  Counted'
  BY <1>18 DEF DialogChanges, WorldChanges
<1>19. ASSUME NEW r \in SUBSET Rules, OthersWrite(r)
      PROVE  Counted'
  BY <1>19 DEF OthersWrite, File, Overtaking
<1>20. CASE OthersRemove
  BY <1>20 DEF OthersRemove, NoFile, Overtaking
<1> QED
  BY <1>1, <1>2, <1>3, <1>4, <1>5, <1>6, <1>7, <1>8, <1>9, <1>10, <1>11, <1>12,
     <1>13, <1>14, <1>15, <1>16, <1>17, <1>18, <1>19, <1>20
     DEF Next, Enroll

\* The file that each step meets.
LEMMA KeepsMet ==
  ASSUME EnrollmentAssumption, Types, Flags, Written, Met, Next
  PROVE  Met'
<1> USE DEF EnrollmentAssumption, Types, Flags, Written, Files, Met, Complete,
         world, observation, policy
<1>1. CASE Load
  <2>1. mode = "output" => loaded'.rules = {}
    BY <1>1, NoFileTyped DEF Load
  <2> QED
    BY <1>1, <2>1 DEF Load, Goto, Ends
<1>2. CASE FirstList
  BY <1>2 DEF FirstList, Goto, Ends
<1>3. CASE FirstRead
  BY <1>3 DEF FirstRead, Goto, Ends
<1>4. CASE Tick
  BY <1>4 DEF Tick, Goto
<1>5. CASE List
  BY <1>5 DEF List, Lists, Goto, Ends
<1>6. CASE Read
  BY <1>6 DEF Read, Found, Count, Eligible, StartOver, Observe, Goto, Ends
<1>7. CASE FinalList
  BY <1>7 DEF FinalList, Goto, Ends
<1>8. CASE FinalRead
  BY <1>8 DEF FinalRead, Eligible, Goto, Ends
<1>9. CASE Recheck
  BY <1>9 DEF Recheck, Goto, Ends
<1>10. CASE WriteTemp
  BY <1>10 DEF WriteTemp, DropTemp, Goto, Ends
<1>11. CASE RenameTemp
  BY <1>11 DEF RenameTemp, DropTemp, File, Goto, Ends
<1>12. CASE Create
  BY <1>12 DEF Create, File, NoFile, Goto, Ends
<1>13. CASE Write
  <2>1. \/ file' = NoFile
        \/ file' = file
        \/ file.ours => file'.whole /\ file'.rules = {Name}
    BY <1>13, Filled DEF Write, WholePolicy
  <2>2. ~stuck' => Complete'
    BY <1>13, <2>1, NoFileTyped, Filled DEF Write, WholePolicy
  <2>3. /\ mode = "output" /\ mode' = "output" /\ loaded' = loaded
        /\ ~temp /\ temp' = temp /\ pc' = "done"
    BY <1>13 DEF Write, Ends
  <2>4. stuck' => outcome' = "failed"
    BY <1>13 DEF Write, Ends
  <2> QED
    BY <2>2, <2>3, <2>4
<1>14. CASE Timeout
  BY <1>14 DEF Timeout, Ends
<1>15. CASE Kill
  BY <1>15 DEF Kill, Goto
<1>16. ASSUME NEW p \in Procs, Launch(p)
      PROVE  Met'
  BY <1>16 DEF Launch, WorldChanges
<1>17. ASSUME NEW p \in Procs, Exit(p)
      PROVE  Met'
  BY <1>17 DEF Exit, WorldChanges
<1>18. ASSUME NEW d \in Dialogs \cup {NoDialog}, NEW e \in BOOLEAN,
             DialogChanges(d, e)
      PROVE  Met'
  BY <1>18 DEF DialogChanges, WorldChanges
<1>19. ASSUME NEW r \in SUBSET Rules, OthersWrite(r)
      PROVE  Met'
  BY <1>19 DEF OthersWrite, File, Overtaking
<1>20. CASE OthersRemove
  BY <1>20 DEF OthersRemove, NoFile, Overtaking
<1> QED
  BY <1>1, <1>2, <1>3, <1>4, <1>5, <1>6, <1>7, <1>8, <1>9, <1>10, <1>11, <1>12,
     <1>13, <1>14, <1>15, <1>16, <1>17, <1>18, <1>19, <1>20
     DEF Next, Enroll

-----------------------------------------------------------------------------
(* The theorems *)

\* The start of the command satisfies the invariant.
LEMMA Beginning ==
  ASSUME EnrollmentAssumption, Init
  PROVE  IInv
<1>1. StableChecks \in Nat /\ MaxWrites \in Nat
  BY DEF EnrollmentAssumption
<1>2. /\ alive \subseteq Procs /\ unborn \subseteq Procs
      /\ dialog \in Dialogs \cup {NoDialog}
      /\ mode \in {"append", "output", "print"}
      /\ pc = "load" /\ outcome = "none"
      /\ listed = {} /\ seen = {} /\ candidate = NoProc
      /\ stable = NoDialog /\ count = 0 /\ steady = 0 /\ writes = 0
      /\ loaded = NoFile /\ enrolled = NoRule
  BY DEF Init
<1>3. Types
  BY <1>1, <1>2 DEF Types
<1>4. Flags /\ ~temp /\ ~stuck
  BY DEF Init, Flags
<1>5. file \in Files /\ ~file.ours
  BY NoFileTyped, DraftTyped DEF Init
<1>6. loaded \in Files /\ loaded.rules = {}
  BY <1>2, NoFileTyped
<1>7. Written
  BY <1>1, <1>2, <1>5, <1>6 DEF Written
<1>8. Counted
  BY <1>2 DEF Counted, Waiting, Final
<1>9. Met
  BY <1>2, <1>4, <1>5, <1>6 DEF Met, Complete
<1> QED
  BY <1>3, <1>4, <1>7, <1>8, <1>9 DEF IInv

\* A step of something else keeps it.
LEMMA Stutter ==
  ASSUME IInv, UNCHANGED vars
  PROVE  IInv'
<1> USE DEF IInv, vars, world, observation, policy
<1>1. Types'
  BY DEF Types
<1>2. Flags' /\ Written'
  BY DEF Flags, Written
<1>3. Counted'
  BY DEF Counted
<1>4. Met'
  BY DEF Met, Complete
<1> QED
  BY <1>1, <1>2, <1>3, <1>4

\* The strengthened invariant holds in every reachable state.
THEOREM Inductive == Spec => []IInv
<1>1. Init => IInv
  BY Beginning, EnrollmentAssumption
<1>2. ASSUME IInv, Next
      PROVE  IInv'
  BY <1>2, EnrollmentAssumption, KeepsTypes, KeepsFlags, KeepsWritten,
     KeepsCounted, KeepsMet DEF IInv
<1>3. IInv /\ [Next]_vars => IInv'
  BY <1>2, Stutter
<1> QED
  BY <1>1, <1>3, PTL DEF Spec

\* Every variable keeps its type.
THEOREM TypeCorrect == Spec => []TypeOK
<1>1. IInv => TypeOK
  BY DEF IInv, Types, Flags, Written, Files, TypeOK
<1> QED
  BY <1>1, Inductive, PTL

\* What is enrolled is what the last polls agree on (WaitForEnrollment).
THEOREM OneRequestEnrolled == Spec => []EnrolledIsOneRequest
<1>1. IInv => EnrolledIsOneRequest
  BY DEF IInv, Counted, EnrolledIsOneRequest
<1> QED
  BY <1>1, Inductive, PTL

\* A draft is at no moment replaced by less than all its rules and the new one
\* (replaceEnrollmentDraft), even if the command is killed.  A new policy is
\* written in place: it is whole, and no temporary file is left, when the command
\* has ended by itself and no removal of the clean-up failed (writeEnrollmentPolicy).
THEOREM FilesWhole == Spec => []FileIsWhole
<1>1. IInv => FileIsWhole
  BY DEF IInv, Met, Complete, FileIsWhole
<1> QED
  BY <1>1, Inductive, PTL

\* A step of the command that changes the file meets the one it loaded.
LEMMA OwnStepsSpare ==
  ASSUME IInv, Next, file.inode # 0, ~file.ours, ~raced,
         file # file', pc # pc'
  PROVE  file = loaded
<1>1. CASE RenameTemp
  BY <1>1 DEF IInv, Met, RenameTemp
<1>2. CASE Create
  BY <1>2, NoFileTyped, EnrollmentAssumption DEF IInv, Met, Types, Create
<1>3. CASE Write
  BY <1>3 DEF IInv, Met, Write
<1> QED
  BY <1>1, <1>2, <1>3
     DEF Next, Enroll, Load, FirstList, FirstRead, Tick, List, Read, FinalList,
         FinalRead, Recheck, WriteTemp, Timeout, Kill, Launch, Exit,
         DialogChanges, WorldChanges, OthersWrite, OthersRemove, policy

\* A step of the enrollment replaces only what it has read at the start, unless
\* another program overtakes it after the last check.
THEOREM OthersWorkSpared == Spec => OthersWorkSurvives
<1>1. IInv /\ [Next]_vars =>
        [file.inode # 0 /\ ~file.ours /\ ~raced /\ file # file' /\ pc # pc'
           => file = loaded]_vars
  BY OwnStepsSpare
<1> QED
  BY <1>1, Inductive, PTL DEF Spec, OthersWorkSurvives
-----------------------------------------------------------------------------
(* Why the command ends *)

\* How many steps the command has left, at most, if it waits once more at most.
Left(label) ==
  CASE label \in {"done", "dead"} -> 0
    [] label \in {"write", "rename"} -> 1
    [] label \in {"create", "write_temp"} -> 2
    [] label = "recheck" -> 3 [] label = "final_read" -> 4
    [] label = "final_list" -> 5 [] label = "wait" -> 6
    [] label = "read" -> 7 [] label \in {"list", "first_read"} -> 8
    [] label = "first_list" -> 9 [] label = "load" -> 10

\* The command goes forward with every step of its own but the start of a poll, it
\* is nowhere without a next step before its end, and nothing else moves it but a
\* kill.
CommandGoesForward ==
  [][/\ Enroll /\ pc # "wait" => Left(pc') < Left(pc)
     /\ pc' # pc => Left(pc') < Left(pc) \/ (pc = "wait" /\ pc' = "list")]_vars

\* Two driver calls after the start of a poll the command is past the wait or back
\* in it, where the select looks at the deadline: with the fairness of that select
\* the command ends (enroll.go:89-155, main.go:321-350).
THEOREM PollsAreFinite == Spec => CommandGoesForward
<1> DEFINE Forward ==
             /\ Enroll /\ pc # "wait" => Left(pc') < Left(pc)
             /\ pc' # pc => Left(pc') < Left(pc) \/ (pc = "wait" /\ pc' = "list")
<1>1. ASSUME Types, [Next]_vars PROVE Forward
  <2> USE DEF Goto, Ends, Left
  <2>1. CASE Load \/ FirstList \/ FirstRead \/ Tick \/ List
    BY <2>1 DEF Load, FirstList, FirstRead, Tick, List
  <2>2. CASE Read
    <3>1. pc = "read" /\ (pc' = "wait" \/ pc' = "final_list" \/ pc' = "done")
      BY <2>2 DEF Read, Found, Count, StartOver
    <3> HIDE DEF Left
    <3>2. Left("read") = 7 /\ Left("wait") = 6 /\ Left("final_list") = 5
          /\ Left("done") = 0
      BY DEF Left
    <3> QED
      BY <3>1, <3>2
  <2>3. CASE FinalList \/ FinalRead
    BY <2>3 DEF FinalList, FinalRead
  <2>4. CASE Recheck \/ WriteTemp \/ RenameTemp \/ Create \/ Write
    <3>1. \/ pc = "recheck" /\ pc' \in {"write_temp", "done"}
          \/ pc = "write_temp" /\ pc' \in {"rename", "done"}
          \/ pc \in {"rename", "write"} /\ pc' = "done"
          \/ pc = "create" /\ pc' \in {"write", "done"}
      BY <2>4 DEF Recheck, WriteTemp, RenameTemp, Create, Write
    <3> QED
      BY <3>1
  <2>5. ASSUME ~Enroll, UNCHANGED pc PROVE Forward
    BY <2>5
  <2>6. CASE Timeout
    BY <2>6 DEF Timeout, Enroll, Tick, Load, FirstList, FirstRead, List, Read,
       FinalList, FinalRead, Recheck, WriteTemp, RenameTemp, Create, Write
  <2>7. CASE Kill
    <3>1. pc # "dead" /\ Left(pc) > 0 /\ pc' = "dead"
      BY <1>1, <2>7 DEF Kill, Types
    <3>2. ~Enroll
      BY <3>1 DEF Enroll, Tick, Load, FirstList, FirstRead, List, Read, Found,
         Count, StartOver, FinalList, FinalRead, Recheck, WriteTemp, RenameTemp,
         Create, Write
    <3> QED
      BY <3>1, <3>2
  <2>8. CASE UNCHANGED pc
    BY <2>1, <2>2, <2>3, <2>4, <2>5, <2>8 DEF Enroll
  <2> QED
    BY <1>1, <2>1, <2>2, <2>3, <2>4, <2>6, <2>7, <2>8
       DEF Next, Enroll, Launch, Exit, DialogChanges, WorldChanges, OthersWrite,
           OthersRemove, vars
<1>2. IInv /\ [Next]_vars => [Forward]_vars
  BY <1>1 DEF IInv
<1> QED
  BY <1>2, Inductive, PTL DEF Spec, CommandGoesForward
=============================================================================
