---------------------- MODULE PackageTransactionProofs ----------------------
(***************************************************************************)
(* Theorems about PackageTransaction, for every set of names and archives. *)
(***************************************************************************)
EXTENDS PackageTransaction, TLAPS

\* Fields and membership of an operation, so that the steps below need not
\* open the two record sets.
LEMMA CallFields ==
    ASSUME NEW c \in Calls
    PROVE  /\ c # NoCall
           /\ c.name \in Names
           /\ c.kind \in {"install", "remove"}
           /\ c.kind = "install" => c.arch \in Archives
BY NoCallIsNoCall DEF Calls

\* A disk with one tree replaced is a disk, and the other trees are the same.
LEMMA PutTree ==
    ASSUME fs \in [Names -> [Places -> Trees]],
           op.name \in Names,
           NEW p \in Places, NEW tree \in Trees,
           Put(p, tree)
    PROVE  /\ fs' \in [Names -> [Places -> Trees]]
           /\ fs'[op.name][p] = tree
           /\ \A q \in Places : q # p => fs'[op.name][q] = fs[op.name][q]
           /\ \A n \in Names : n # op.name => fs'[n] = fs[n]
BY DEF Put

LEMMA MoveTree ==
    ASSUME fs \in [Names -> [Places -> Trees]],
           op.name \in Names,
           NEW from \in Places, NEW to \in Places, from # to,
           NEW left \in Trees,
           Move(from, to, left)
    PROVE  /\ fs' \in [Names -> [Places -> Trees]]
           /\ fs[op.name][from] # Absent /\ fs[op.name][to] = Absent
           /\ fs'[op.name][from] = left
           /\ fs'[op.name][to] = fs[op.name][from]
           /\ \A q \in Places : q # from /\ q # to => fs'[op.name][q] = fs[op.name][q]
           /\ \A n \in Names : n # op.name => fs'[n] = fs[n]
BY DEF Move, CanRename, At

\* What the calls that end a step may leave of the disk and the control state.
LEMMA DeleteTreeTypes ==
    ASSUME TypeOK, pc \notin {"idle", "torn"}, op' = op, reply' = reply,
           NEW p \in Places, NEW next \in LabelsOf(op.kind),
           NEW failed \in LabelsOf(op.kind), NEW status \in Statuses,
           DeleteTree(p, next, failed, status)
    PROVE  TypeOK'
<1>1. op.name \in Names
  BY CallFields DEF TypeOK
<1>2. fs' \in [Names -> [Places -> Trees]]
  <2>1. CASE Put(p, Damaged)
    BY <1>1, <2>1, PutTree DEF TypeOK, Trees
  <2>2. CASE Put(p, Absent)
    BY <1>1, <2>2, PutTree DEF TypeOK, Trees
  <2>3. CASE UNCHANGED fs
    BY <2>3 DEF TypeOK
  <2> QED BY <2>1, <2>2, <2>3 DEF DeleteTree
<1>3. LabelsOf(op.kind) \intersect {"idle", "torn"} = {}
  BY DEF LabelsOf, CommonLabels, InstallLabels
<1> QED BY <1>2, <1>3 DEF DeleteTree, TypeOK

LEMMA RemoveIfPresentTypes ==
    ASSUME TypeOK, pc \notin {"idle", "torn"}, op' = op, reply' = reply,
           NEW p \in Places, NEW next \in LabelsOf(op.kind),
           NEW failed \in LabelsOf(op.kind), NEW status \in Statuses,
           RemoveIfPresent(p, next, failed, status)
    PROVE  TypeOK'
<1>1. CASE Goto(next)
  BY <1>1 DEF Goto, TypeOK, LabelsOf, CommonLabels, InstallLabels
<1>2. CASE DeleteTree(p, next, failed, status)
  BY <1>2, DeleteTreeTypes
<1> QED BY <1>1, <1>2 DEF RemoveIfPresent

LEMMA MoveTypes ==
    ASSUME TypeOK, op.name \in Names,
           NEW from \in Places, NEW to \in Places, from # to,
           NEW left \in Trees, Move(from, to, left)
    PROVE  fs' \in [Names -> [Places -> Trees]]
BY MoveTree DEF TypeOK

\* Every step keeps the state well-typed, whichever calls may fail.
LEMMA StepTypes ==
    ASSUME TypeOK, pc \notin {"idle", "torn"}, Step
    PROVE  TypeOK'
<1>0. /\ op \in Calls /\ op.name \in Names
      /\ op.kind = "install" => op.arch \in Archives
  BY CallFields DEF TypeOK
<1> USE DEF LabelsOf, CommonLabels, InstallLabels, Statuses, Successes, Places, Trees
<1>1. CASE Prepare
  BY <1>0, <1>1 DEF Prepare, Goto, Fail, TypeOK
<1>2. CASE RecoverBackup
  <2>1. CASE Move("backup", "dest", Absent)
    <3>1. fs' \in [Names -> [Places -> Trees]]
      BY <1>0, <2>1, MoveTypes
    <3> QED BY <1>0, <1>2, <3>1 DEF RecoverBackup, Goto, Fail, TypeOK
  <2> QED BY <1>0, <1>2, <2>1 DEF RecoverBackup, Goto, Fail, TypeOK
<1>3. CASE RecoverDropBackup
  BY <1>3, RemoveIfPresentTypes DEF RecoverDropBackup
<1>4. CASE RecoverDropStaging
  BY <1>4, RemoveIfPresentTypes DEF RecoverDropStaging
<1>5. CASE Check
  BY <1>0, <1>5 DEF Check, Goto, Fail, TypeOK
<1>6. CASE Unpack
  <2>1. CASE Put("staging", Damaged)
    <3>1. fs' \in [Names -> [Places -> Trees]]
      BY <1>0, <2>1, PutTree DEF TypeOK
    <3> QED BY <1>0, <1>6, <3>1 DEF Unpack, Fail, TypeOK
  <2> QED BY <1>0, <1>6, <2>1 DEF Unpack, Fail, TypeOK
<1>7. CASE UnpackEnd
  <2>1. fs' \in [Names -> [Places -> Trees]]
    <3>1. ASSUME NEW tree \in Trees, Put("staging", tree)
          PROVE  fs' \in [Names -> [Places -> Trees]]
      BY <1>0, <3>1, PutTree DEF TypeOK
    <3>2. op.arch \in Trees /\ Damaged \in Trees
      BY <1>0, <1>7 DEF UnpackEnd, TypeOK
    <3> QED BY <1>0, <1>7, <3>1, <3>2 DEF UnpackEnd, Fail, TypeOK
  <2> QED BY <1>0, <1>7, <2>1 DEF UnpackEnd, Fail, TypeOK
<1>8. CASE SetAside
  <2>1. CASE Move("dest", "backup", Absent)
    <3>1. fs' \in [Names -> [Places -> Trees]]
      BY <1>0, <2>1, MoveTypes
    <3> QED BY <1>0, <1>8, <3>1 DEF SetAside, Goto, Fail, TypeOK
  <2> QED BY <1>0, <1>8, <2>1 DEF SetAside, Goto, Fail, TypeOK
<1>9. CASE Commit
  <2>1. ASSUME NEW nested \in BOOLEAN,
               Move("staging", "dest", IF nested THEN Damaged ELSE Absent)
        PROVE  fs' \in [Names -> [Places -> Trees]]
    BY <1>0, <2>1, MoveTypes
  <2>2. fs' \in [Names -> [Places -> Trees]]
    BY <1>9, <2>1 DEF Commit, Fail, TypeOK, RootIsNested
  <2> QED BY <1>0, <1>9, <2>2 DEF Commit, Fail, TypeOK
<1>10. CASE Rollback
  <2>1. CASE Move("backup", "dest", Absent)
    <3>1. fs' \in [Names -> [Places -> Trees]]
      BY <1>0, <2>1, MoveTypes
    <3> QED BY <1>0, <1>10, <3>1 DEF Rollback, Goto, TypeOK
  <2> QED BY <1>0, <1>10, <2>1 DEF Rollback, Goto, TypeOK
<1>11. CASE Abort
  <2>1. code \in Statuses /\ "return" \in LabelsOf(op.kind)
    BY DEF TypeOK
  <2> QED BY <1>11, <2>1, RemoveIfPresentTypes DEF Abort
<1>12. CASE CleanStaging
  <2>1. "clean_backup" \in LabelsOf(op.kind)
    BY <1>12 DEF CleanStaging, TypeOK
  <2> QED BY <1>12, <2>1, RemoveIfPresentTypes DEF CleanStaging
<1>13. CASE CleanBackup
  <2>1. CASE replaced
    BY <1>13, <2>1, RemoveIfPresentTypes DEF CleanBackup
  <2> QED BY <1>0, <1>13, <2>1 DEF CleanBackup, Goto, TypeOK
<1>14. CASE DeleteDestination
  BY <1>14, DeleteTreeTypes DEF DeleteDestination
<1>15. CASE Return
  BY <1>0, <1>15, NoCallIsNoCall DEF Return, Discard, TypeOK
<1> QED BY <1>1, <1>2, <1>3, <1>4, <1>5, <1>6, <1>7, <1>8, <1>9, <1>10,
           <1>11, <1>12, <1>13, <1>14, <1>15 DEF Step

\* A rename that stops half way leaves a second name for a tree.
LEMMA TornFacts ==
    ASSUME TypeOK, TornRename
    PROVE  /\ op \in Calls /\ op.name \in Names /\ pc # "torn" /\ pc' = "torn"
           /\ op' = NoCall /\ replaced' = FALSE /\ deleting' = FALSE
           /\ code' = "OK" /\ reply' = "none"
           /\ fs' \in [Names -> [Places -> Trees]]
           /\ \A n \in Names : n # op.name => fs'[n] = fs[n]
           /\ \/ /\ fs[op.name]["dest"] = Absent
                 /\ fs'[op.name]["backup"] = fs[op.name]["backup"]
                 /\ \/ fs'[op.name]["dest"] = fs[op.name]["backup"]
                    \/ pc = "commit" /\ fs'[op.name]["dest"] = fs[op.name]["staging"]
              \/ /\ pc = "set_aside" /\ fs[op.name]["dest"] \notin {Absent, File}
                 /\ fs'[op.name]["dest"] = fs[op.name]["dest"]
                 /\ fs'[op.name]["backup"] = fs[op.name]["dest"]
<1>1. /\ op \in Calls /\ op.name \in Names /\ pc # "torn" /\ pc' = "torn"
      /\ op' = NoCall /\ replaced' = FALSE /\ deleting' = FALSE
      /\ code' = "OK" /\ reply' = "none"
  BY CallFields DEF TypeOK, TornRename, Discard
<1>2. /\ fs[op.name]["dest"] \in Trees /\ fs[op.name]["backup"] \in Trees
      /\ fs[op.name]["staging"] \in Trees
  BY <1>1 DEF TypeOK, Places
<1> USE DEF Places
<1>3. CASE pc = "set_aside" /\ CanRename("dest", "backup")
           /\ TRUE \in DirectoryExists(At("dest")) /\ Put("backup", At("dest"))
  <2>1. fs[op.name]["dest"] \notin {Absent, File}
    BY <1>3 DEF CanRename, DirectoryExists, At
  <2> QED BY <1>1, <1>2, <1>3, <2>1, PutTree DEF TypeOK, At
<1>4. CASE pc \in {"recover", "rollback"} /\ CanRename("backup", "dest")
           /\ Put("dest", At("backup"))
  BY <1>1, <1>2, <1>4, PutTree DEF TypeOK, At, CanRename
<1>5. CASE pc = "commit" /\ CanRename("staging", "dest") /\ Put("dest", At("staging"))
  BY <1>1, <1>2, <1>5, PutTree DEF TypeOK, At, CanRename
<1> QED BY <1>3, <1>4, <1>5 DEF TornRename

LEMMA InitTypes == Init => TypeOK
BY NoCallIsNoCall DEF Init, TypeOK, LabelsOf, CommonLabels, Statuses, Successes

LEMMA NextTypes == TypeOK /\ [Next]_vars => TypeOK'
<1> SUFFICES ASSUME TypeOK, [Next]_vars PROVE TypeOK'
  OBVIOUS
<1>1. CASE UNCHANGED vars
  BY <1>1 DEF vars, TypeOK
<1>2. ASSUME NEW c \in Calls, Call(c) PROVE TypeOK'
  BY <1>2, CallFields DEF Call, TypeOK, LabelsOf, CommonLabels, Statuses
<1>3. CASE Crash
  BY <1>3, NoCallIsNoCall DEF Crash, Discard, TypeOK, LabelsOf, CommonLabels, Statuses, Successes
<1>4. CASE Step
  <2>1. pc \notin {"idle", "torn"}
    BY <1>4 DEF Step, Prepare, RecoverBackup, RecoverDropBackup,
         RecoverDropStaging, Check, Unpack, UnpackEnd, SetAside, Commit,
         Rollback, Abort, CleanStaging, CleanBackup, DeleteDestination, Return
  <2> QED BY <1>4, <2>1, StepTypes
<1>5. CASE TornRename
  BY <1>5, TornFacts, NoCallIsNoCall DEF TypeOK, Statuses, Successes
<1>6. CASE Torn
  BY <1>6 DEF Torn, vars, TypeOK
<1> QED BY <1>1, <1>2, <1>3, <1>4, <1>5, <1>6 DEF Next

\* The state of a transaction is well-typed in every behaviour, whichever
\* file-system calls fail and wherever the power does.
THEOREM TypeCorrect == Spec => []TypeOK
<1>1. Init => TypeOK
  BY InitTypes
<1>2. TypeOK /\ [Next]_vars => TypeOK'
  BY NextTypes
<1> QED BY <1>1, <1>2, PTL DEF Spec

-----------------------------------------------------------------------------
\* What deleting one entry, or the last one, leaves of the disk.
LEMMA DeleteTreeFrame ==
    ASSUME TypeOK, op.name \in Names, NEW p \in Places,
           Put(p, Damaged) \/ Put(p, Absent)
    PROVE  /\ \A q \in Places : q # p => fs'[op.name][q] = fs[op.name][q]
           /\ fs'[op.name][p] \in {Damaged, Absent}
           /\ Put(p, Damaged) => fs'[op.name][p] = Damaged
           /\ Put(p, Absent) => fs'[op.name][p] = Absent
           /\ \A n \in Names : n # op.name => fs'[n] = fs[n]
BY PutTree DEF TypeOK, Trees

\* How a delete_tree goes on: it removes some entries, or all, or fails.
LEMMA DeleteOutcomes ==
    ASSUME TypeOK, op.name \in Names, NEW p \in Places,
           NEW next, NEW failed, NEW status, DeleteTree(p, next, failed, status)
    PROVE  /\ UNCHANGED replaced
           /\ \A q \in Places : q # p => fs'[op.name][q] = fs[op.name][q]
           /\ \A n \in Names : n # op.name => fs'[n] = fs[n]
           /\ \/ /\ ~deleting /\ fs'[op.name][p] = Damaged
                 /\ deleting' = TRUE /\ pc' = pc /\ code' = code
              \/ /\ fs'[op.name][p] = Absent
                 /\ deleting' = FALSE /\ pc' = next /\ code' = code
              \/ /\ UNCHANGED fs
                 /\ deleting' = FALSE /\ pc' = failed /\ code' = status
<1>1. CASE /\ ~deleting /\ Put(p, Damaged) /\ deleting' = TRUE
           /\ UNCHANGED <<pc, replaced, code>>
  BY <1>1, DeleteTreeFrame
<1>2. CASE /\ Put(p, Absent) /\ deleting' = FALSE /\ pc' = next
           /\ UNCHANGED <<replaced, code>>
  BY <1>2, DeleteTreeFrame
<1>3. CASE /\ deleting' = FALSE /\ pc' = failed /\ code' = status
           /\ UNCHANGED <<fs, replaced>>
  BY <1>3
<1> QED BY <1>1, <1>2, <1>3 DEF DeleteTree

LEMMA RemoveOutcomes ==
    ASSUME TypeOK, op.name \in Names, "stat" \notin Faults, NEW p \in Places,
           NEW next, NEW failed, NEW status, RemoveIfPresent(p, next, failed, status)
    PROVE  /\ UNCHANGED replaced
           /\ \A q \in Places : q # p => fs'[op.name][q] = fs[op.name][q]
           /\ \A n \in Names : n # op.name => fs'[n] = fs[n]
           /\ \/ /\ fs[op.name][p] = Absent /\ UNCHANGED fs
                 /\ deleting' = FALSE /\ ~deleting /\ pc' = next /\ code' = code
              \/ /\ fs[op.name][p] # Absent /\ fs'[op.name][p] = Damaged
                 /\ deleting' = TRUE /\ pc' = pc /\ code' = code
              \/ /\ fs'[op.name][p] = Absent
                 /\ deleting' = FALSE /\ pc' = next /\ code' = code
              \/ /\ UNCHANGED fs
                 /\ deleting' = FALSE /\ pc' = failed /\ code' = status
<1>1. CASE /\ deleting \/ TRUE \in PathExists(At(p))
           /\ DeleteTree(p, next, failed, status)
  <2>1. CASE deleting = TRUE
    BY <1>1, <2>1, DeleteOutcomes
  <2>2. CASE TRUE \in PathExists(At(p))
    <3>1. fs[op.name][p] # Absent
      BY <2>2 DEF PathExists, At
    <3> QED BY <1>1, <3>1, DeleteOutcomes
  <2> QED BY <1>1, <2>1, <2>2 DEF TypeOK
<1>2. CASE ~deleting /\ FALSE \in PathExists(At(p)) /\ Goto(next)
  <2>1. fs[op.name][p] = Absent
    BY <1>2 DEF PathExists, At
  <2>2. deleting = FALSE
    BY <1>2 DEF TypeOK
  <2> QED BY <1>2, <2>1, <2>2 DEF Goto
<1> QED BY <1>1, <1>2 DEF RemoveIfPresent

\* The operation has not touched the disk yet.
LEMMA PhasesPrepare ==
    ASSUME TypeOK, Phases, "stat" \notin Faults, Prepare
    PROVE  Phases'
<1>0. op \in Calls /\ op.name \in Names /\ op' = op
  BY CallFields DEF TypeOK, Prepare
<1> USE Phases DEF Phases
<1> USE PackageConstants DEF Doomed, Recovered, Staged, Committed, Bookkeeping,
        BackupIsDirectory, OkMeansDone, Successes, At
<1>1. Doomed'
  BY <1>0 DEF Prepare, Goto, Fail
<1>2. Recovered'
  BY <1>0 DEF Prepare, Goto, Fail
<1>3. Staged'
  BY <1>0 DEF Prepare, Goto, Fail
<1>4. Committed'
  BY <1>0 DEF Prepare, Goto, Fail
<1>5. Bookkeeping'
  BY <1>0 DEF Prepare, Goto, Fail
<1>6. BackupIsDirectory'
  BY <1>0 DEF Prepare, Goto, Fail
<1>7. OkMeansDone'
  BY <1>0 DEF Prepare, Goto, Fail
<1> QED BY <1>1, <1>2, <1>3, <1>4, <1>5, <1>6, <1>7

\* The backup goes back, or there was nothing to put back.
LEMMA PhasesRecoverBackup ==
    ASSUME TypeOK, Phases, "stat" \notin Faults, RecoverBackup
    PROVE  Phases'
<1>0. op \in Calls /\ op.name \in Names /\ op' = op
  BY CallFields DEF TypeOK, RecoverBackup
<1>1. \/ /\ UNCHANGED fs
         /\ pc' = "drop_backup" =>
              fs[op.name]["dest"] # Absent \/ fs[op.name]["backup"] = Absent
      \/ /\ pc' = "drop_backup" /\ UNCHANGED <<replaced, deleting, code>>
         /\ fs'[op.name]["dest"] # Absent
         /\ fs'[op.name]["backup"] = Absent
         /\ \A n \in Names : n # op.name => fs'[n] = fs[n]
  <2>1. CASE Move("backup", "dest", Absent) /\ pc' = "drop_backup"
             /\ UNCHANGED <<replaced, deleting, code>>
    BY <1>0, <2>1, MoveTree DEF TypeOK, Places, Trees
  <2>2. CASE Fail("return", "ERR_TRANSACTION")
    BY <2>2 DEF Fail
  <2>3. ASSUME NEW hasBackup \in PathExists(At("backup")),
               NEW hasDest \in PathExists(At("dest")),
               ~(hasBackup /\ ~hasDest), Goto("drop_backup")
        PROVE  /\ UNCHANGED fs
               /\ fs[op.name]["dest"] # Absent \/ fs[op.name]["backup"] = Absent
    BY <2>3 DEF PathExists, Goto, At
  <2> QED BY <2>1, <2>2, <2>3 DEF RecoverBackup
<1> USE Phases DEF Phases
<1> USE PackageConstants DEF Doomed, Recovered, Staged, Committed, Bookkeeping,
        BackupIsDirectory, OkMeansDone, Successes, At
<1>2. Doomed'
  BY <1>0, <1>1 DEF RecoverBackup, Goto, Fail, PathExists
<1>3. Recovered'
  BY <1>0, <1>1 DEF RecoverBackup, Goto, Fail, PathExists
<1>4. Staged'
  BY <1>0, <1>1 DEF RecoverBackup, Goto, Fail, PathExists
<1>5. Committed'
  BY <1>0, <1>1 DEF RecoverBackup, Goto, Fail, PathExists
<1>6. Bookkeeping'
  BY <1>0, <1>1 DEF RecoverBackup, Goto, Fail, PathExists
<1>7. BackupIsDirectory'
  BY <1>0, <1>1 DEF RecoverBackup, Goto, Fail, PathExists
<1>8. OkMeansDone'
  BY <1>0, <1>1 DEF RecoverBackup, Goto, Fail, PathExists
<1> QED BY <1>2, <1>3, <1>4, <1>5, <1>6, <1>7, <1>8

\* The recovery drops a backup that the destination has outlived.
LEMMA PhasesRecoverDropBackup ==
    ASSUME TypeOK, Phases, "stat" \notin Faults, RecoverDropBackup
    PROVE  Phases'
<1>0. op \in Calls /\ op.name \in Names /\ op' = op
  BY CallFields DEF TypeOK, RecoverDropBackup
<1>1. /\ UNCHANGED replaced
      /\ \A q \in {"dest", "staging"} : fs'[op.name][q] = fs[op.name][q]
      /\ \A n \in Names : n # op.name => fs'[n] = fs[n]
      /\ \/ /\ fs[op.name]["backup"] = Absent /\ UNCHANGED fs
            /\ deleting' = FALSE /\ pc' = "drop_staging" /\ code' = code
         \/ /\ fs[op.name]["backup"] # Absent /\ fs'[op.name]["backup"] = Damaged
            /\ deleting' = TRUE /\ pc' = pc /\ code' = code
         \/ /\ fs'[op.name]["backup"] = Absent
            /\ deleting' = FALSE /\ pc' = "drop_staging" /\ code' = code
         \/ /\ UNCHANGED fs
            /\ deleting' = FALSE /\ pc' = "return" /\ code' = "ERR_TRANSACTION"
  BY <1>0, RemoveOutcomes DEF RecoverDropBackup, Places
<1> USE Phases DEF Phases
<1> USE PackageConstants DEF Doomed, Recovered, Staged, Committed, Bookkeeping,
        BackupIsDirectory, OkMeansDone, Successes, At
<1>2. Doomed'
  BY <1>0, <1>1 DEF RecoverDropBackup, Places
<1>3. Recovered'
  BY <1>0, <1>1 DEF RecoverDropBackup, Places
<1>4. Staged'
  BY <1>0, <1>1 DEF RecoverDropBackup, Places
<1>5. Committed'
  BY <1>0, <1>1 DEF RecoverDropBackup, Places
<1>6. Bookkeeping'
  BY <1>0, <1>1 DEF RecoverDropBackup, Places
<1>7. BackupIsDirectory'
  BY <1>0, <1>1 DEF RecoverDropBackup, Places
<1>8. OkMeansDone'
  BY <1>0, <1>1 DEF RecoverDropBackup, Places
<1> QED BY <1>2, <1>3, <1>4, <1>5, <1>6, <1>7, <1>8

\* The recovery drops a staging tree.
LEMMA PhasesRecoverDropStaging ==
    ASSUME TypeOK, Phases, "stat" \notin Faults, RecoverDropStaging
    PROVE  Phases'
<1>0. op \in Calls /\ op.name \in Names /\ op' = op
  BY CallFields DEF TypeOK, RecoverDropStaging
<1>1. /\ UNCHANGED replaced
      /\ \A q \in {"dest", "backup"} : fs'[op.name][q] = fs[op.name][q]
      /\ \A n \in Names : n # op.name => fs'[n] = fs[n]
      /\ \/ /\ fs[op.name]["staging"] = Absent /\ UNCHANGED fs
            /\ deleting' = FALSE /\ pc' = "check" /\ code' = code
         \/ /\ fs[op.name]["staging"] # Absent /\ fs'[op.name]["staging"] = Damaged
            /\ deleting' = TRUE /\ pc' = pc /\ code' = code
         \/ /\ fs'[op.name]["staging"] = Absent
            /\ deleting' = FALSE /\ pc' = "check" /\ code' = code
         \/ /\ UNCHANGED fs
            /\ deleting' = FALSE /\ pc' = "return" /\ code' = "ERR_TRANSACTION"
  BY <1>0, RemoveOutcomes DEF RecoverDropStaging, Places
<1> USE Phases DEF Phases
<1> USE PackageConstants DEF Doomed, Recovered, Staged, Committed, Bookkeeping,
        BackupIsDirectory, OkMeansDone, Successes, At
<1>2. Doomed'
  BY <1>0, <1>1 DEF RecoverDropStaging, Places
<1>3. Recovered'
  BY <1>0, <1>1 DEF RecoverDropStaging, Places
<1>4. Staged'
  BY <1>0, <1>1 DEF RecoverDropStaging, Places
<1>5. Committed'
  BY <1>0, <1>1 DEF RecoverDropStaging, Places
<1>6. Bookkeeping'
  BY <1>0, <1>1 DEF RecoverDropStaging, Places
<1>7. BackupIsDirectory'
  BY <1>0, <1>1 DEF RecoverDropStaging, Places
<1>8. OkMeansDone'
  BY <1>0, <1>1 DEF RecoverDropStaging, Places
<1> QED BY <1>2, <1>3, <1>4, <1>5, <1>6, <1>7, <1>8

\* What the tests on the destination let through.
LEMMA PhasesCheck ==
    ASSUME TypeOK, Phases, "stat" \notin Faults, Check
    PROVE  Phases'
<1>0. op \in Calls /\ op.name \in Names /\ op' = op
  BY CallFields DEF TypeOK, Check
<1> USE Phases DEF Phases
<1> USE PackageConstants DEF Doomed, Recovered, Staged, Committed, Bookkeeping,
        BackupIsDirectory, OkMeansDone, Successes, At
<1>1. Doomed'
  BY <1>0 DEF Check, Goto, Fail, PathExists, DirectoryExists
<1>2. Recovered'
  BY <1>0 DEF Check, Goto, Fail, PathExists, DirectoryExists
<1>3. Staged'
  BY <1>0 DEF Check, Goto, Fail, PathExists, DirectoryExists
<1>4. Committed'
  BY <1>0 DEF Check, Goto, Fail, PathExists, DirectoryExists
<1>5. Bookkeeping'
  BY <1>0 DEF Check, Goto, Fail, PathExists, DirectoryExists
<1>6. BackupIsDirectory'
  BY <1>0 DEF Check, Goto, Fail, PathExists, DirectoryExists
<1>7. OkMeansDone'
  BY <1>0 DEF Check, Goto, Fail, PathExists, DirectoryExists
<1> QED BY <1>1, <1>2, <1>3, <1>4, <1>5, <1>6, <1>7

\* The first entry of the archive appears in the staging tree.
LEMMA PhasesUnpack ==
    ASSUME TypeOK, Phases, "stat" \notin Faults, Unpack
    PROVE  Phases'
<1>0. /\ op \in Calls /\ op.name \in Names /\ op' = op
      /\ op.kind = "install" /\ op.arch \in Archives
  BY CallFields DEF TypeOK, Unpack, LabelsOf, CommonLabels
<1>1. \/ /\ UNCHANGED fs /\ pc' = "abort" /\ code' = "ERR_ARCHIVE"
      \/ /\ \A q \in {"dest", "backup"} : fs'[op.name][q] = fs[op.name][q]
         /\ \A n \in Names : n # op.name => fs'[n] = fs[n]
         /\ pc' = (IF fs[op.name]["staging"] = Absent THEN "unpacking" ELSE "merging")
         /\ UNCHANGED code
  BY <1>0, PutTree DEF Unpack, Fail, TypeOK, Places, Trees, At
<1> USE Phases DEF Phases
<1> USE PackageConstants DEF Doomed, Recovered, Staged, Committed, Bookkeeping,
        BackupIsDirectory, OkMeansDone, Successes, At
<1>2. Doomed'
  BY <1>0, <1>1 DEF Unpack, Fail
<1>3. Recovered'
  BY <1>0, <1>1 DEF Unpack, Fail
<1>4. Staged'
  BY <1>0, <1>1 DEF Unpack, Fail
<1>5. Committed'
  BY <1>0, <1>1 DEF Unpack, Fail
<1>6. Bookkeeping'
  BY <1>0, <1>1 DEF Unpack, Fail
<1>7. BackupIsDirectory'
  BY <1>0, <1>1 DEF Unpack, Fail
<1>8. OkMeansDone'
  BY <1>0, <1>1 DEF Unpack, Fail
<1> QED BY <1>2, <1>3, <1>4, <1>5, <1>6, <1>7, <1>8

\* The staging tree is the archive's, or the install fails.
LEMMA PhasesUnpackEnd ==
    ASSUME TypeOK, Phases, "stat" \notin Faults, UnpackEnd
    PROVE  Phases'
<1>0. /\ op \in Calls /\ op.name \in Names /\ op' = op
      /\ op.kind = "install" /\ op.arch \in Archives
  BY CallFields DEF TypeOK, UnpackEnd, LabelsOf, CommonLabels
<1>1. \/ /\ UNCHANGED fs /\ pc' = "abort" /\ code' = "ERR_ARCHIVE"
      \/ /\ \A q \in {"dest", "backup"} : fs'[op.name][q] = fs[op.name][q]
         /\ pc = "unpacking" => fs'[op.name]["staging"] = op.arch
         /\ \A n \in Names : n # op.name => fs'[n] = fs[n]
         /\ \/ pc' = "set_aside" /\ code' = code
            \/ pc' = "abort" /\ code' = "ERR_FILESYSTEM"
  BY <1>0, PutTree DEF UnpackEnd, Fail, TypeOK, Places, Trees
<1> USE Phases DEF Phases
<1> USE PackageConstants DEF Doomed, Recovered, Staged, Committed, Bookkeeping,
        BackupIsDirectory, OkMeansDone, Successes, At
<1>2. Doomed'
  BY <1>0, <1>1 DEF UnpackEnd, Fail
<1>3. Recovered'
  BY <1>0, <1>1 DEF UnpackEnd, Fail
<1>4. Staged'
  BY <1>0, <1>1 DEF UnpackEnd, Fail
<1>5. Committed'
  BY <1>0, <1>1 DEF UnpackEnd, Fail
<1>6. Bookkeeping'
  BY <1>0, <1>1 DEF UnpackEnd, Fail
<1>7. BackupIsDirectory'
  BY <1>0, <1>1 DEF UnpackEnd, Fail
<1>8. OkMeansDone'
  BY <1>0, <1>1 DEF UnpackEnd, Fail
<1> QED BY <1>2, <1>3, <1>4, <1>5, <1>6, <1>7, <1>8

\* The old tree is the backup, or there was none.
LEMMA PhasesSetAside ==
    ASSUME TypeOK, Phases, "stat" \notin Faults, SetAside
    PROVE  Phases'
<1>0. /\ op \in Calls /\ op.name \in Names /\ op' = op
      /\ op.kind = "install" /\ op.arch \in Archives
  BY CallFields DEF TypeOK, SetAside, LabelsOf, CommonLabels
<1>1. \/ UNCHANGED fs /\ pc' = "abort" /\ code' = "ERR_FILESYSTEM"
      \/ Goto("commit") /\ fs[op.name]["dest"] \in {Absent, File}
      \/ /\ pc' = "commit" /\ replaced' = TRUE /\ UNCHANGED <<deleting, code>>
         /\ fs'[op.name]["dest"] = Absent
         /\ fs'[op.name]["backup"] = fs[op.name]["dest"]
         /\ fs'[op.name]["staging"] = fs[op.name]["staging"]
         /\ \A n \in Names : n # op.name => fs'[n] = fs[n]
  <2>1. CASE Move("dest", "backup", Absent)
    BY <1>0, <2>1, MoveTree DEF SetAside, Goto, Fail, TypeOK, Places, Trees, DirectoryExists, PathExists, At
  <2> QED BY <1>0, <2>1 DEF SetAside, Goto, Fail, DirectoryExists, PathExists, At
<1> USE Phases DEF Phases
<1> USE PackageConstants DEF Doomed, Recovered, Staged, Committed, Bookkeeping,
        BackupIsDirectory, OkMeansDone, Successes, At
<1>2. Doomed'
  BY <1>0, <1>1 DEF SetAside, Goto, Fail, DirectoryExists, PathExists
<1>3. Recovered'
  BY <1>0, <1>1 DEF SetAside, Goto, Fail, DirectoryExists, PathExists
<1>4. Staged'
  BY <1>0, <1>1 DEF SetAside, Goto, Fail, DirectoryExists, PathExists
<1>5. Committed'
  BY <1>0, <1>1 DEF SetAside, Goto, Fail, DirectoryExists, PathExists
<1>6. Bookkeeping'
  BY <1>0, <1>1 DEF SetAside, Goto, Fail, DirectoryExists, PathExists
<1>7. BackupIsDirectory'
  BY <1>0, <1>1 DEF SetAside, Goto, Fail, DirectoryExists, PathExists
<1>8. OkMeansDone'
  BY <1>0, <1>1 DEF SetAside, Goto, Fail, DirectoryExists, PathExists
<1> QED BY <1>2, <1>3, <1>4, <1>5, <1>6, <1>7, <1>8

\* The new tree is the destination, or the install fails.
LEMMA PhasesCommit ==
    ASSUME TypeOK, Phases, "stat" \notin Faults, Commit
    PROVE  Phases'
<1>0. /\ op \in Calls /\ op.name \in Names /\ op' = op
      /\ op.kind = "install" /\ op.arch \in Archives
  BY CallFields DEF TypeOK, Commit, LabelsOf, CommonLabels
<1>1. \/ /\ UNCHANGED fs /\ code' = "ERR_FILESYSTEM"
         /\ pc' = (IF replaced THEN "rollback" ELSE "abort")
         /\ UNCHANGED <<replaced, deleting>>
      \/ /\ fs'[op.name]["dest"] = fs[op.name]["staging"]
         /\ fs'[op.name]["backup"] = fs[op.name]["backup"]
         /\ pc' = "clean_backup" => fs'[op.name]["staging"] = Absent
         /\ \A n \in Names : n # op.name => fs'[n] = fs[n]
         /\ pc' \in {"clean_staging", "clean_backup"}
         /\ UNCHANGED <<replaced, deleting, code>>
  <2>1. ASSUME NEW nested \in BOOLEAN,
               Move("staging", "dest", IF nested THEN Damaged ELSE Absent)
        PROVE  /\ fs'[op.name]["dest"] = fs[op.name]["staging"]
               /\ fs'[op.name]["backup"] = fs[op.name]["backup"]
               /\ ~nested => fs'[op.name]["staging"] = Absent
               /\ \A n \in Names : n # op.name => fs'[n] = fs[n]
    BY <1>0, <2>1, MoveTree DEF TypeOK, Places, Trees
  <2> QED BY <1>0, <2>1 DEF Commit, Fail, RootIsNested
<1> USE Phases DEF Phases
<1> USE PackageConstants DEF Doomed, Recovered, Staged, Committed, Bookkeeping,
        BackupIsDirectory, OkMeansDone, Successes, At
<1>2. Doomed'
  BY <1>0, <1>1 DEF Commit
<1>3. Recovered'
  BY <1>0, <1>1 DEF Commit
<1>4. Staged'
  BY <1>0, <1>1 DEF Commit
<1>5. Committed'
  BY <1>0, <1>1 DEF Commit
<1>6. Bookkeeping'
  BY <1>0, <1>1 DEF Commit
<1>7. BackupIsDirectory'
  BY <1>0, <1>1 DEF Commit
<1>8. OkMeansDone'
  BY <1>0, <1>1 DEF Commit
<1> QED BY <1>2, <1>3, <1>4, <1>5, <1>6, <1>7, <1>8

\* The old tree is the destination again, or still the backup.
LEMMA PhasesRollback ==
    ASSUME TypeOK, Phases, "stat" \notin Faults, Rollback
    PROVE  Phases'
<1>0. /\ op \in Calls /\ op.name \in Names /\ op' = op
      /\ op.kind = "install" /\ op.arch \in Archives
  BY CallFields DEF TypeOK, Rollback, LabelsOf, CommonLabels
<1>1. /\ pc' = "abort" /\ UNCHANGED <<replaced, deleting, code>>
      /\ \/ UNCHANGED fs
         \/ /\ fs'[op.name]["backup"] = Absent
            /\ \A n \in Names : n # op.name => fs'[n] = fs[n]
  BY <1>0, MoveTree DEF Rollback, Goto, TypeOK, Places, Trees
<1> USE Phases DEF Phases
<1> USE PackageConstants DEF Doomed, Recovered, Staged, Committed, Bookkeeping,
        BackupIsDirectory, OkMeansDone, Successes, At
<1>2. Doomed'
  BY <1>0, <1>1 DEF Rollback
<1>3. Recovered'
  BY <1>0, <1>1 DEF Rollback
<1>4. Staged'
  BY <1>0, <1>1 DEF Rollback
<1>5. Committed'
  BY <1>0, <1>1 DEF Rollback
<1>6. Bookkeeping'
  BY <1>0, <1>1 DEF Rollback
<1>7. BackupIsDirectory'
  BY <1>0, <1>1 DEF Rollback
<1>8. OkMeansDone'
  BY <1>0, <1>1 DEF Rollback
<1> QED BY <1>2, <1>3, <1>4, <1>5, <1>6, <1>7, <1>8

\* What a failed install leaves behind.
LEMMA PhasesAbort ==
    ASSUME TypeOK, Phases, "stat" \notin Faults, Abort
    PROVE  Phases'
<1>0. /\ op \in Calls /\ op.name \in Names /\ op' = op
      /\ op.kind = "install" /\ op.arch \in Archives
  BY CallFields DEF TypeOK, Abort, LabelsOf, CommonLabels
<1>1. /\ UNCHANGED replaced
      /\ \A q \in {"dest", "backup"} : fs'[op.name][q] = fs[op.name][q]
      /\ \A n \in Names : n # op.name => fs'[n] = fs[n]
      /\ \/ /\ fs[op.name]["staging"] = Absent /\ UNCHANGED fs
            /\ deleting' = FALSE /\ pc' = "return" /\ code' = code
         \/ /\ fs[op.name]["staging"] # Absent /\ fs'[op.name]["staging"] = Damaged
            /\ deleting' = TRUE /\ pc' = pc /\ code' = code
         \/ /\ fs'[op.name]["staging"] = Absent
            /\ deleting' = FALSE /\ pc' = "return" /\ code' = code
         \/ /\ UNCHANGED fs
            /\ deleting' = FALSE /\ pc' = "return" /\ code' = code
  BY <1>0, RemoveOutcomes DEF Abort, Places
<1> USE Phases DEF Phases
<1> USE PackageConstants DEF Doomed, Recovered, Staged, Committed, Bookkeeping,
        BackupIsDirectory, OkMeansDone, Successes, At
<1>2. Doomed'
  BY <1>0, <1>1 DEF Abort, Places
<1>3. Recovered'
  BY <1>0, <1>1 DEF Abort, Places
<1>4. Staged'
  BY <1>0, <1>1 DEF Abort, Places
<1>5. Committed'
  BY <1>0, <1>1 DEF Abort, Places
<1>6. Bookkeeping'
  BY <1>0, <1>1 DEF Abort, Places
<1>7. BackupIsDirectory'
  BY <1>0, <1>1 DEF Abort, Places
<1>8. OkMeansDone'
  BY <1>0, <1>1 DEF Abort, Places
<1> QED BY <1>2, <1>3, <1>4, <1>5, <1>6, <1>7, <1>8

\* The empty staging tree of an archive with one top-level directory.
LEMMA PhasesCleanStaging ==
    ASSUME TypeOK, Phases, "stat" \notin Faults, CleanStaging
    PROVE  Phases'
<1>0. /\ op \in Calls /\ op.name \in Names /\ op' = op
      /\ op.kind = "install" /\ op.arch \in Archives
  BY CallFields DEF TypeOK, CleanStaging, LabelsOf, CommonLabels
<1>1. /\ UNCHANGED replaced
      /\ \A q \in {"dest", "backup"} : fs'[op.name][q] = fs[op.name][q]
      /\ \A n \in Names : n # op.name => fs'[n] = fs[n]
      /\ \/ /\ fs[op.name]["staging"] = Absent /\ UNCHANGED fs
            /\ deleting' = FALSE /\ pc' = "clean_backup" /\ code' = code
         \/ /\ fs[op.name]["staging"] # Absent /\ fs'[op.name]["staging"] = Damaged
            /\ deleting' = TRUE /\ pc' = pc /\ code' = code
         \/ /\ fs'[op.name]["staging"] = Absent
            /\ deleting' = FALSE /\ pc' = "clean_backup" /\ code' = code
         \/ /\ UNCHANGED fs
            /\ deleting' = FALSE /\ pc' = "clean_backup" /\ code' = "OK_CLEANUP_PENDING"
  BY <1>0, RemoveOutcomes DEF CleanStaging, Places
<1> USE Phases DEF Phases
<1> USE PackageConstants DEF Doomed, Recovered, Staged, Committed, Bookkeeping,
        BackupIsDirectory, OkMeansDone, Successes, At
<1>2. Doomed'
  BY <1>0, <1>1 DEF CleanStaging, Places
<1>3. Recovered'
  BY <1>0, <1>1 DEF CleanStaging, Places
<1>4. Staged'
  BY <1>0, <1>1 DEF CleanStaging, Places
<1>5. Committed'
  BY <1>0, <1>1 DEF CleanStaging, Places
<1>6. Bookkeeping'
  BY <1>0, <1>1 DEF CleanStaging, Places
<1>7. BackupIsDirectory'
  BY <1>0, <1>1 DEF CleanStaging, Places
<1>8. OkMeansDone'
  BY <1>0, <1>1 DEF CleanStaging, Places
<1> QED BY <1>2, <1>3, <1>4, <1>5, <1>6, <1>7, <1>8

\* The old tree goes, once the new one is the destination.
LEMMA PhasesCleanBackup ==
    ASSUME TypeOK, Phases, "stat" \notin Faults, CleanBackup
    PROVE  Phases'
<1>0. /\ op \in Calls /\ op.name \in Names /\ op' = op
      /\ op.kind = "install" /\ op.arch \in Archives
  BY CallFields DEF TypeOK, CleanBackup, LabelsOf, CommonLabels
<1>1. /\ UNCHANGED replaced
      /\ \A q \in {"dest", "staging"} : fs'[op.name][q] = fs[op.name][q]
      /\ \A n \in Names : n # op.name => fs'[n] = fs[n]
      /\ \/ /\ ~replaced /\ UNCHANGED <<fs, deleting>>
            /\ pc' = "return" /\ code' = code
         \/ /\ fs[op.name]["backup"] = Absent /\ UNCHANGED fs
            /\ deleting' = FALSE /\ pc' = "return" /\ code' = code
         \/ /\ replaced /\ fs'[op.name]["backup"] = Damaged
            /\ deleting' = TRUE /\ pc' = pc /\ code' = code
         \/ /\ fs'[op.name]["backup"] = Absent
            /\ deleting' = FALSE /\ pc' = "return" /\ code' = code
         \/ /\ UNCHANGED fs /\ deleting' = FALSE
            /\ pc' = "return" /\ code' = "OK_CLEANUP_PENDING"
  <2>1. CASE replaced
    <3>1. RemoveIfPresent("backup", "return", "return", "OK_CLEANUP_PENDING")
      BY <2>1 DEF CleanBackup
    <3> QED BY <1>0, <3>1, <2>1, RemoveOutcomes DEF Places
  <2> QED BY <1>0, <2>1 DEF CleanBackup, Goto
<1> USE Phases DEF Phases
<1> USE PackageConstants DEF Doomed, Recovered, Staged, Committed, Bookkeeping,
        BackupIsDirectory, OkMeansDone, Successes, At
<1>2. Doomed'
  BY <1>0, <1>1 DEF CleanBackup
<1>3. Recovered'
  BY <1>0, <1>1 DEF CleanBackup
<1>4. Staged'
  BY <1>0, <1>1 DEF CleanBackup
<1>5. Committed'
  BY <1>0, <1>1 DEF CleanBackup
<1>6. Bookkeeping'
  BY <1>0, <1>1 DEF CleanBackup
<1>7. BackupIsDirectory'
  BY <1>0, <1>1 DEF CleanBackup
<1>8. OkMeansDone'
  BY <1>0, <1>1 DEF CleanBackup
<1> QED BY <1>2, <1>3, <1>4, <1>5, <1>6, <1>7, <1>8

\* The uninstall itself.
LEMMA PhasesDeleteDestination ==
    ASSUME TypeOK, Phases, "stat" \notin Faults, DeleteDestination
    PROVE  Phases'
<1>0. op \in Calls /\ op.name \in Names /\ op' = op
  BY CallFields DEF TypeOK, DeleteDestination
<1>1. /\ UNCHANGED replaced
      /\ \A q \in {"backup", "staging"} : fs'[op.name][q] = fs[op.name][q]
      /\ \A n \in Names : n # op.name => fs'[n] = fs[n]
      /\ \/ /\ fs'[op.name]["dest"] = Damaged
            /\ deleting' = TRUE /\ pc' = pc /\ code' = code
         \/ /\ fs'[op.name]["dest"] = Absent
            /\ deleting' = FALSE /\ pc' = "return" /\ code' = code
         \/ /\ UNCHANGED fs /\ deleting' = FALSE
            /\ pc' = "return" /\ code' = "ERR_FILESYSTEM"
      /\ op.kind = "remove"
  BY <1>0, DeleteOutcomes DEF DeleteDestination, Places, TypeOK, LabelsOf, CommonLabels, InstallLabels, Calls
<1> USE Phases DEF Phases
<1> USE PackageConstants DEF Doomed, Recovered, Staged, Committed, Bookkeeping,
        BackupIsDirectory, OkMeansDone, Successes, At
<1>2. Doomed'
  BY <1>0, <1>1 DEF DeleteDestination
<1>3. Recovered'
  BY <1>0, <1>1 DEF DeleteDestination
<1>4. Staged'
  BY <1>0, <1>1 DEF DeleteDestination
<1>5. Committed'
  BY <1>0, <1>1 DEF DeleteDestination
<1>6. Bookkeeping'
  BY <1>0, <1>1 DEF DeleteDestination
<1>7. BackupIsDirectory'
  BY <1>0, <1>1 DEF DeleteDestination
<1>8. OkMeansDone'
  BY <1>0, <1>1 DEF DeleteDestination
<1> QED BY <1>2, <1>3, <1>4, <1>5, <1>6, <1>7, <1>8

\* The reply, and the oblivion of a crash: nothing is in progress afterwards.
LEMMA PhasesDiscard ==
    ASSUME Phases, Discard("idle"), UNCHANGED fs
    PROVE  Phases'
BY DEF Discard, Phases, Doomed, Recovered, Staged, Committed, Bookkeeping,
   BackupIsDirectory, OkMeansDone

LEMMA PhasesNext ==
    ASSUME TypeOK, Phases, "stat" \notin Faults, [Next]_vars
    PROVE  Phases'
<1> USE DEF Phases, Doomed, Recovered, Staged, Committed, Bookkeeping,
            BackupIsDirectory, OkMeansDone, At
<1>1. CASE UNCHANGED vars
  BY <1>1 DEF vars
<1>2. ASSUME NEW c \in Calls, Call(c) PROVE Phases'
  BY <1>2 DEF Call
<1>3. CASE Crash
  BY <1>3, PhasesDiscard DEF Crash
<1>4. CASE Step
  <2>1. CASE Return
    BY <2>1, PhasesDiscard DEF Return
  <2> QED BY <1>4, <2>1, PhasesPrepare, PhasesRecoverBackup, PhasesRecoverDropBackup,
       PhasesRecoverDropStaging, PhasesCheck, PhasesUnpack, PhasesUnpackEnd,
       PhasesSetAside, PhasesCommit, PhasesRollback, PhasesAbort, PhasesCleanStaging,
       PhasesCleanBackup, PhasesDeleteDestination DEF Step
<1>5. CASE TornRename
  <2>1. BackupIsDirectory'
    BY <1>5, TornFacts
  <2> QED BY <1>5, <2>1, TornFacts
<1>6. CASE Torn
  BY <1>6 DEF Torn, vars
<1> QED BY <1>1, <1>2, <1>3, <1>4, <1>5, <1>6 DEF Next

\* As long as f_stat tells the truth, every point of the two operations may
\* rely on what Phases says of it.
THEOREM PhasesHold ==
    ASSUME "stat" \notin Faults
    PROVE  Spec => []Phases
<1>1. Init => Phases
  BY PackageConstants DEF Init, Phases, Doomed, Recovered, Staged, Committed,
     Bookkeeping, BackupIsDirectory, OkMeansDone
<1>2. TypeOK /\ Phases /\ [Next]_vars => Phases'
  BY PhasesNext
<1> QED BY <1>1, <1>2, TypeCorrect, PTL DEF Spec

\* package_recover_transaction and the cleanup of an install erase a backup
\* only while the destination exists: no crash leaves half a backup alone.
THEOREM LastCopyIsKept ==
    ASSUME "stat" \notin Faults
    PROVE  Spec => []NeverErasesLastCopy
<1>1. TypeOK /\ Phases => NeverErasesLastCopy
  <2>1. TypeOK /\ pc = "clean_backup" => op.arch # Absent
    BY PackageConstants, CallFields DEF TypeOK, LabelsOf, CommonLabels
  <2> QED BY <2>1, PackageConstants DEF Phases, Doomed, Recovered, Committed, NeverErasesLastCopy
<1> QED BY <1>1, PhasesHold, TypeCorrect, PTL

\* PACKAGE_OK is never returned for less than the whole operation.
THEOREM SuccessIsDone ==
    ASSUME "stat" \notin Faults
    PROVE  Spec => []OkMeansDone
<1>1. Phases => OkMeansDone
  BY DEF Phases
<1> QED BY <1>1, PhasesHold, PTL

-----------------------------------------------------------------------------
\* package_remove deletes a destination only after directory_exists has said
\* that it is one; the answer can be wrong about existence, not about this.
DeletesNoFile == pc = "delete" => At("dest") # File

\* The three renames and deletions that touch a destination.
LEMMA DestinationSteps ==
    ASSUME TypeOK, pc \notin {"idle", "torn"}, Step
    PROVE  \/ \A n \in Names : fs'[n]["dest"] = fs[n]["dest"]
           \/ /\ \A n \in Names : n # op.name => fs'[n] = fs[n]
              /\ \/ pc = "delete"
                 \/ fs[op.name]["dest"] = Absent
                 \/ pc = "set_aside" /\ fs[op.name]["dest"] # File
<1>0. op \in Calls /\ op.name \in Names
  BY CallFields DEF TypeOK
<1> USE DEF Places, Trees
<1> DEFINE Same == \A n \in Names : fs'[n]["dest"] = fs[n]["dest"]
<1>1. ASSUME NEW p \in {"staging", "backup"}, NEW tree, Put(p, tree) PROVE Same
  BY <1>0, <1>1 DEF Put, TypeOK
<1>2. ASSUME NEW p \in {"staging", "backup"}, NEW next, NEW failed, NEW status,
             RemoveIfPresent(p, next, failed, status)
      PROVE  Same
  BY <1>1, <1>2 DEF RemoveIfPresent, DeleteTree, Goto
<1>3. ASSUME NEW p \in {"staging", "backup"}, NEW left \in Trees, Move(p, "dest", left)
      PROVE  /\ \A n \in Names : n # op.name => fs'[n] = fs[n]
             /\ fs[op.name]["dest"] = Absent
  BY <1>0, <1>3, MoveTree DEF TypeOK
<1>4. CASE Prepare \/ Check \/ Return
  BY <1>4 DEF Prepare, Check, Return, Goto, Fail
<1>5. CASE RecoverBackup
  BY <1>3, <1>5 DEF RecoverBackup, Goto, Fail
<1>6. CASE RecoverDropBackup \/ RecoverDropStaging \/ Abort \/ CleanStaging
  BY <1>2, <1>6 DEF RecoverDropBackup, RecoverDropStaging, Abort, CleanStaging
<1>7. CASE Unpack \/ UnpackEnd
  BY <1>1, <1>7 DEF Unpack, UnpackEnd, Fail
<1>8. CASE SetAside
  <2>1. CASE Move("dest", "backup", Absent)
    <3>1. \A n \in Names : n # op.name => fs'[n] = fs[n]
      BY <1>0, <2>1, MoveTree DEF TypeOK
    <3>2. fs[op.name]["dest"] # File \/ UNCHANGED fs
      BY <1>8 DEF SetAside, DirectoryExists, At, Goto, Fail
    <3> QED BY <1>8, <3>1, <3>2 DEF SetAside
  <2> QED BY <1>8, <2>1 DEF SetAside, Goto, Fail
<1>9. CASE Commit
  <2>1. ASSUME NEW nested \in BOOLEAN,
               Move("staging", "dest", IF nested THEN Damaged ELSE Absent)
        PROVE  /\ \A n \in Names : n # op.name => fs'[n] = fs[n]
               /\ fs[op.name]["dest"] = Absent
    BY <1>3, <2>1
  <2> QED BY <1>9, <2>1 DEF Commit, RootIsNested, Fail
<1>10. CASE Rollback
  BY <1>3, <1>10 DEF Rollback, Goto
<1>11. CASE CleanBackup
  BY <1>2, <1>11 DEF CleanBackup, Goto
<1>12. CASE DeleteDestination
  BY <1>0, <1>12, DeleteOutcomes DEF DeleteDestination
<1> QED BY <1>4, <1>5, <1>6, <1>7, <1>8, <1>9, <1>10, <1>11, <1>12 DEF Step

LEMMA DeletesNoFileNext ==
    ASSUME TypeOK, DeletesNoFile, [Next]_vars
    PROVE  DeletesNoFile'
<1>1. CASE UNCHANGED vars
  BY <1>1 DEF vars, DeletesNoFile, At
<1>2. CASE (\E c \in Calls : Call(c)) \/ Crash \/ Return
  BY <1>2 DEF Call, Crash, Return, Discard, DeletesNoFile
<1>3. CASE Check
  <2>1. pc' = "delete" => At("dest") # File /\ UNCHANGED <<fs, op>>
    BY <1>3 DEF Check, Goto, Fail, DirectoryExists
  <2> QED BY <2>1 DEF DeletesNoFile, At
<1>4. CASE DeleteDestination
  <2>1. /\ op \in Calls /\ op.name \in Names /\ op' = op
        /\ op.kind = "remove" /\ "dest" \in Places
    BY <1>4, CallFields DEF DeleteDestination, TypeOK, LabelsOf, CommonLabels, InstallLabels, Calls, Places
  <2>2. pc' = "delete" => fs'[op.name]["dest"] # File
    BY <1>4, <2>1, DeleteOutcomes, PackageConstants DEF DeleteDestination, DeletesNoFile, At
  <2> QED BY <2>1, <2>2 DEF DeletesNoFile, At
<1>5. CASE Step /\ ~Check /\ ~DeleteDestination
  <2>1. pc' # "delete"
    BY <1>5 DEF Step, Prepare, RecoverBackup, RecoverDropBackup, RecoverDropStaging,
         Unpack, UnpackEnd, SetAside, Commit, Rollback, Abort, CleanStaging,
         CleanBackup, Return, Discard, RemoveIfPresent, DeleteTree, Goto, Fail
  <2> QED BY <2>1 DEF DeletesNoFile
<1>6. CASE TornRename \/ Torn
  BY <1>6, TornFacts DEF Torn, vars, DeletesNoFile, At
<1> QED BY <1>1, <1>2, <1>3, <1>4, <1>5, <1>6 DEF Next

\* A plain file under a package's name survives every install and uninstall,
\* even if every file-system call may fail, f_stat included.
THEOREM FilesSurvive == Spec => FileSurvives
<1>1. Init => DeletesNoFile
  BY DEF Init, DeletesNoFile
<1>2. TypeOK /\ DeletesNoFile /\ [Next]_vars => DeletesNoFile'
  BY DeletesNoFileNext
<1>3. TypeOK /\ DeletesNoFile /\ [Next]_vars
        => [\A n \in Names : fs[n]["dest"] = File => fs'[n]["dest"] = File]_vars
  <2> SUFFICES ASSUME TypeOK, DeletesNoFile, Next, NEW n \in Names, fs[n]["dest"] = File
               PROVE  fs'[n]["dest"] = File
    BY DEF vars
  <2>1. CASE Step
    <3>1. pc \notin {"idle", "torn"}
      BY <2>1 DEF Step, Prepare, RecoverBackup, RecoverDropBackup,
         RecoverDropStaging, Check, Unpack, UnpackEnd, SetAside, Commit,
         Rollback, Abort, CleanStaging, CleanBackup, DeleteDestination, Return
    <3> QED BY <2>1, <3>1, DestinationSteps, PackageConstants DEF DeletesNoFile, At
  <2>2. CASE TornRename
    BY <2>2, TornFacts, PackageConstants
  <2> QED BY <2>1, <2>2 DEF Next, Call, Crash, Torn, vars
<1> QED BY <1>1, <1>2, <1>3, TypeCorrect, PTL DEF Spec, FileSurvives

-----------------------------------------------------------------------------
(* The refinement: the directories of a name, seen as one content. *)

Content == [n \in Names |-> Effective(n)]

\* The content of a name depends on its destination and, when there is none,
\* on its backup.
LEMMA ContentKept ==
    ASSUME op.name \in Names,
           \A n \in Names : n # op.name => fs'[n] = fs[n],
           \/ UNCHANGED fs
           \/ /\ fs'[op.name]["dest"] = fs[op.name]["dest"]
              /\ \/ fs[op.name]["dest"] # Absent
                 \/ fs'[op.name]["backup"] = fs[op.name]["backup"]
           \/ /\ fs[op.name]["dest"] = Absent
              /\ fs'[op.name]["dest"] = fs[op.name]["backup"]
              /\ fs[op.name]["backup"] # Absent
           \/ /\ fs[op.name]["dest"] # Absent
              /\ fs'[op.name]["dest"] = Absent
              /\ fs'[op.name]["backup"] = fs[op.name]["dest"]
    PROVE  Content' = Content
<1>1. ASSUME NEW n \in Names PROVE Effective(n)' = Effective(n)
  BY DEF Effective
<1> QED BY <1>1 DEF Content

\* No other step tears a rename, or goes on after one.
LEMMA NotTorn ==
    ASSUME TypeOK, Step \/ Crash \/ (\E c \in Calls : Call(c))
    PROVE  (pc = "torn") = FALSE /\ (pc' = "torn") = FALSE
<1>1. pc # "torn"
  BY DEF Step, Prepare, RecoverBackup, RecoverDropBackup, RecoverDropStaging, Check, Unpack,
     UnpackEnd, SetAside, Commit, Rollback, Abort, CleanStaging, CleanBackup,
     DeleteDestination, Return, Crash, Call
<1>2. pc' # "torn"
  <2>1. CASE Step
    BY <2>1, <1>1 DEF Step, Prepare, RecoverBackup, RecoverDropBackup, RecoverDropStaging,
       Check, Unpack, UnpackEnd, SetAside, Commit, Rollback, Abort, CleanStaging,
       CleanBackup, DeleteDestination, Return, Discard, RemoveIfPresent, DeleteTree, Goto, Fail
  <2>2. CASE Crash \/ (\E c \in Calls : Call(c))
    BY <2>2 DEF Crash, Discard, Call
  <2> QED BY <2>1, <2>2
<1> QED BY <1>1, <1>2

\* Two readings of whether the call took effect that are both wrong, or both
\* right, are the same value.
LEMMA TookEffectIsBoolean == TookEffect \in BOOLEAN /\ TookEffect' \in BOOLEAN
BY DEF TookEffect

\* The steps of the recovery, of the preparations and of a rollback do not
\* change what a name means, and only the last of them says how it ended.
LEMMA HiddenSteps ==
    ASSUME TypeOK, Phases, "stat" \notin Faults,
           \/ Prepare \/ RecoverBackup \/ RecoverDropBackup \/ RecoverDropStaging
           \/ Check \/ Unpack \/ UnpackEnd \/ SetAside \/ Rollback \/ Abort
    PROVE  /\ Content' = Content
           /\ ~TookEffect /\ ~TookEffect'
           /\ UNCHANGED <<op, reply>>
<1>1. op.name \in Names /\ UNCHANGED <<op, reply>>
  BY CallFields DEF TypeOK, Prepare, RecoverBackup, RecoverDropBackup, RecoverDropStaging,
     Check, Unpack, UnpackEnd, SetAside, Rollback, Abort
<1>2. CASE Prepare \/ Check
  <2>1. UNCHANGED fs
    BY <1>2 DEF Prepare, Check, Goto, Fail
  <2>2. ~TookEffect /\ ~TookEffect'
    BY <1>2 DEF Prepare, Check, Goto, Fail, TookEffect, Successes
  <2> QED BY <1>1, <2>1, <2>2, ContentKept
<1>3. CASE RecoverBackup
  <2>1. CASE Move("backup", "dest", Absent) /\ pc' = "drop_backup"
    <3>1. Content' = Content
      BY <1>1, <2>1, MoveTree, ContentKept DEF TypeOK, Places, Trees
    <3> QED BY <1>1, <1>3, <2>1, <3>1 DEF RecoverBackup, TookEffect
  <2>2. CASE Fail("return", "ERR_TRANSACTION") \/ Goto("drop_backup")
    <3>1. UNCHANGED fs
      BY <2>2 DEF Fail, Goto
    <3>2. ~TookEffect /\ ~TookEffect'
      BY <1>3, <2>2 DEF RecoverBackup, Goto, Fail, TookEffect, Successes
    <3> QED BY <1>1, <3>1, <3>2, ContentKept
  <2> QED BY <1>3, <2>1, <2>2 DEF RecoverBackup
<1>4. CASE RecoverDropBackup
  <2>1. /\ \A q \in {"dest", "staging"} : fs'[op.name][q] = fs[op.name][q]
        /\ \A n \in Names : n # op.name => fs'[n] = fs[n]
        /\ \/ UNCHANGED fs
           \/ fs[op.name]["backup"] # Absent
        /\ pc' = "return" => code' = "ERR_TRANSACTION"
        /\ pc' \in {"return", "drop_backup", "drop_staging"}
    <3>1. deleting => fs[op.name]["backup"] # Absent
      BY <1>4 DEF RecoverDropBackup, Phases, Doomed, At
    <3>2. TRUE \in PathExists(At("backup")) => fs[op.name]["backup"] # Absent
      BY DEF PathExists, At
    <3> QED BY <1>1, <1>4, <3>1, <3>2, RemoveOutcomes DEF RecoverDropBackup, RemoveIfPresent, Goto, Places
  <2>2. Content' = Content
    BY <1>1, <1>4, <2>1, ContentKept DEF Phases, Recovered, RecoverDropBackup, At
  <2> QED BY <1>1, <1>4, <2>1, <2>2 DEF RecoverDropBackup, TookEffect, Successes
<1>5. CASE RecoverDropStaging
  <2>1. /\ \A q \in {"dest", "backup"} : fs'[op.name][q] = fs[op.name][q]
        /\ \A n \in Names : n # op.name => fs'[n] = fs[n]
        /\ \/ pc' = "check" \/ pc' = pc
           \/ pc' = "return" /\ code' = "ERR_TRANSACTION"
    BY <1>1, <1>5, RemoveOutcomes DEF RecoverDropStaging, Places
  <2>2. Content' = Content
    BY <1>1, <2>1, ContentKept
  <2> QED BY <1>1, <1>5, <2>1, <2>2 DEF RecoverDropStaging, TookEffect, Successes
<1>6. CASE Unpack \/ UnpackEnd
  <2>1. /\ \A q \in {"dest", "backup"} : fs'[op.name][q] = fs[op.name][q]
        /\ \A n \in Names : n # op.name => fs'[n] = fs[n]
    <3>1. CASE UNCHANGED fs
      BY <3>1
    <3>2. op.arch \in Trees /\ Damaged \in Trees
      BY <1>6, CallFields DEF Unpack, UnpackEnd, TypeOK, LabelsOf, CommonLabels, Trees
    <3>3. ASSUME NEW tree \in Trees, Put("staging", tree)
          PROVE  /\ \A q \in {"dest", "backup"} : fs'[op.name][q] = fs[op.name][q]
                 /\ \A n \in Names : n # op.name => fs'[n] = fs[n]
      BY <1>1, <3>3, PutTree DEF TypeOK, Places
    <3> QED BY <1>6, <3>1, <3>2, <3>3 DEF Unpack, UnpackEnd, Fail
  <2>2. Content' = Content
    BY <1>1, <2>1, ContentKept
  <2> QED BY <1>1, <1>6, <2>2 DEF Unpack, UnpackEnd, Fail, TookEffect
<1>7. CASE SetAside
  <2>1. CASE Move("dest", "backup", Absent) /\ pc' = "commit"
    <3>1. Content' = Content
      BY <1>1, <2>1, MoveTree, ContentKept DEF TypeOK, Places, Trees
    <3> QED BY <1>1, <1>7, <2>1, <3>1 DEF SetAside, TookEffect
  <2>2. CASE Goto("commit") \/ Fail("abort", "ERR_FILESYSTEM")
    <3>1. Content' = Content
      BY <1>1, <2>2, ContentKept DEF Goto, Fail
    <3> QED BY <1>1, <1>7, <2>2, <3>1 DEF SetAside, Goto, Fail, TookEffect
  <2> QED BY <1>7, <2>1, <2>2 DEF SetAside
<1>8. CASE Rollback
  <2>1. CASE Move("backup", "dest", Absent) /\ pc' = "abort"
    <3>1. Content' = Content
      BY <1>1, <2>1, MoveTree, ContentKept DEF TypeOK, Places, Trees
    <3> QED BY <1>1, <1>8, <2>1, <3>1 DEF Rollback, TookEffect
  <2>2. CASE Goto("abort")
    <3>1. Content' = Content
      BY <1>1, <2>2, ContentKept DEF Goto
    <3> QED BY <1>1, <1>8, <2>2, <3>1 DEF Rollback, Goto, TookEffect
  <2> QED BY <1>8, <2>1, <2>2 DEF Rollback
<1>9. CASE Abort
  <2>1. /\ \A q \in {"dest", "backup"} : fs'[op.name][q] = fs[op.name][q]
        /\ \A n \in Names : n # op.name => fs'[n] = fs[n]
        /\ code' = code
        /\ pc' \in {"return", "abort"}
    BY <1>1, <1>9, RemoveOutcomes DEF Abort, Places
  <2>2. Content' = Content
    BY <1>1, <2>1, ContentKept
  <2> QED BY <1>1, <1>9, <2>1, <2>2 DEF Abort, TookEffect, Phases, Bookkeeping
<1> QED BY <1>2, <1>3, <1>4, <1>5, <1>6, <1>7, <1>8, <1>9

\* From the commit on only leftovers are removed, and the operation stays
\* successful.
LEMMA CleaningSteps ==
    ASSUME TypeOK, Phases, "stat" \notin Faults, CleanStaging \/ CleanBackup
    PROVE  /\ Content' = Content
           /\ TookEffect /\ TookEffect'
           /\ UNCHANGED <<op, reply>>
<1>1. /\ op.name \in Names /\ UNCHANGED <<op, reply>>
      /\ op.kind = "install" /\ op.arch \in Archives
  BY CallFields DEF TypeOK, CleanStaging, CleanBackup, LabelsOf, CommonLabels
<1>2. fs[op.name]["dest"] # Absent
  BY <1>1, PackageConstants DEF Phases, Committed, CleanStaging, CleanBackup, At
<1>3. CASE CleanStaging
  <2>1. /\ \A q \in {"dest", "backup"} : fs'[op.name][q] = fs[op.name][q]
        /\ \A n \in Names : n # op.name => fs'[n] = fs[n]
        /\ pc' = "clean_backup" \/ pc' = pc
    BY <1>1, <1>3, RemoveOutcomes DEF CleanStaging, Places
  <2>2. Content' = Content
    BY <1>1, <2>1, ContentKept
  <2> QED BY <1>1, <1>3, <2>1, <2>2 DEF CleanStaging, TookEffect
<1>4. CASE CleanBackup
  <2>1. /\ \A q \in {"dest", "staging"} : fs'[op.name][q] = fs[op.name][q]
        /\ \A n \in Names : n # op.name => fs'[n] = fs[n]
        /\ \/ pc' = pc
           \/ pc' = "return" /\ code' \in {code, "OK_CLEANUP_PENDING"}
    <3>1. CASE replaced
      BY <1>1, <1>4, <3>1, RemoveOutcomes DEF CleanBackup, Places
    <3>2. CASE ~replaced
      BY <1>4, <3>2 DEF CleanBackup, Goto
    <3> QED BY <3>1, <3>2
  <2>2. Content' = Content
    BY <1>1, <1>2, <2>1, ContentKept
  <2>3. code \in Successes
    BY <1>4 DEF CleanBackup, Phases, Bookkeeping
  <2> QED BY <1>1, <1>4, <2>1, <2>2, <2>3 DEF CleanBackup, TookEffect, Successes
<1> QED BY <1>3, <1>4

LEMMA CommitSimulated ==
    ASSUME TypeOK, Phases, "stat" \notin Faults, Commit
    PROVE  Store!Switch \/ (Content' = Content /\ UNCHANGED <<op, TookEffect, reply>>)
<1>1. /\ op \in Calls /\ op.name \in Names /\ UNCHANGED <<op, reply>>
      /\ op.kind = "install" /\ op.arch \in Archives /\ op # NoCall
  BY CallFields DEF TypeOK, Commit, LabelsOf, CommonLabels
<1>2. ~TookEffect
  BY DEF Commit, TookEffect
<1>3. CASE Fail(IF replaced THEN "rollback" ELSE "abort", "ERR_FILESYSTEM")
  <2>1. Content' = Content
    BY <1>1, <1>3, ContentKept DEF Fail
  <2>2. ~TookEffect'
    BY <1>3 DEF Fail, TookEffect
  <2> QED BY <1>1, <1>2, <2>1, <2>2, TookEffectIsBoolean
<1>4. ASSUME NEW nested \in BOOLEAN,
             Move("staging", "dest", IF nested THEN Damaged ELSE Absent),
             pc' = (IF nested THEN "clean_staging" ELSE "clean_backup")
      PROVE  Store!Switch
  <2>1. /\ fs[op.name]["dest"] = Absent
        /\ fs'[op.name]["dest"] = fs[op.name]["staging"]
        /\ \A n \in Names : n # op.name => fs'[n] = fs[n]
    BY <1>1, <1>4, MoveTree DEF TypeOK, Places, Trees
  <2>2. fs[op.name]["staging"] = op.arch /\ op.arch # Absent
    BY <1>1, PackageConstants DEF Phases, Staged, Commit, At
  <2>3. Content' = [Content EXCEPT ![op.name] = op.arch]
    <3>1. ASSUME NEW n \in Names
          PROVE  Effective(n)' = IF n = op.name THEN op.arch ELSE Effective(n)
      BY <1>1, <2>1, <2>2 DEF Effective
    <3> QED BY <3>1 DEF Content
  <2>4. Content[op.name] # File
    BY <1>1, <2>1 DEF Content, Effective, Phases, BackupIsDirectory
  <2>5. TookEffect'
    BY <1>4 DEF TookEffect
  <2>6. (pc = "torn") = FALSE /\ (pc' = "torn") = FALSE
    BY NotTorn DEF Step
  <2> QED BY <1>1, <1>2, <2>3, <2>4, <2>5, <2>6 DEF Store!Switch, Content, StoreReply
<1> QED BY <1>3, <1>4 DEF Commit, RootIsNested

\* A rename that stops half way has switched the content, or left it alone.
LEMMA TearSimulated ==
    ASSUME TypeOK, Phases, TornRename
    PROVE  Store!Tear
<1>1. ~TookEffect /\ ~TookEffect'
  BY TornFacts DEF TornRename, TookEffect
<1>2. StoreReply' = "none"
  BY TornFacts DEF StoreReply, Successes
<1>3. op # NoCall
  BY TornFacts, CallFields
<1>4. CASE pc = "commit" /\ fs'[op.name]["dest"] = fs[op.name]["staging"]
           /\ fs[op.name]["dest"] = Absent
  <2>1. op.kind = "install" /\ op.arch \in Archives
    BY <1>4, TornFacts, CallFields DEF TypeOK, LabelsOf, CommonLabels
  <2>2. fs[op.name]["staging"] = op.arch /\ op.arch # Absent
    BY <1>4, <2>1, PackageConstants DEF Phases, Staged, At
  <2>3. Content' = [Content EXCEPT ![op.name] = op.arch]
    <3>1. ASSUME NEW n \in Names
          PROVE  Effective(n)' = IF n = op.name THEN op.arch ELSE Effective(n)
      BY <1>4, <2>2, TornFacts DEF Effective
    <3> QED BY <3>1 DEF Content
  <2>4. Content[op.name] # File
    BY <1>4, TornFacts DEF Content, Effective, Phases, BackupIsDirectory
  <2> QED BY <1>1, <1>2, <1>3, <2>1, <2>3, <2>4, TornFacts, TookEffectIsBoolean
          DEF Store!Tear, Content
<1>5. CASE \/ /\ fs[op.name]["dest"] = Absent
              /\ fs'[op.name]["backup"] = fs[op.name]["backup"]
              /\ fs'[op.name]["dest"] = fs[op.name]["backup"]
           \/ /\ fs[op.name]["dest"] # Absent
              /\ fs'[op.name]["dest"] = fs[op.name]["dest"]
  <2>1. Content' = Content
    <3>1. ASSUME NEW n \in Names PROVE Effective(n)' = Effective(n)
      BY <1>5, TornFacts DEF Effective
    <3> QED BY <3>1 DEF Content
  <2> QED BY <1>1, <1>2, <1>3, <2>1, TornFacts, TookEffectIsBoolean DEF Store!Tear, Content
<1> QED BY <1>4, <1>5, TornFacts

LEMMA DeleteSimulated ==
    ASSUME TypeOK, Phases, "stat" \notin Faults, DeleteDestination
    PROVE  \/ Store!Erode \/ Store!Erase
           \/ Content' = Content /\ UNCHANGED <<op, TookEffect, reply>>
<1>0. (pc = "torn") = FALSE /\ (pc' = "torn") = FALSE
  BY NotTorn DEF Step
<1>1. /\ op \in Calls /\ op.name \in Names /\ UNCHANGED <<op, reply>>
      /\ op.kind = "remove" /\ op # NoCall
  BY CallFields DEF TypeOK, DeleteDestination, LabelsOf, CommonLabels, InstallLabels
<1>2. ~TookEffect
  BY DEF DeleteDestination, TookEffect
<1>3. /\ fs[op.name]["dest"] \notin {Absent, File} /\ fs[op.name]["backup"] = Absent
      /\ code = "OK"
  BY DEF DeleteDestination, Phases, Staged, Recovered, Bookkeeping, At
<1>4. /\ fs'[op.name]["backup"] = fs[op.name]["backup"]
      /\ \A n \in Names : n # op.name => fs'[n] = fs[n]
      /\ \/ fs'[op.name]["dest"] = Damaged /\ pc' = pc
         \/ fs'[op.name]["dest"] = Absent /\ pc' = "return" /\ code' = code
         \/ UNCHANGED fs /\ pc' = "return" /\ code' = "ERR_FILESYSTEM"
  BY <1>1, DeleteOutcomes DEF DeleteDestination, Places
<1>5. Content[op.name] \notin {Absent, File}
  BY <1>1, <1>3 DEF Content, Effective
<1>6. ASSUME NEW tree \in {Damaged, Absent}, fs'[op.name]["dest"] = tree
      PROVE  Content' = [Content EXCEPT ![op.name] = tree]
  <2>1. ASSUME NEW n \in Names
        PROVE  Effective(n)' = IF n = op.name THEN tree ELSE Effective(n)
    BY <1>1, <1>3, <1>4, <1>6, PackageConstants DEF Effective
  <2> QED BY <2>1 DEF Content
<1>7. CASE fs'[op.name]["dest"] = Damaged /\ pc' = pc
  <2>1. ~TookEffect'
    BY <1>7 DEF DeleteDestination, TookEffect
  <2> QED BY <1>0, <1>1, <1>2, <1>5, <1>6, <1>7, <2>1, TookEffectIsBoolean DEF Store!Erode, Content, StoreReply
<1>8. CASE fs'[op.name]["dest"] = Absent /\ pc' = "return" /\ code' = code
  <2>1. TookEffect'
    BY <1>3, <1>8 DEF TookEffect, Successes
  <2> QED BY <1>0, <1>1, <1>2, <1>5, <1>6, <1>8, <2>1 DEF Store!Erase, Content, StoreReply
<1>9. CASE UNCHANGED fs /\ pc' = "return" /\ code' = "ERR_FILESYSTEM"
  <2>1. Content' = Content
    BY <1>1, <1>9, ContentKept
  <2>2. ~TookEffect'
    BY <1>9 DEF TookEffect, Successes
  <2> QED BY <1>1, <1>2, <2>1, <2>2, TookEffectIsBoolean
<1> QED BY <1>4, <1>7, <1>8, <1>9

\* The status, once it is returned, is the abstract reply.
LEMMA ReturnSimulated ==
    ASSUME TypeOK, Phases, Return
    PROVE  Store!Reply
<1>1. op # NoCall /\ op' = NoCall /\ pc' = "idle" /\ reply' = code /\ UNCHANGED fs
  BY CallFields DEF TypeOK, Return, Discard
<1>2. Content' = Content
  BY <1>1 DEF Content, Effective
<1>3. TookEffect <=> code \in Successes
  BY DEF Return, TookEffect
<1>4. ~TookEffect'
  BY <1>1 DEF TookEffect
<1>5. StoreReply' = IF TookEffect THEN "ok" ELSE "error"
  BY <1>1, <1>3 DEF StoreReply, TypeOK, Statuses, Successes
<1>6. (pc = "torn") = FALSE /\ (pc' = "torn") = FALSE
  BY NotTorn DEF Step
<1> QED BY <1>1, <1>2, <1>4, <1>5, <1>6 DEF Store!Reply, Content

LEMMA CallSimulated ==
    ASSUME TypeOK, NEW c \in Calls, Call(c)
    PROVE  Store!Request(c)
<1>1. op = NoCall /\ op' = c /\ reply' = "none" /\ UNCHANGED fs /\ pc' = "prepare"
  BY DEF TypeOK, Call
<1>2. Content' = Content
  BY <1>1 DEF Content, Effective
<1>3. TookEffect = FALSE /\ TookEffect' = FALSE
  BY <1>1 DEF Call, TookEffect
<1>4. StoreReply' = "none"
  BY <1>1 DEF StoreReply, Successes
<1>5. (pc = "torn") = FALSE /\ (pc' = "torn") = FALSE
  BY NotTorn
<1> QED BY <1>1, <1>2, <1>3, <1>4, <1>5 DEF Store!Request, Content

LEMMA CrashSimulated ==
    ASSUME TypeOK, Crash
    PROVE  Store!Restart
<1>1. op # NoCall /\ op' = NoCall /\ reply' = "none" /\ UNCHANGED fs /\ pc' = "idle"
  BY CallFields DEF TypeOK, Crash, Discard
<1>2. Content' = Content
  BY <1>1 DEF Content, Effective
<1>3. TookEffect' = FALSE
  BY <1>1 DEF TookEffect
<1>4. StoreReply' = "none"
  BY <1>1 DEF StoreReply, Successes
<1>5. (pc = "torn") = FALSE /\ (pc' = "torn") = FALSE
  BY NotTorn
<1> QED BY <1>1, <1>2, <1>3, <1>4, <1>5 DEF Store!Restart, Content

LEMMA InitStored == Init => Store!StoreInit
<1> SUFFICES ASSUME Init PROVE Store!StoreInit
  OBVIOUS
<1>1. Content \in [Names -> Trees]
  BY DEF Init, Content, Effective, Places
<1>2. TookEffect = FALSE /\ StoreReply = "none"
  BY DEF Init, TookEffect, StoreReply, Successes
<1> QED BY <1>1, <1>2 DEF Init, Store!StoreInit, Store!Contents, Trees, Content

LEMMA StepStored ==
    ASSUME TypeOK, Phases, "stat" \notin Faults, [Next]_vars
    PROVE  [Store!StoreNext]_<<Content, op, TookEffect, pc = "torn", StoreReply>>
<1> USE DEF Store!StoreNext
<1>1. CASE UNCHANGED vars
  BY <1>1 DEF vars, Content, Effective, TookEffect, StoreReply
<1>2. ASSUME NEW c \in Calls, Call(c)
      PROVE  Store!StoreNext
  BY <1>2, CallSimulated DEF Store!Calls, Calls
<1>3. CASE Crash
  BY <1>3, CrashSimulated
<1>4. CASE Return
  BY <1>4, ReturnSimulated
<1>5. CASE DeleteDestination
  BY <1>5, DeleteSimulated, NotTorn DEF StoreReply, Step
<1>6. CASE Commit
  BY <1>6, CommitSimulated, NotTorn DEF StoreReply, Step
<1>7. CASE CleanStaging \/ CleanBackup
  BY <1>7, CleaningSteps, TookEffectIsBoolean, NotTorn DEF StoreReply, Step
<1>8. CASE \/ Prepare \/ RecoverBackup \/ RecoverDropBackup \/ RecoverDropStaging
           \/ Check \/ Unpack \/ UnpackEnd \/ SetAside \/ Rollback \/ Abort
  BY <1>8, HiddenSteps, TookEffectIsBoolean, NotTorn DEF StoreReply, Step
<1>9. CASE TornRename
  BY <1>9, TearSimulated
<1>10. CASE Torn
  BY <1>10 DEF Torn, vars, Content, Effective, TookEffect, StoreReply
<1> QED BY <1>1, <1>2, <1>3, <1>4, <1>5, <1>6, <1>7, <1>8, <1>9, <1>10 DEF Next, Step

\* Through crashes anywhere, and failures of any call but f_stat, an install is
\* one switch of the package's content or nothing, only an uninstall erodes a
\* package, and the reply tells whether the call took effect: for every set of
\* names and archives the package manager implements the store it promises,
\* whose Tear says what is left of the promise when f_rename stops half way.
THEOREM TransactionIsAtomic ==
    ASSUME "stat" \notin Faults
    PROVE  Spec => ImplementsStore
<1>1. TypeOK /\ Phases /\ [Next]_vars
        => [Store!StoreNext]_<<Content, op, TookEffect, pc = "torn", StoreReply>>
  BY StepStored
<1>2. Store!StoreSpec <=>
        Store!StoreInit /\ [][Store!StoreNext]_<<Content, op, TookEffect, pc = "torn", StoreReply>>
  BY DEF Store!StoreSpec, Store!storeVars, Content
<1> QED BY <1>1, <1>2, InitStored, TypeCorrect, PhasesHold, PTL
        DEF Spec, ImplementsStore
=============================================================================
