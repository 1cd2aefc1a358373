--------------------------- MODULE BootMediaProofs ---------------------------
(***************************************************************************)
(* What BootMedia.tla's runs check on small instances, for every number of *)
(* savers, every set of programs, every image, bundle and bound.           *)
(***************************************************************************)
EXTENDS BootMedia, FiniteSetTheorems, TLAPS

USE SaverAssumption, ActorAssumption, ImageAssumption, BundleAssumption,
    FaultAssumption, BoundAssumption, FileAssumption

LEMMA InitType == Init => TypeOK
  <1> SUFFICES ASSUME Init PROVE TypeOK
    OBVIOUS
  <1> USE DEF Init
  <1>1. canon \in Ovl /\ kg \in Ovl /\ loaded \in Ovl
    BY DEF Ovl, Owner
  <1>2. ram \in OvlRunning
    BY DEF OvlRunning, Owner
  <1>3. src \in Source
    BY DEF Source, NoSource, File
  <1>4. pc \in [Proc -> Label]
    BY DEF Label
  <1>5. canonTs \in 0..MaxWrites /\ clock \in 0..MaxWrites /\ ver \in 0..MaxVer
    OBVIOUS
  <1> QED
    BY <1>1, <1>2, <1>3, <1>4, <1>5 DEF TypeOK, File

(* Every step keeps the types. *)
LEMMA StepType ==
    ASSUME TypeOK, CandidateInv, [Next]_vars
    PROVE  TypeOK'
  <1> USE DEF TypeOK, File, Label, OvlRunning, At, Goto, Step, Release, Acquire,
              WriteCanon, Room, media, run, Proc
  <1>1. ASSUME NEW p \in SaveProc, SaveSteps(p) PROVE TypeOK'
    <2>1. CASE SaveLock(p)    BY <2>1 DEF SaveLock, SaveProc
    <2>2. CASE SaveRefused(p) BY <2>2 DEF SaveRefused, SaveProc
    <2>3. CASE SavePackage(p) BY <2>3 DEF SavePackage, SaveProc, Package, Ovl
    <2>4. CASE SaveQuit(p)    BY <2>4 DEF SaveQuit, SaveProc
    <2>5. CASE SaveCopy(p)    BY <2>5 DEF SaveCopy, SaveProc
    <2>6. CASE SaveRotate(p)  BY <2>6 DEF SaveRotate, SaveProc, Rotated
    <2>7. CASE SaveInstall(p) BY <2>7 DEF SaveInstall, SaveProc
    <2> QED BY <1>1, <2>1, <2>2, <2>3, <2>4, <2>5, <2>6, <2>7 DEF SaveSteps
  <1>2. ASSUME NEW p \in Saver, Save(p) PROVE TypeOK'
    <2>1. CASE SaveStart(p) BY <2>1 DEF SaveStart
    <2>2. CASE SavePrune(p) BY <2>2 DEF SavePrune
    <2> QED BY <1>1, <1>2, <2>1, <2>2 DEF Save, SaveProc
  <1>3. ASSUME NEW p \in Proc, GiveUp(p) PROVE TypeOK'
    BY <1>3 DEF GiveUp
  <1>4. ASSUME "rollback" \in Actor, Rollback PROVE TypeOK'
    <2>1. CASE RollbackStart
      <3>1. \A s \in Sources : s \in Source
        BY DEF Sources, Source, Ovl
      <3> QED BY <1>4, <2>1, <3>1 DEF RollbackStart
    <2>2. CASE RollbackLock    BY <1>4, <2>2 DEF RollbackLock
    <2>3. CASE RollbackCopy
      <3>1. SourceFile(src) \subseteq File
        BY DEF SourceFile, Named, Source
      <3> QED BY <1>4, <2>3, <3>1 DEF RollbackCopy
    <2>4. CASE RollbackQuit    BY <1>4, <2>4 DEF RollbackQuit, NoSource, Source
    <2>5. CASE RollbackInstall BY <1>4, <2>5 DEF RollbackInstall, NoSource, Source
    <2> QED BY <1>4, <2>1, <2>2, <2>3, <2>4, <2>5 DEF Rollback
  <1>5. ASSUME "promote" \in Actor, Promote PROVE TypeOK'
    <2>1. CASE PromoteStart   BY <1>5, <2>1 DEF PromoteStart
    <2>2. CASE PromoteLock    BY <1>5, <2>2 DEF PromoteLock
    <2>3. CASE PromoteSkip    BY <1>5, <2>3 DEF PromoteSkip
    <2>4. CASE PromoteCopy    BY <1>5, <2>4 DEF PromoteCopy
    <2>5. CASE PromoteQuit    BY <1>5, <2>5 DEF PromoteQuit
    <2>6. CASE PromoteInstall BY <1>5, <2>6 DEF PromoteInstall
    <2> QED BY <1>5, <2>1, <2>2, <2>3, <2>4, <2>5, <2>6 DEF Promote
  <1>6. ASSUME "apply" \in Actor, Apply PROVE TypeOK'
    <2>1. CASE ApplyStart     BY <1>6, <2>1 DEF ApplyStart
    <2>2. CASE ApplyLock      BY <1>6, <2>2 DEF ApplyLock
    <2>3. CASE ApplyMerge     BY <1>6, <2>3 DEF ApplyMerge, Package, Ovl
    <2>4. CASE ApplyQuit
      <3>1. pc' \in [Proc -> Label] /\ lock' = "free" /\ tmp' = None
        BY <1>6, <2>4 DEF ApplyQuit
      <3>2. mounted' \in BOOLEAN
        BY <2>4 DEF ApplyQuit
      <3>3. UNCHANGED <<media, up, ram, rbFence, flFence, src, ver, clock, loaded>>
        BY <2>4 DEF ApplyQuit
      <3> QED BY <3>1, <3>2, <3>3
    <2>5. CASE ApplyErase     BY <1>6, <2>5 DEF ApplyErase
    <2>6. CASE ApplyWritten
      <3>1. tmp \in Ovl => tmp.img \in Image /\ Generic(tmp.img) \in Ovl
        BY DEF Generic, Ovl, Owner
      <3>2. tmp \in Ovl
        BY <1>6, <2>6 DEF ApplyWritten, CandidateInv
      <3> QED BY <1>6, <2>6, <3>1, <3>2 DEF ApplyWritten
    <2>7. CASE ApplyDies      BY <1>6, <2>7 DEF ApplyDies
    <2>8. CASE ApplyIdentity  BY <1>6, <2>8 DEF ApplyIdentity
    <2>9. CASE ApplyKnownGood BY <1>6, <2>9 DEF ApplyKnownGood
    <2>10. CASE ApplyFence    BY <1>6, <2>10 DEF ApplyFence
    <2> QED BY <1>6, <2>1, <2>2, <2>3, <2>4, <2>5, <2>6, <2>7, <2>8, <2>9, <2>10
            DEF Apply
  <1>7. ASSUME "unclaim" \in Actor, Unclaim PROVE TypeOK'
    <2>1. CASE UnclaimStart     BY <1>7, <2>1 DEF UnclaimStart, Owner
    <2>2. CASE UnclaimAbort     BY <1>7, <2>2 DEF UnclaimAbort
    <2>3. CASE UnclaimSave      BY <1>7, <2>3 DEF UnclaimSave, Owner
    <2>4. CASE UnclaimKgCopy    BY <1>7, <2>4 DEF UnclaimKgCopy
    <2>5. CASE UnclaimKgInstall BY <1>7, <2>5 DEF UnclaimKgInstall
    <2>6. CASE UnclaimWipe      BY <1>7, <2>6 DEF UnclaimWipe
    <2> QED BY <1>1, <1>7, <2>1, <2>2, <2>3, <2>4, <2>5, <2>6 DEF Unclaim, SaveProc
  <1>8. CASE Box
    <2>1. CASE Configure BY <2>1 DEF Configure
    <2>2. CASE Claim     BY <2>2 DEF Claim, Owner
    <2>3. CASE PowerLoss
      <3>1. NoSource \in Source /\ [st |-> 0, img |-> mimg, own |-> "nobody"] \in OvlRunning
        BY DEF NoSource, Source, Owner
      <3>2. Rotated(Torn) \subseteq [ts: 0..MaxWrites, ovl: File]
        BY DEF Rotated
      <3>3. kg' \in File /\ rots' \subseteq [ts: 0..MaxWrites, ovl: File]
        BY <2>3, <3>2 DEF PowerLoss
      <3> QED BY <2>3, <3>1, <3>3 DEF PowerLoss
    <2>4. CASE Boot      BY <2>4 DEF Boot, Ovl
    <2>5. CASE Reflash   BY <2>5 DEF Reflash, Generic, Ovl, Owner
    <2> QED BY <1>8, <2>1, <2>2, <2>3, <2>4, <2>5 DEF Box
  <1>9. CASE UNCHANGED vars
    BY <1>9 DEF vars
  <1> QED
    BY <1>2, <1>3, <1>4, <1>5, <1>6, <1>7, <1>8, <1>9 DEF Next

LEMMA FreeIsNoProcess == "free" \notin Proc
  BY DEF Proc, Program

(* The flock keeps one program at a time inside. *)
LEMMA StepLock ==
    ASSUME TypeOK, LockInv, [Next]_vars
    PROVE  LockInv'
  <1> USE DEF TypeOK, LockInv, Inside, Resting, At, Goto, Step, Release, Acquire, run, Label
  <1>1. ASSUME NEW p \in SaveProc, SaveSteps(p) PROVE LockInv'
    <2>0. p \in Proc BY <1>1 DEF SaveProc, Proc
    <2>1. CASE SaveLock(p) BY FreeIsNoProcess, <2>0, <2>1 DEF SaveLock
    <2>2. CASE SaveRefused(p) BY FreeIsNoProcess, <2>0, <2>2 DEF SaveRefused
    <2>3. CASE SavePackage(p) BY FreeIsNoProcess, <2>0, <2>3 DEF SavePackage
    <2>4. CASE SaveQuit(p) BY FreeIsNoProcess, <2>0, <2>4 DEF SaveQuit
    <2>5. CASE SaveCopy(p) BY FreeIsNoProcess, <2>0, <2>5 DEF SaveCopy
    <2>6. CASE SaveRotate(p) BY FreeIsNoProcess, <2>0, <2>6 DEF SaveRotate
    <2>7. CASE SaveInstall(p) BY FreeIsNoProcess, <2>0, <2>7 DEF SaveInstall
    <2> QED BY <1>1, <2>1, <2>2, <2>3, <2>4, <2>5, <2>6, <2>7 DEF SaveSteps
  <1>2. ASSUME NEW p \in Saver, Save(p) PROVE LockInv'
    <2>0. p \in Proc /\ p \in SaveProc BY <1>2 DEF SaveProc, Proc
    <2>1. CASE SaveStart(p) BY FreeIsNoProcess, <2>0, <2>1 DEF SaveStart
    <2>2. CASE SavePrune(p) BY FreeIsNoProcess, <2>0, <2>2 DEF SavePrune
    <2> QED BY <1>1, <1>2, <2>0, <2>1, <2>2 DEF Save
  <1>3. ASSUME NEW p \in Proc, GiveUp(p) PROVE LockInv'
    BY FreeIsNoProcess, <1>3 DEF GiveUp
  <1>4. ASSUME "rollback" \in Actor, Rollback PROVE LockInv'
    <2>0. "rollback" \in Proc BY <1>4 DEF Proc
    <2>1. CASE RollbackStart BY FreeIsNoProcess, <1>4, <2>0, <2>1 DEF RollbackStart
    <2>2. CASE RollbackLock BY FreeIsNoProcess, <1>4, <2>0, <2>2 DEF RollbackLock
    <2>3. CASE RollbackCopy BY FreeIsNoProcess, <1>4, <2>0, <2>3 DEF RollbackCopy
    <2>4. CASE RollbackQuit BY FreeIsNoProcess, <1>4, <2>0, <2>4 DEF RollbackQuit
    <2>5. CASE RollbackInstall BY FreeIsNoProcess, <1>4, <2>0, <2>5 DEF RollbackInstall
    <2> QED BY <1>4, <2>1, <2>2, <2>3, <2>4, <2>5 DEF Rollback
  <1>5. ASSUME "promote" \in Actor, Promote PROVE LockInv'
    <2>0. "promote" \in Proc BY <1>5 DEF Proc
    <2>1. CASE PromoteStart BY FreeIsNoProcess, <1>5, <2>0, <2>1 DEF PromoteStart
    <2>2. CASE PromoteLock BY FreeIsNoProcess, <1>5, <2>0, <2>2 DEF PromoteLock
    <2>3. CASE PromoteSkip BY FreeIsNoProcess, <1>5, <2>0, <2>3 DEF PromoteSkip
    <2>4. CASE PromoteCopy BY FreeIsNoProcess, <1>5, <2>0, <2>4 DEF PromoteCopy
    <2>5. CASE PromoteQuit BY FreeIsNoProcess, <1>5, <2>0, <2>5 DEF PromoteQuit
    <2>6. CASE PromoteInstall BY FreeIsNoProcess, <1>5, <2>0, <2>6 DEF PromoteInstall
    <2> QED BY <1>5, <2>1, <2>2, <2>3, <2>4, <2>5, <2>6 DEF Promote
  <1>6. ASSUME "apply" \in Actor, Apply PROVE LockInv'
    <2>0. "apply" \in Proc BY <1>6 DEF Proc
    <2>1. CASE ApplyStart BY FreeIsNoProcess, <1>6, <2>0, <2>1 DEF ApplyStart
    <2>2. CASE ApplyLock BY FreeIsNoProcess, <1>6, <2>0, <2>2 DEF ApplyLock
    <2>3. CASE ApplyMerge BY FreeIsNoProcess, <1>6, <2>0, <2>3 DEF ApplyMerge
    <2>4. CASE ApplyQuit BY FreeIsNoProcess, <1>6, <2>0, <2>4 DEF ApplyQuit
    <2>5. CASE ApplyErase BY FreeIsNoProcess, <1>6, <2>0, <2>5 DEF ApplyErase
    <2>6. CASE ApplyWritten BY FreeIsNoProcess, <1>6, <2>0, <2>6 DEF ApplyWritten
    <2>7. CASE ApplyDies BY FreeIsNoProcess, <1>6, <2>0, <2>7 DEF ApplyDies
    <2>8. CASE ApplyIdentity BY FreeIsNoProcess, <1>6, <2>0, <2>8 DEF ApplyIdentity
    <2>9. CASE ApplyKnownGood BY FreeIsNoProcess, <1>6, <2>0, <2>9 DEF ApplyKnownGood
    <2>10. CASE ApplyFence BY FreeIsNoProcess, <1>6, <2>0, <2>10 DEF ApplyFence
    <2> QED BY <1>6, <2>1, <2>2, <2>3, <2>4, <2>5, <2>6, <2>7, <2>8, <2>9, <2>10 DEF Apply
  <1>7. ASSUME "unclaim" \in Actor, Unclaim PROVE LockInv'
    <2>0. "unclaim" \in Proc BY <1>7 DEF Proc
    <2>1. CASE UnclaimStart BY FreeIsNoProcess, <1>7, <2>0, <2>1 DEF UnclaimStart
    <2>2. CASE UnclaimAbort BY FreeIsNoProcess, <1>7, <2>0, <2>2 DEF UnclaimAbort
    <2>3. CASE UnclaimSave BY FreeIsNoProcess, <1>7, <2>0, <2>3 DEF UnclaimSave
    <2>4. CASE UnclaimKgCopy BY FreeIsNoProcess, <1>7, <2>0, <2>4 DEF UnclaimKgCopy
    <2>5. CASE UnclaimKgInstall BY FreeIsNoProcess, <1>7, <2>0, <2>5 DEF UnclaimKgInstall
    <2>6. CASE UnclaimWipe BY FreeIsNoProcess, <1>7, <2>0, <2>6 DEF UnclaimWipe
    <2> QED BY <1>1, <1>7, <2>1, <2>2, <2>3, <2>4, <2>5, <2>6 DEF Unclaim, SaveProc
  <1>8. CASE Box
    <2>1. CASE Configure BY FreeIsNoProcess, <2>1 DEF Configure
    <2>2. CASE Claim BY FreeIsNoProcess, <2>2 DEF Claim
    <2>3. CASE PowerLoss BY FreeIsNoProcess, <2>3 DEF PowerLoss
    <2>4. CASE Boot BY FreeIsNoProcess, <2>4 DEF Boot
    <2>5. CASE Reflash BY FreeIsNoProcess, <2>5 DEF Reflash
    <2> QED BY <1>8, <2>1, <2>2, <2>3, <2>4, <2>5 DEF Box
  <1>9. CASE UNCHANGED vars BY <1>9 DEF vars
  <1> QED
    BY <1>2, <1>3, <1>4, <1>5, <1>6, <1>7, <1>8, <1>9 DEF Next

(* A candidate, once packaged, stays whole: only the holder of the lock    *)
(* writes or drops it.                                                     *)
LEMMA StepCandidate ==
    ASSUME TypeOK, LockInv, CandidateInv, [Next]_vars
    PROVE  CandidateInv'
  <1> USE DEF LockInv, CandidateInv, Inside, At, Goto, Step, Release,
              Acquire, run, Label
  <1>0. Package \in Ovl /\ (\A i \in Image : [Package EXCEPT !.img = i] \in Ovl)
    BY DEF TypeOK, Package, Ovl, OvlRunning
  <1>A. SaveProc \subseteq Proc /\ Actor \cap {"apply"} \subseteq Proc
    BY DEF SaveProc, Proc
  <1>B. pc \in [Proc -> Label]
    BY DEF TypeOK
  <1>1. ASSUME NEW p \in SaveProc, SaveSteps(p) PROVE CandidateInv'
    <2>0. p \in Proc BY <1>1 DEF SaveProc, Proc
    <2>1. CASE SaveLock(p) BY FreeIsNoProcess, <1>0, <1>A, <1>B, <2>0, <2>1 DEF SaveLock
    <2>2. CASE SaveRefused(p) BY FreeIsNoProcess, <1>0, <1>A, <1>B, <2>0, <2>2 DEF SaveRefused
    <2>3. CASE SavePackage(p) BY FreeIsNoProcess, <1>0, <1>A, <1>B, <2>0, <2>3 DEF SavePackage
    <2>4. CASE SaveQuit(p) BY FreeIsNoProcess, <1>0, <1>A, <1>B, <2>0, <2>4 DEF SaveQuit
    <2>5. CASE SaveCopy(p) BY FreeIsNoProcess, <1>0, <1>A, <1>B, <2>0, <2>5 DEF SaveCopy
    <2>6. CASE SaveRotate(p) BY FreeIsNoProcess, <1>0, <1>A, <1>B, <2>0, <2>6 DEF SaveRotate
    <2>7. CASE SaveInstall(p) BY FreeIsNoProcess, <1>0, <1>A, <1>B, <2>0, <2>7 DEF SaveInstall
    <2> QED BY <1>1, <2>1, <2>2, <2>3, <2>4, <2>5, <2>6, <2>7 DEF SaveSteps
  <1>2. ASSUME NEW p \in Saver, Save(p) PROVE CandidateInv'
    <2>0. p \in Proc /\ p \in SaveProc BY <1>2 DEF SaveProc, Proc
    <2>1. CASE SaveStart(p) BY FreeIsNoProcess, <1>0, <1>A, <1>B, <2>0, <2>1 DEF SaveStart
    <2>2. CASE SavePrune(p) BY FreeIsNoProcess, <1>0, <1>A, <1>B, <2>0, <2>2 DEF SavePrune
    <2> QED BY <1>1, <1>2, <2>0, <2>1, <2>2 DEF Save
  <1>3. ASSUME NEW p \in Proc, GiveUp(p) PROVE CandidateInv'
    BY FreeIsNoProcess, <1>0, <1>A, <1>B, <1>3 DEF GiveUp
  <1>4. ASSUME "rollback" \in Actor, Rollback PROVE CandidateInv'
    <2>0. "rollback" \in Proc BY <1>4 DEF Proc
    <2>1. CASE RollbackStart BY FreeIsNoProcess, <1>0, <1>A, <1>B, <1>4, <2>0, <2>1 DEF RollbackStart
    <2>2. CASE RollbackLock BY FreeIsNoProcess, <1>0, <1>A, <1>B, <1>4, <2>0, <2>2
                             DEF RollbackLock, SaveProc, Program
    <2>3. CASE RollbackCopy BY FreeIsNoProcess, <1>0, <1>A, <1>B, <1>4, <2>0, <2>3 DEF RollbackCopy
    <2>4. CASE RollbackQuit BY FreeIsNoProcess, <1>0, <1>A, <1>B, <1>4, <2>0, <2>4 DEF RollbackQuit
    <2>5. CASE RollbackInstall BY FreeIsNoProcess, <1>0, <1>A, <1>B, <1>4, <2>0, <2>5 DEF RollbackInstall
    <2> QED BY <1>4, <2>1, <2>2, <2>3, <2>4, <2>5 DEF Rollback
  <1>5. ASSUME "promote" \in Actor, Promote PROVE CandidateInv'
    <2>0. "promote" \in Proc BY <1>5 DEF Proc
    <2>1. CASE PromoteStart BY FreeIsNoProcess, <1>0, <1>A, <1>B, <1>5, <2>0, <2>1 DEF PromoteStart
    <2>2. CASE PromoteLock BY FreeIsNoProcess, <1>0, <1>A, <1>B, <1>5, <2>0, <2>2 DEF PromoteLock
    <2>3. CASE PromoteSkip BY FreeIsNoProcess, <1>0, <1>A, <1>B, <1>5, <2>0, <2>3 DEF PromoteSkip
    <2>4. CASE PromoteCopy BY FreeIsNoProcess, <1>0, <1>A, <1>B, <1>5, <2>0, <2>4 DEF PromoteCopy
    <2>5. CASE PromoteQuit BY FreeIsNoProcess, <1>0, <1>A, <1>B, <1>5, <2>0, <2>5 DEF PromoteQuit
    <2>6. CASE PromoteInstall BY FreeIsNoProcess, <1>0, <1>A, <1>B, <1>5, <2>0, <2>6 DEF PromoteInstall
    <2> QED BY <1>5, <2>1, <2>2, <2>3, <2>4, <2>5, <2>6 DEF Promote
  <1>6. ASSUME "apply" \in Actor, Apply PROVE CandidateInv'
    <2>0. "apply" \in Proc BY <1>6 DEF Proc
    <2>1. CASE ApplyStart BY FreeIsNoProcess, <1>0, <1>A, <1>B, <1>6, <2>0, <2>1 DEF ApplyStart
    <2>2. CASE ApplyLock BY FreeIsNoProcess, <1>0, <1>A, <1>B, <1>6, <2>0, <2>2 DEF ApplyLock
    <2>3. CASE ApplyMerge BY FreeIsNoProcess, <1>0, <1>A, <1>B, <1>6, <2>0, <2>3 DEF ApplyMerge
    <2>4. CASE ApplyQuit BY FreeIsNoProcess, <1>0, <1>A, <1>B, <1>6, <2>0, <2>4 DEF ApplyQuit
    <2>5. CASE ApplyErase BY FreeIsNoProcess, <1>0, <1>A, <1>B, <1>6, <2>0, <2>5 DEF ApplyErase
    <2>6. CASE ApplyWritten BY FreeIsNoProcess, <1>0, <1>A, <1>B, <1>6, <2>0, <2>6 DEF ApplyWritten
    <2>7. CASE ApplyDies BY FreeIsNoProcess, <1>0, <1>A, <1>B, <1>6, <2>0, <2>7 DEF ApplyDies
    <2>8. CASE ApplyIdentity BY FreeIsNoProcess, <1>0, <1>A, <1>B, <1>6, <2>0, <2>8 DEF ApplyIdentity
    <2>9. CASE ApplyKnownGood BY FreeIsNoProcess, <1>0, <1>A, <1>B, <1>6, <2>0, <2>9 DEF ApplyKnownGood
    <2>10. CASE ApplyFence BY FreeIsNoProcess, <1>0, <1>A, <1>B, <1>6, <2>0, <2>10 DEF ApplyFence
    <2> QED BY <1>6, <2>1, <2>2, <2>3, <2>4, <2>5, <2>6, <2>7, <2>8, <2>9, <2>10 DEF Apply
  <1>7. ASSUME "unclaim" \in Actor, Unclaim PROVE CandidateInv'
    <2>0. "unclaim" \in Proc BY <1>7 DEF Proc
    <2>1. CASE UnclaimStart BY FreeIsNoProcess, <1>0, <1>A, <1>B, <1>7, <2>0, <2>1 DEF UnclaimStart
    <2>2. CASE UnclaimAbort BY FreeIsNoProcess, <1>0, <1>A, <1>B, <1>7, <2>0, <2>2 DEF UnclaimAbort
    <2>3. CASE UnclaimSave BY FreeIsNoProcess, <1>0, <1>A, <1>B, <1>7, <2>0, <2>3 DEF UnclaimSave
    <2>4. CASE UnclaimKgCopy BY FreeIsNoProcess, <1>0, <1>A, <1>B, <1>7, <2>0, <2>4 DEF UnclaimKgCopy
    <2>5. CASE UnclaimKgInstall BY FreeIsNoProcess, <1>0, <1>A, <1>B, <1>7, <2>0, <2>5 DEF UnclaimKgInstall
    <2>6. CASE UnclaimWipe BY FreeIsNoProcess, <1>0, <1>A, <1>B, <1>7, <2>0, <2>6 DEF UnclaimWipe
    <2> QED BY <1>1, <1>7, <2>1, <2>2, <2>3, <2>4, <2>5, <2>6 DEF Unclaim, SaveProc
  <1>8. CASE Box
    <2>1. CASE Configure BY FreeIsNoProcess, <1>0, <1>A, <1>B, <2>1 DEF Configure
    <2>2. CASE Claim BY FreeIsNoProcess, <1>0, <1>A, <1>B, <2>2 DEF Claim
    <2>3. CASE PowerLoss BY FreeIsNoProcess, <1>0, <1>A, <1>B, <2>3 DEF PowerLoss
    <2>4. CASE Boot BY FreeIsNoProcess, <1>0, <1>A, <1>B, <2>4 DEF Boot
    <2>5. CASE Reflash BY FreeIsNoProcess, <1>0, <1>A, <1>B, <2>5 DEF Reflash
    <2> QED BY <1>8, <2>1, <2>2, <2>3, <2>4, <2>5 DEF Box
  <1>9. CASE UNCHANGED vars BY <1>9 DEF vars
  <1> QED
    BY <1>2, <1>3, <1>4, <1>5, <1>6, <1>7, <1>8, <1>9 DEF Next

(* The fences rise only as their writer drops the lock.                    *)
LEMMA StepFence ==
    ASSUME TypeOK, LockInv, FenceInv, [Next]_vars
    PROVE  FenceInv'
  <1> USE DEF LockInv, FenceInv, Fenced, Inside, At, Goto, Step, Release,
              Acquire, run, Label, SaveProc, Program
  <1>B. pc \in [Proc -> Label]
    BY DEF TypeOK
  <1>1. ASSUME NEW p \in SaveProc, SaveSteps(p) PROVE FenceInv'
    <2>0. p \in Proc BY <1>1 DEF SaveProc, Proc
    <2>1. CASE SaveLock(p) BY FreeIsNoProcess, <1>B, <2>0, <2>1 DEF SaveLock
    <2>2. CASE SaveRefused(p) BY FreeIsNoProcess, <1>B, <2>0, <2>2 DEF SaveRefused
    <2>3. CASE SavePackage(p) BY FreeIsNoProcess, <1>B, <2>0, <2>3 DEF SavePackage
    <2>4. CASE SaveQuit(p) BY FreeIsNoProcess, <1>B, <2>0, <2>4 DEF SaveQuit
    <2>5. CASE SaveCopy(p) BY FreeIsNoProcess, <1>B, <2>0, <2>5 DEF SaveCopy
    <2>6. CASE SaveRotate(p) BY FreeIsNoProcess, <1>B, <2>0, <2>6 DEF SaveRotate
    <2>7. CASE SaveInstall(p) BY FreeIsNoProcess, <1>B, <2>0, <2>7 DEF SaveInstall
    <2> QED BY <1>1, <2>1, <2>2, <2>3, <2>4, <2>5, <2>6, <2>7 DEF SaveSteps
  <1>2. ASSUME NEW p \in Saver, Save(p) PROVE FenceInv'
    <2>0. p \in Proc /\ p \in SaveProc BY <1>2 DEF SaveProc, Proc
    <2>1. CASE SaveStart(p) BY FreeIsNoProcess, <1>B, <2>0, <2>1 DEF SaveStart
    <2>2. CASE SavePrune(p) BY FreeIsNoProcess, <1>B, <2>0, <2>2 DEF SavePrune
    <2> QED BY <1>1, <1>2, <2>0, <2>1, <2>2 DEF Save
  <1>3. ASSUME NEW p \in Proc, GiveUp(p) PROVE FenceInv'
    BY FreeIsNoProcess, <1>B, <1>3 DEF GiveUp
  <1>4. ASSUME "rollback" \in Actor, Rollback PROVE FenceInv'
    <2>0. "rollback" \in Proc BY <1>4 DEF Proc
    <2>1. CASE RollbackStart BY FreeIsNoProcess, <1>B, <1>4, <2>0, <2>1 DEF RollbackStart
    <2>2. CASE RollbackLock BY FreeIsNoProcess, <1>B, <1>4, <2>0, <2>2 DEF RollbackLock
    <2>3. CASE RollbackCopy BY FreeIsNoProcess, <1>B, <1>4, <2>0, <2>3 DEF RollbackCopy
    <2>4. CASE RollbackQuit BY FreeIsNoProcess, <1>B, <1>4, <2>0, <2>4 DEF RollbackQuit
    <2>5. CASE RollbackInstall BY FreeIsNoProcess, <1>B, <1>4, <2>0, <2>5 DEF RollbackInstall
    <2> QED BY <1>4, <2>1, <2>2, <2>3, <2>4, <2>5 DEF Rollback
  <1>5. ASSUME "promote" \in Actor, Promote PROVE FenceInv'
    <2>0. "promote" \in Proc BY <1>5 DEF Proc
    <2>1. CASE PromoteStart BY FreeIsNoProcess, <1>B, <1>5, <2>0, <2>1 DEF PromoteStart
    <2>2. CASE PromoteLock BY FreeIsNoProcess, <1>B, <1>5, <2>0, <2>2 DEF PromoteLock
    <2>3. CASE PromoteSkip BY FreeIsNoProcess, <1>B, <1>5, <2>0, <2>3 DEF PromoteSkip
    <2>4. CASE PromoteCopy BY FreeIsNoProcess, <1>B, <1>5, <2>0, <2>4 DEF PromoteCopy
    <2>5. CASE PromoteQuit BY FreeIsNoProcess, <1>B, <1>5, <2>0, <2>5 DEF PromoteQuit
    <2>6. CASE PromoteInstall BY FreeIsNoProcess, <1>B, <1>5, <2>0, <2>6 DEF PromoteInstall
    <2> QED BY <1>5, <2>1, <2>2, <2>3, <2>4, <2>5, <2>6 DEF Promote
  <1>6. ASSUME "apply" \in Actor, Apply PROVE FenceInv'
    <2>0. "apply" \in Proc BY <1>6 DEF Proc
    <2>1. CASE ApplyStart BY FreeIsNoProcess, <1>B, <1>6, <2>0, <2>1 DEF ApplyStart
    <2>2. CASE ApplyLock BY FreeIsNoProcess, <1>B, <1>6, <2>0, <2>2 DEF ApplyLock
    <2>3. CASE ApplyMerge BY FreeIsNoProcess, <1>B, <1>6, <2>0, <2>3 DEF ApplyMerge
    <2>4. CASE ApplyQuit BY FreeIsNoProcess, <1>B, <1>6, <2>0, <2>4 DEF ApplyQuit
    <2>5. CASE ApplyErase BY FreeIsNoProcess, <1>B, <1>6, <2>0, <2>5 DEF ApplyErase
    <2>6. CASE ApplyWritten BY FreeIsNoProcess, <1>B, <1>6, <2>0, <2>6 DEF ApplyWritten
    <2>7. CASE ApplyDies BY FreeIsNoProcess, <1>B, <1>6, <2>0, <2>7 DEF ApplyDies
    <2>8. CASE ApplyIdentity BY FreeIsNoProcess, <1>B, <1>6, <2>0, <2>8 DEF ApplyIdentity
    <2>9. CASE ApplyKnownGood BY FreeIsNoProcess, <1>B, <1>6, <2>0, <2>9 DEF ApplyKnownGood
    <2>10. CASE ApplyFence BY FreeIsNoProcess, <1>B, <1>6, <2>0, <2>10 DEF ApplyFence
    <2> QED BY <1>6, <2>1, <2>2, <2>3, <2>4, <2>5, <2>6, <2>7, <2>8, <2>9, <2>10 DEF Apply
  <1>7. ASSUME "unclaim" \in Actor, Unclaim PROVE FenceInv'
    <2>0. "unclaim" \in Proc BY <1>7 DEF Proc
    <2>1. CASE UnclaimStart BY FreeIsNoProcess, <1>B, <1>7, <2>0, <2>1 DEF UnclaimStart
    <2>2. CASE UnclaimAbort BY FreeIsNoProcess, <1>B, <1>7, <2>0, <2>2 DEF UnclaimAbort
    <2>3. CASE UnclaimSave BY FreeIsNoProcess, <1>B, <1>7, <2>0, <2>3 DEF UnclaimSave
    <2>4. CASE UnclaimKgCopy BY FreeIsNoProcess, <1>B, <1>7, <2>0, <2>4 DEF UnclaimKgCopy
    <2>5. CASE UnclaimKgInstall BY FreeIsNoProcess, <1>B, <1>7, <2>0, <2>5 DEF UnclaimKgInstall
    <2>6. CASE UnclaimWipe BY FreeIsNoProcess, <1>B, <1>7, <2>0, <2>6 DEF UnclaimWipe
    <2> QED BY <1>1, <1>7, <2>1, <2>2, <2>3, <2>4, <2>5, <2>6 DEF Unclaim, SaveProc
  <1>8. CASE Box
    <2>1. CASE Configure BY FreeIsNoProcess, <1>B, <2>1 DEF Configure
    <2>2. CASE Claim BY FreeIsNoProcess, <1>B, <2>2 DEF Claim
    <2>3. CASE PowerLoss BY FreeIsNoProcess, <1>B, <2>3 DEF PowerLoss
    <2>4. CASE Boot BY FreeIsNoProcess, <1>B, <2>4 DEF Boot
    <2>5. CASE Reflash BY FreeIsNoProcess, <1>B, <2>5 DEF Reflash
    <2> QED BY <1>8, <2>1, <2>2, <2>3, <2>4, <2>5 DEF Box
  <1>9. CASE UNCHANGED vars BY <1>9 DEF vars
  <1> QED
    BY <1>2, <1>3, <1>4, <1>5, <1>6, <1>7, <1>8, <1>9 DEF Next

(* With no half-made copy that a rollback may stage, nothing torn is ever  *)
(* renamed into place.                                                     *)
LEMMA StepWhole ==
    ASSUME TypeOK, LockInv, CandidateInv, WholeInv,
           "rollback" \in Actor => "rotation" \notin Fault /\ "late-apply" \notin Fault, [Next]_vars
    PROVE  WholeInv'
  <1> USE DEF LockInv, CandidateInv, WholeInv, Inside, At, Goto, Step, Release,
              Acquire, media, run, Label, SaveProc, Program,
              Named
  <1>B. pc \in [Proc -> Label]
    BY DEF TypeOK
  <1>1. ASSUME NEW p \in SaveProc, SaveSteps(p) PROVE WholeInv'
    <2>0. p \in Proc BY <1>1 DEF SaveProc, Proc
    <2>1. CASE SaveLock(p) BY FreeIsNoProcess, <1>B, <2>0, <2>1 DEF SaveLock
    <2>2. CASE SaveRefused(p) BY FreeIsNoProcess, <1>B, <2>0, <2>2 DEF SaveRefused
    <2>3. CASE SavePackage(p) BY FreeIsNoProcess, <1>B, <2>0, <2>3 DEF SavePackage
    <2>4. CASE SaveQuit(p) BY FreeIsNoProcess, <1>B, <2>0, <2>4 DEF SaveQuit
    <2>5. CASE SaveCopy(p) BY FreeIsNoProcess, <1>B, <2>0, <2>5 DEF SaveCopy
    <2>6. CASE SaveRotate(p) BY FreeIsNoProcess, <1>B, <2>0, <2>6 DEF SaveRotate, Rotated
    <2>7. CASE SaveInstall(p) BY FreeIsNoProcess, <1>B, <2>0, <2>7 DEF SaveInstall, WriteCanon
    <2> QED BY <1>1, <2>1, <2>2, <2>3, <2>4, <2>5, <2>6, <2>7 DEF SaveSteps
  <1>2. ASSUME NEW p \in Saver, Save(p) PROVE WholeInv'
    <2>0. p \in Proc /\ p \in SaveProc BY <1>2 DEF SaveProc, Proc
    <2>1. CASE SaveStart(p) BY FreeIsNoProcess, <1>B, <2>0, <2>1 DEF SaveStart
    <2>2. CASE SavePrune(p) BY FreeIsNoProcess, <1>B, <2>0, <2>2 DEF SavePrune
    <2> QED BY <1>1, <1>2, <2>0, <2>1, <2>2 DEF Save
  <1>3. ASSUME NEW p \in Proc, GiveUp(p) PROVE WholeInv'
    BY FreeIsNoProcess, <1>B, <1>3 DEF GiveUp
  <1>4. ASSUME "rollback" \in Actor, Rollback PROVE WholeInv'
    <2>0. "rollback" \in Proc BY <1>4 DEF Proc
    <2>1. CASE RollbackStart BY FreeIsNoProcess, <1>B, <1>4, <2>0, <2>1 DEF RollbackStart, SourceFile
    <2>2. CASE RollbackLock BY FreeIsNoProcess, <1>B, <1>4, <2>0, <2>2 DEF RollbackLock
    <2>3. CASE RollbackCopy BY FreeIsNoProcess, <1>B, <1>4, <2>0, <2>3 DEF RollbackCopy, SourceFile
    <2>4. CASE RollbackQuit BY FreeIsNoProcess, <1>B, <1>4, <2>0, <2>4 DEF RollbackQuit, NoSource
    <2>5. CASE RollbackInstall BY FreeIsNoProcess, <1>B, <1>4, <2>0, <2>5 DEF RollbackInstall, WriteCanon
    <2> QED BY <1>4, <2>1, <2>2, <2>3, <2>4, <2>5 DEF Rollback
  <1>5. ASSUME "promote" \in Actor, Promote PROVE WholeInv'
    <2>0. "promote" \in Proc BY <1>5 DEF Proc
    <2>1. CASE PromoteStart BY FreeIsNoProcess, <1>B, <1>5, <2>0, <2>1 DEF PromoteStart
    <2>2. CASE PromoteLock BY FreeIsNoProcess, <1>B, <1>5, <2>0, <2>2 DEF PromoteLock
    <2>3. CASE PromoteSkip BY FreeIsNoProcess, <1>B, <1>5, <2>0, <2>3 DEF PromoteSkip
    <2>4. CASE PromoteCopy BY FreeIsNoProcess, <1>B, <1>5, <2>0, <2>4 DEF PromoteCopy
    <2>5. CASE PromoteQuit BY FreeIsNoProcess, <1>B, <1>5, <2>0, <2>5 DEF PromoteQuit
    <2>6. CASE PromoteInstall BY FreeIsNoProcess, <1>B, <1>5, <2>0, <2>6 DEF PromoteInstall
    <2> QED BY <1>5, <2>1, <2>2, <2>3, <2>4, <2>5, <2>6 DEF Promote
  <1>6. ASSUME "apply" \in Actor, Apply PROVE WholeInv'
    <2>0. "apply" \in Proc BY <1>6 DEF Proc
    <2>1. CASE ApplyStart BY FreeIsNoProcess, <1>B, <1>6, <2>0, <2>1 DEF ApplyStart
    <2>2. CASE ApplyLock BY FreeIsNoProcess, <1>B, <1>6, <2>0, <2>2 DEF ApplyLock
    <2>3. CASE ApplyMerge BY FreeIsNoProcess, <1>B, <1>6, <2>0, <2>3 DEF ApplyMerge
    <2>4. CASE ApplyQuit
      <3>1. lock = "apply"
        BY <1>6, <2>0, <2>4 DEF ApplyQuit
      <3>2. \A p \in Proc : pc'[p] \notin Inside /\ pc'[p] \in {pc[p], "idle"}
        BY <1>B, <2>0, <2>4, <3>1 DEF ApplyQuit
      <3>3. SaveProc \subseteq Proc /\ Actor \subseteq Proc
        BY DEF Proc
      <3>4. UNCHANGED <<canon, kg, rots, p1, src>> /\ (mounted' => mounted)
        BY <1>B, <2>4 DEF ApplyQuit
      <3> QED BY <1>B, <1>6, <2>0, <2>4, <3>1, <3>2, <3>3, <3>4
    <2>5. CASE ApplyErase
      <3>1. \A p \in Proc : pc'[p] # pc[p] => pc'[p] = "dd"
        BY <1>B, <2>0, <2>5 DEF ApplyErase
      <3>2. \A p \in Proc \ {"apply"} : pc'[p] \notin Inside
        BY <1>B, <2>0, <2>5 DEF ApplyErase
      <3>3. SaveProc \subseteq Proc \ {"apply"} /\ Actor \subseteq Proc
        BY DEF Proc
      <3>4. Named(src)' \subseteq Named(src)
        BY <2>5 DEF ApplyErase
      <3>5. pc'["apply"] = "dd" /\ ~mounted' /\ p1' # "ok"
        BY <1>B, <2>0, <2>5 DEF ApplyErase
      <3> QED BY <3>1, <3>2, <3>3, <3>4, <3>5
    <2>6. CASE ApplyWritten
      <3>1. tmp \in Ovl
        BY <1>6, <2>6 DEF ApplyWritten
      <3>2. Generic(tmp.img) \in Ovl
        BY <3>1 DEF Generic, Ovl, Owner
      <3> QED BY <1>B, <1>6, <2>0, <2>6, <3>2 DEF ApplyWritten
    <2>7. CASE ApplyDies
      <3>1. lock = "apply" /\ pc["apply"] \in {"dd", "identity"}
        BY <1>6, <2>0, <2>7 DEF ApplyDies
      <3>2. \A p \in Proc : pc'[p] \notin Inside /\ pc'[p] \in {pc[p], "idle"}
        BY <1>B, <2>0, <2>7, <3>1 DEF ApplyDies
      <3>3. SaveProc \subseteq Proc /\ Actor \subseteq Proc
        BY DEF Proc
      <3>4. UNCHANGED <<canon, kg, rots, p1, src>> /\ (mounted' => pc["apply"] = "identity")
        BY <2>7, <3>1 DEF ApplyDies
      <3>5. mounted' => p1 = "ok"
        BY <1>6, <3>4
      <3>6. "rollback" \in Actor => "late-apply" \notin Fault
        OBVIOUS
      <3> QED BY <1>B, <1>6, <2>0, <2>7, <3>1, <3>2, <3>3, <3>4, <3>5
    <2>8. CASE ApplyIdentity BY FreeIsNoProcess, <1>B, <1>6, <2>0, <2>8 DEF ApplyIdentity, WriteCanon
    <2>9. CASE ApplyKnownGood BY FreeIsNoProcess, <1>B, <1>6, <2>0, <2>9 DEF ApplyKnownGood
    <2>10. CASE ApplyFence BY FreeIsNoProcess, <1>B, <1>6, <2>0, <2>10 DEF ApplyFence
    <2> QED BY <1>6, <2>1, <2>2, <2>3, <2>4, <2>5, <2>6, <2>7, <2>8, <2>9, <2>10 DEF Apply
  <1>7. ASSUME "unclaim" \in Actor, Unclaim PROVE WholeInv'
    <2>0. "unclaim" \in Proc BY <1>7 DEF Proc
    <2>1. CASE UnclaimStart BY FreeIsNoProcess, <1>B, <1>7, <2>0, <2>1 DEF UnclaimStart
    <2>2. CASE UnclaimAbort BY FreeIsNoProcess, <1>B, <1>7, <2>0, <2>2 DEF UnclaimAbort
    <2>3. CASE UnclaimSave BY FreeIsNoProcess, <1>B, <1>7, <2>0, <2>3 DEF UnclaimSave
    <2>4. CASE UnclaimKgCopy
      <3>1. lock = "unclaim" /\ "unclaim" \in SaveProc /\ canon \in Ovl
        BY <1>7, <2>0, <2>4 DEF UnclaimKgCopy
      <3>2. \A p \in Proc \ {"unclaim"} : pc[p] \notin Inside /\ pc'[p] = pc[p]
        BY <1>B, <2>0, <2>4, <3>1 DEF UnclaimKgCopy
      <3>3. \A p \in Proc : pc'[p] = "kginstall" => kgNew' \in Ovl
        BY <1>B, <2>0, <2>4, <3>1, <3>2 DEF UnclaimKgCopy
      <3>4. UNCHANGED <<canon, ovlNew, kg, rots, p1, mounted, src>> /\ mounted
        BY <3>1, <1>7, <2>0, <2>4 DEF UnclaimKgCopy
      <3>5. pc'["unclaim"] \in {"kginstall", "wipe"}
        BY <1>B, <2>0, <2>4 DEF UnclaimKgCopy
      <3>6. SaveProc \subseteq Proc /\ Actor \subseteq Proc
        BY DEF Proc
      <3>7. Named(src)' = Named(src)
        BY <3>4
      <3> QED BY <3>2, <3>3, <3>4, <3>5, <3>6, <3>7
    <2>5. CASE UnclaimKgInstall BY FreeIsNoProcess, <1>B, <1>7, <2>0, <2>5 DEF UnclaimKgInstall
    <2>6. CASE UnclaimWipe BY FreeIsNoProcess, <1>B, <1>7, <2>0, <2>6 DEF UnclaimWipe
    <2> QED BY <1>1, <1>7, <2>1, <2>2, <2>3, <2>4, <2>5, <2>6 DEF Unclaim, SaveProc
  <1>8. CASE Box
    <2>1. CASE Configure BY FreeIsNoProcess, <1>B, <2>1 DEF Configure
    <2>2. CASE Claim BY FreeIsNoProcess, <1>B, <2>2 DEF Claim
    <2>3. CASE PowerLoss
      <3>1. \A p \in Proc : pc'[p] \in {"idle", "absent"}
        BY <2>3 DEF PowerLoss, Resting
      <3>2. SaveProc \subseteq Proc /\ Actor \subseteq Proc
        BY DEF Proc
      <3>3. ~mounted' /\ canon' = canon /\ p1' = p1
        BY <2>3 DEF PowerLoss
      <3> QED BY <3>1, <3>2, <3>3
    <2>4. CASE Boot BY FreeIsNoProcess, <1>B, <2>4 DEF Boot
    <2>5. CASE Reflash BY FreeIsNoProcess, <1>B, <2>5 DEF Reflash, Generic, Ovl, Owner
    <2> QED BY <1>8, <2>1, <2>2, <2>3, <2>4, <2>5 DEF Box
  <1>9. CASE UNCHANGED vars BY <1>9 DEF vars
  <1> QED
    BY <1>2, <1>3, <1>4, <1>5, <1>6, <1>7, <1>8, <1>9 DEF Next

(* Without a bundle taken on another image and with applies that do not die *)
(* after the erase, every apkovl under way carries the overlay of mimg.    *)
LEMMA StepImage ==
    ASSUME TypeOK, LockInv, CandidateInv, FenceInv, ImageInv,
           Bundle = {}, "late-apply" \notin Fault, [Next]_vars
    PROVE  ImageInv'
  <1> USE DEF LockInv, FenceInv, Fenced, ImageInv, OverlayMatchesImage, OnMedia, Mine,
              Applying, CandidateInv, Inside, At, Goto, Step, Release, Acquire,
              media, run, Label, SaveProc, Program
  <1>B. pc \in [Proc -> Label] /\ p1 \in {"ok", "writing"} /\ Actor \subseteq Proc
    BY DEF TypeOK, Proc
  <1>1. ASSUME NEW p \in SaveProc, SaveSteps(p) PROVE ImageInv'
    <2>0. p \in Proc BY <1>1 DEF SaveProc, Proc
    <2>1. CASE SaveLock(p) BY FreeIsNoProcess, <1>B, <2>0, <2>1 DEF SaveLock
    <2>2. CASE SaveRefused(p) BY FreeIsNoProcess, <1>B, <2>0, <2>2 DEF SaveRefused
    <2>3. CASE SavePackage(p) BY FreeIsNoProcess, <1>B, <2>0, <2>3 DEF SavePackage, Package
    <2>4. CASE SaveQuit(p) BY FreeIsNoProcess, <1>B, <2>0, <2>4 DEF SaveQuit
    <2>5. CASE SaveCopy(p) BY FreeIsNoProcess, <1>B, <2>0, <2>5 DEF SaveCopy
    <2>6. CASE SaveRotate(p) BY FreeIsNoProcess, <1>B, <2>0, <2>6 DEF SaveRotate, Rotated
    <2>7. CASE SaveInstall(p) BY FreeIsNoProcess, <1>B, <2>0, <2>7 DEF SaveInstall, WriteCanon
    <2> QED BY <1>1, <2>1, <2>2, <2>3, <2>4, <2>5, <2>6, <2>7 DEF SaveSteps
  <1>2. ASSUME NEW p \in Saver, Save(p) PROVE ImageInv'
    <2>0. p \in Proc /\ p \in SaveProc BY <1>2 DEF SaveProc, Proc
    <2>1. CASE SaveStart(p) BY FreeIsNoProcess, <1>B, <2>0, <2>1 DEF SaveStart
    <2>2. CASE SavePrune(p) BY FreeIsNoProcess, <1>B, <2>0, <2>2 DEF SavePrune
    <2> QED BY <1>1, <1>2, <2>0, <2>1, <2>2 DEF Save
  <1>3. ASSUME NEW p \in Proc, GiveUp(p) PROVE ImageInv'
    BY FreeIsNoProcess, <1>B, <1>3 DEF GiveUp
  <1>4. ASSUME "rollback" \in Actor, Rollback PROVE ImageInv'
    <2>0. "rollback" \in Proc BY <1>4 DEF Proc
    <2>1. CASE RollbackStart BY FreeIsNoProcess, <1>B, <1>4, <2>0, <2>1 DEF RollbackStart, Sources
    <2>2. CASE RollbackLock BY FreeIsNoProcess, <1>B, <1>4, <2>0, <2>2 DEF RollbackLock
    <2>3. CASE RollbackCopy BY FreeIsNoProcess, <1>B, <1>4, <2>0, <2>3 DEF RollbackCopy, Named, SourceFile
    <2>4. CASE RollbackQuit BY FreeIsNoProcess, <1>B, <1>4, <2>0, <2>4 DEF RollbackQuit, NoSource
    <2>5. CASE RollbackInstall BY FreeIsNoProcess, <1>B, <1>4, <2>0, <2>5 DEF RollbackInstall, WriteCanon, NoSource
    <2> QED BY <1>4, <2>1, <2>2, <2>3, <2>4, <2>5 DEF Rollback
  <1>5. ASSUME "promote" \in Actor, Promote PROVE ImageInv'
    <2>0. "promote" \in Proc BY <1>5 DEF Proc
    <2>1. CASE PromoteStart BY FreeIsNoProcess, <1>B, <1>5, <2>0, <2>1 DEF PromoteStart
    <2>2. CASE PromoteLock BY FreeIsNoProcess, <1>B, <1>5, <2>0, <2>2 DEF PromoteLock
    <2>3. CASE PromoteSkip BY FreeIsNoProcess, <1>B, <1>5, <2>0, <2>3 DEF PromoteSkip
    <2>4. CASE PromoteCopy BY FreeIsNoProcess, <1>B, <1>5, <2>0, <2>4 DEF PromoteCopy
    <2>5. CASE PromoteQuit BY FreeIsNoProcess, <1>B, <1>5, <2>0, <2>5 DEF PromoteQuit
    <2>6. CASE PromoteInstall BY FreeIsNoProcess, <1>B, <1>5, <2>0, <2>6 DEF PromoteInstall
    <2> QED BY <1>5, <2>1, <2>2, <2>3, <2>4, <2>5, <2>6 DEF Promote
  <1>6. ASSUME "apply" \in Actor, Apply PROVE ImageInv'
    <2>0. "apply" \in Proc BY <1>6 DEF Proc
    <2>1. CASE ApplyStart BY FreeIsNoProcess, <1>B, <1>6, <2>0, <2>1 DEF ApplyStart
    <2>2. CASE ApplyLock BY FreeIsNoProcess, <1>B, <1>6, <2>0, <2>2 DEF ApplyLock
    <2>3. CASE ApplyMerge
      <3>1. pc'["apply"] = "confirm" /\ pc["apply"] = "package" /\ lock = "apply"
        BY <1>B, <2>0, <2>3 DEF ApplyMerge
      <3>2. \A p \in Proc \ {"apply"} : pc'[p] = pc[p] /\ pc'[p] \notin Inside
        BY <1>B, <2>0, <2>3, <3>1 DEF ApplyMerge
      <3>3. SaveProc \subseteq Proc \ {"apply"}
        BY DEF Proc
      <3>4. UNCHANGED <<canon, ovlNew, kg, kgNew, rots, mimg, p1, up, mounted,
                        ram, flFence, src>>
        BY <2>3 DEF ApplyMerge
      <3> QED BY <1>B, <3>1, <3>2, <3>3, <3>4
    <2>4. CASE ApplyQuit
      <3>1. lock = "apply"
        BY <1>6, <2>0, <2>4 DEF ApplyQuit
      <3>2. \A p \in Proc : pc'[p] \notin Inside /\ pc'[p] \in {pc[p], "idle"}
        BY <1>B, <2>0, <2>4, <3>1 DEF ApplyQuit
      <3>3. SaveProc \subseteq Proc /\ Actor \subseteq Proc
        BY DEF Proc
      <3>4. UNCHANGED <<canon, kg, rots, mimg, p1, up, ram, flFence, src>> /\ (mounted' => mounted)
        BY <1>B, <2>4 DEF ApplyQuit
      <3>5. ~Applying /\ ~Applying'
        BY <2>0, <2>4, <3>2 DEF ApplyQuit
      <3> QED BY <1>B, <3>2, <3>3, <3>4, <3>5
    <2>5. CASE ApplyErase
      <3>1. pc'["apply"] = "dd" /\ lock = "apply"
        BY <1>B, <2>0, <2>5 DEF ApplyErase
      <3>2. \A p \in Proc \ {"apply"} : pc'[p] \notin Inside
        BY <1>B, <2>0, <2>5, <3>1 DEF ApplyErase
      <3>3. SaveProc \subseteq Proc \ {"apply"}
        BY DEF Proc
      <3>4. p1' = "writing" /\ kg' = None /\ rots' = {} /\ ~mounted' /\ src' = src
        BY <2>5 DEF ApplyErase
      <3> QED BY <1>6, <3>1, <3>2, <3>3, <3>4
    <2>6. CASE ApplyWritten
      <3>1. lock = "apply" /\ pc["apply"] = "dd" /\ pc'["apply"] = "identity"
        BY <1>B, <1>6, <2>0, <2>6 DEF ApplyWritten
      <3>2. \A p \in Proc \ {"apply"} : pc'[p] = pc[p] /\ pc'[p] \notin Inside
        BY <1>B, <2>0, <2>6, <3>1 DEF ApplyWritten
      <3>3. SaveProc \subseteq Proc \ {"apply"}
        BY DEF Proc
      <3>4. p1' = "ok" /\ mimg' = tmp.img /\ tmp' = tmp /\ up' = up /\ src' = src
        BY <2>6 DEF ApplyWritten
      <3>5. Generic(tmp.img).img = tmp.img
        BY DEF Generic
      <3>6. OnMedia' \subseteq {Generic(tmp.img)} \/ p1 = "ok"
        BY <1>B, <2>6 DEF ApplyWritten
      <3>7. p1 # "ok"
        BY <1>6, <3>1
      <3> QED BY <1>B, <1>6, <3>1, <3>2, <3>3, <3>4, <3>5, <3>6, <3>7
    <2>7. CASE ApplyDies BY FreeIsNoProcess, <1>B, <1>6, <2>0, <2>7 DEF ApplyDies
    <2>8. CASE ApplyIdentity BY FreeIsNoProcess, <1>B, <1>6, <2>0, <2>8 DEF ApplyIdentity, WriteCanon
    <2>9. CASE ApplyKnownGood BY FreeIsNoProcess, <1>B, <1>6, <2>0, <2>9 DEF ApplyKnownGood
    <2>10. CASE ApplyFence BY FreeIsNoProcess, <1>B, <1>6, <2>0, <2>10 DEF ApplyFence
    <2> QED BY <1>6, <2>1, <2>2, <2>3, <2>4, <2>5, <2>6, <2>7, <2>8, <2>9, <2>10 DEF Apply
  <1>7. ASSUME "unclaim" \in Actor, Unclaim PROVE ImageInv'
    <2>0. "unclaim" \in Proc BY <1>7 DEF Proc
    <2>1. CASE UnclaimStart BY FreeIsNoProcess, <1>B, <1>7, <2>0, <2>1 DEF UnclaimStart
    <2>2. CASE UnclaimAbort BY FreeIsNoProcess, <1>B, <1>7, <2>0, <2>2 DEF UnclaimAbort
    <2>3. CASE UnclaimSave BY FreeIsNoProcess, <1>B, <1>7, <2>0, <2>3 DEF UnclaimSave
    <2>4. CASE UnclaimKgCopy
      <3>1. lock = "unclaim" /\ "unclaim" \in SaveProc /\ mounted
        BY <1>7, <2>0, <2>4 DEF UnclaimKgCopy
      <3>2. \A p \in Proc \ {"unclaim"} : pc'[p] = pc[p] /\ pc'[p] \notin Inside
        BY <1>B, <2>0, <2>4, <3>1 DEF UnclaimKgCopy
      <3>3. /\ pc'["unclaim"] \in {"kginstall", "wipe"}
            /\ pc'["unclaim"] = "kginstall" => kgNew' = canon
        BY <1>B, <2>0, <2>4 DEF UnclaimKgCopy
      <3>4. UNCHANGED <<canon, ovlNew, kg, rots, mimg, p1, up, mounted, ram,
                        flFence, tmp, src>>
        BY <2>4 DEF UnclaimKgCopy
      <3>5. Mine(canon)
        BY <3>1
      <3>6. SaveProc \subseteq Proc
        BY DEF Proc
      <3> QED BY <1>B, <3>1, <3>2, <3>3, <3>4, <3>5, <3>6
    <2>5. CASE UnclaimKgInstall BY FreeIsNoProcess, <1>B, <1>7, <2>0, <2>5 DEF UnclaimKgInstall
    <2>6. CASE UnclaimWipe BY FreeIsNoProcess, <1>B, <1>7, <2>0, <2>6 DEF UnclaimWipe
    <2> QED BY <1>1, <1>7, <2>1, <2>2, <2>3, <2>4, <2>5, <2>6 DEF Unclaim, SaveProc
  <1>8. CASE Box
    <2>1. CASE Configure BY FreeIsNoProcess, <1>B, <2>1 DEF Configure
    <2>2. CASE Claim BY FreeIsNoProcess, <1>B, <2>2 DEF Claim
    <2>3. CASE PowerLoss
      <3>1. \A p \in Proc : pc'[p] \in {"idle", "absent"}
        BY <2>3 DEF PowerLoss, Resting
      <3>2. SaveProc \subseteq Proc
        BY DEF Proc
      <3>3. ~mounted' /\ ~up' /\ p1' = p1 /\ mimg' = mimg /\ src'.ovl = None
        BY <2>3 DEF PowerLoss, NoSource
      <3>4. OnMedia' \subseteq OnMedia
        BY <2>3 DEF PowerLoss, Rotated
      <3>5. p1 = "writing" => kg' = None /\ rots' = {}
        BY <1>B, <2>3, FreeIsNoProcess DEF PowerLoss, Writing
      <3> QED BY <1>B, <3>1, <3>2, <3>3, <3>4, <3>5
    <2>4. CASE Boot BY FreeIsNoProcess, <1>B, <2>4 DEF Boot
    <2>5. CASE Reflash BY FreeIsNoProcess, <1>B, <2>5 DEF Reflash, Generic
    <2> QED BY <1>8, <2>1, <2>2, <2>3, <2>4, <2>5 DEF Box
  <1>9. CASE UNCHANGED vars BY <1>9 DEF vars
  <1> QED
    BY <1>2, <1>3, <1>4, <1>5, <1>6, <1>7, <1>8, <1>9 DEF Next

LEMMA RotatedIsFinite ==
    ASSUME NEW o, IsFiniteSet(rots)
    PROVE  IsFiniteSet(Rotated(o))
  <1>1. IsFiniteSet({r \in rots : r.ts # canonTs})
    BY FS_Subset
  <1>2. {r \in rots : r.ts # canonTs} \cup {[ts |-> canonTs, ovl |-> o]}
           = Rotated(o)
    BY DEF Rotated
  <1> QED BY <1>1, <1>2, FS_AddElement

(* A rotation, once written, is there until the save has renamed.           *)
LEMMA StepUndo ==
    ASSUME TypeOK, LockInv, UndoInv, "rotation" \notin Fault, [Next]_vars
    PROVE  UndoInv'
  <1> USE DEF LockInv, UndoInv, Inside, At, Goto, Step, Release, Acquire, media, run,
              Label, SaveProc, Program
  <1>B. pc \in [Proc -> Label] /\ Saver \subseteq Proc
    BY DEF TypeOK, Proc
  <1>1. ASSUME NEW p \in SaveProc, SaveSteps(p) PROVE UndoInv'
    <2>0. p \in Proc BY <1>1 DEF SaveProc, Proc
    <2>1. CASE SaveLock(p) BY FreeIsNoProcess, <1>B, <2>0, <2>1 DEF SaveLock
    <2>2. CASE SaveRefused(p) BY FreeIsNoProcess, <1>B, <2>0, <2>2 DEF SaveRefused
    <2>3. CASE SavePackage(p) BY FreeIsNoProcess, <1>B, <2>0, <2>3 DEF SavePackage
    <2>4. CASE SaveQuit(p) BY FreeIsNoProcess, <1>B, <2>0, <2>4 DEF SaveQuit
    <2>5. CASE SaveCopy(p) BY FreeIsNoProcess, <1>B, <2>0, <2>5 DEF SaveCopy
    <2>6. CASE SaveRotate(p)
      <3>1. rots' = Rotated(canon) /\ canon' = canon
        BY <2>6 DEF SaveRotate
      <3>2. [ts |-> canonTs, ovl |-> canon] \in rots'
        BY <3>1 DEF Rotated
      <3>3. IsFiniteSet(rots')
        BY <3>1, RotatedIsFinite
      <3> QED BY <3>1, <3>2, <3>3
    <2>7. CASE SaveInstall(p) BY FreeIsNoProcess, <1>B, <2>0, <2>7 DEF SaveInstall, WriteCanon
    <2> QED BY <1>1, <2>1, <2>2, <2>3, <2>4, <2>5, <2>6, <2>7 DEF SaveSteps
  <1>2. ASSUME NEW p \in Saver, Save(p) PROVE UndoInv'
    <2>0. p \in Proc /\ p \in SaveProc BY <1>2 DEF SaveProc, Proc
    <2>1. CASE SaveStart(p) BY FreeIsNoProcess, <1>B, <2>0, <2>1 DEF SaveStart
    <2>2. CASE SavePrune(p)
      <3>1. IsFiniteSet(rots')
        BY <2>2, FS_Subset DEF SavePrune
      <3>2. \A q \in Proc : pc'[q] \notin Inside
        BY FreeIsNoProcess, <1>B, <2>0, <2>2 DEF SavePrune
      <3> QED BY <1>B, <3>1, <3>2
    <2> QED BY <1>1, <1>2, <2>0, <2>1, <2>2 DEF Save
  <1>3. ASSUME NEW p \in Proc, GiveUp(p) PROVE UndoInv'
    BY FreeIsNoProcess, <1>B, <1>3 DEF GiveUp
  <1>4. ASSUME "rollback" \in Actor, Rollback PROVE UndoInv'
    <2>0. "rollback" \in Proc BY <1>4 DEF Proc
    <2>1. CASE RollbackStart BY FreeIsNoProcess, <1>B, <1>4, <2>0, <2>1 DEF RollbackStart
    <2>2. CASE RollbackLock BY FreeIsNoProcess, <1>B, <1>4, <2>0, <2>2 DEF RollbackLock
    <2>3. CASE RollbackCopy BY FreeIsNoProcess, <1>B, <1>4, <2>0, <2>3 DEF RollbackCopy
    <2>4. CASE RollbackQuit BY FreeIsNoProcess, <1>B, <1>4, <2>0, <2>4 DEF RollbackQuit
    <2>5. CASE RollbackInstall BY FreeIsNoProcess, <1>B, <1>4, <2>0, <2>5 DEF RollbackInstall, WriteCanon
    <2> QED BY <1>4, <2>1, <2>2, <2>3, <2>4, <2>5 DEF Rollback
  <1>5. ASSUME "promote" \in Actor, Promote PROVE UndoInv'
    <2>0. "promote" \in Proc BY <1>5 DEF Proc
    <2>1. CASE PromoteStart BY FreeIsNoProcess, <1>B, <1>5, <2>0, <2>1 DEF PromoteStart
    <2>2. CASE PromoteLock BY FreeIsNoProcess, <1>B, <1>5, <2>0, <2>2 DEF PromoteLock
    <2>3. CASE PromoteSkip BY FreeIsNoProcess, <1>B, <1>5, <2>0, <2>3 DEF PromoteSkip
    <2>4. CASE PromoteCopy BY FreeIsNoProcess, <1>B, <1>5, <2>0, <2>4 DEF PromoteCopy
    <2>5. CASE PromoteQuit BY FreeIsNoProcess, <1>B, <1>5, <2>0, <2>5 DEF PromoteQuit
    <2>6. CASE PromoteInstall BY FreeIsNoProcess, <1>B, <1>5, <2>0, <2>6 DEF PromoteInstall
    <2> QED BY <1>5, <2>1, <2>2, <2>3, <2>4, <2>5, <2>6 DEF Promote
  <1>6. ASSUME "apply" \in Actor, Apply PROVE UndoInv'
    <2>0. "apply" \in Proc BY <1>6 DEF Proc
    <2>1. CASE ApplyStart BY FreeIsNoProcess, <1>B, <1>6, <2>0, <2>1 DEF ApplyStart
    <2>2. CASE ApplyLock BY FreeIsNoProcess, <1>B, <1>6, <2>0, <2>2 DEF ApplyLock
    <2>3. CASE ApplyMerge BY FreeIsNoProcess, <1>B, <1>6, <2>0, <2>3 DEF ApplyMerge
    <2>4. CASE ApplyQuit BY FreeIsNoProcess, <1>B, <1>6, <2>0, <2>4 DEF ApplyQuit
    <2>5. CASE ApplyErase
      <3>1. lock = "apply" /\ rots' = {}
        BY <1>B, <2>0, <2>5 DEF ApplyErase
      <3>2. \A q \in Saver : pc'[q] \notin Inside
        BY <1>B, <2>0, <3>1, <2>5 DEF ApplyErase
      <3> QED BY <3>1, <3>2, FS_EmptySet
    <2>6. CASE ApplyWritten BY FreeIsNoProcess, <1>B, <1>6, <2>0, <2>6 DEF ApplyWritten
    <2>7. CASE ApplyDies BY FreeIsNoProcess, <1>B, <1>6, <2>0, <2>7 DEF ApplyDies
    <2>8. CASE ApplyIdentity BY FreeIsNoProcess, <1>B, <1>6, <2>0, <2>8 DEF ApplyIdentity, WriteCanon
    <2>9. CASE ApplyKnownGood
      <3>1. lock = "apply" /\ rots' = {}
        BY <1>B, <2>0, <2>9 DEF ApplyKnownGood
      <3>2. \A q \in Saver : pc'[q] \notin Inside
        BY <1>B, <2>0, <3>1, <2>9 DEF ApplyKnownGood
      <3> QED BY <3>1, <3>2, FS_EmptySet
    <2>10. CASE ApplyFence BY FreeIsNoProcess, <1>B, <1>6, <2>0, <2>10 DEF ApplyFence
    <2> QED BY <1>6, <2>1, <2>2, <2>3, <2>4, <2>5, <2>6, <2>7, <2>8, <2>9, <2>10 DEF Apply
  <1>7. ASSUME "unclaim" \in Actor, Unclaim PROVE UndoInv'
    <2>0. "unclaim" \in Proc BY <1>7 DEF Proc
    <2>1. CASE UnclaimStart BY FreeIsNoProcess, <1>B, <1>7, <2>0, <2>1 DEF UnclaimStart
    <2>2. CASE UnclaimAbort BY FreeIsNoProcess, <1>B, <1>7, <2>0, <2>2 DEF UnclaimAbort
    <2>3. CASE UnclaimSave BY FreeIsNoProcess, <1>B, <1>7, <2>0, <2>3 DEF UnclaimSave
    <2>4. CASE UnclaimKgCopy BY FreeIsNoProcess, <1>B, <1>7, <2>0, <2>4 DEF UnclaimKgCopy
    <2>5. CASE UnclaimKgInstall BY FreeIsNoProcess, <1>B, <1>7, <2>0, <2>5 DEF UnclaimKgInstall
    <2>6. CASE UnclaimWipe
      <3>1. lock = "unclaim" /\ rots' = {}
        BY <1>B, <2>0, <2>6 DEF UnclaimWipe
      <3>2. \A q \in Saver : pc'[q] \notin Inside
        BY <1>B, <2>0, <3>1, <2>6 DEF UnclaimWipe
      <3> QED BY <3>1, <3>2, FS_EmptySet
    <2> QED BY <1>1, <1>7, <2>1, <2>2, <2>3, <2>4, <2>5, <2>6 DEF Unclaim, SaveProc
  <1>8. CASE Box
    <2>1. CASE Configure BY FreeIsNoProcess, <1>B, <2>1 DEF Configure
    <2>2. CASE Claim BY FreeIsNoProcess, <1>B, <2>2 DEF Claim
    <2>3. CASE PowerLoss
      <3>1. IsFiniteSet(rots')
        BY <2>3, RotatedIsFinite DEF PowerLoss
      <3>2. \A q \in Saver : pc'[q] # "install"
        BY <1>B, <2>3 DEF PowerLoss
      <3> QED BY <3>1, <3>2
    <2>4. CASE Boot BY FreeIsNoProcess, <1>B, <2>4 DEF Boot
    <2>5. CASE Reflash BY FreeIsNoProcess, <1>B, <2>5 DEF Reflash
    <2> QED BY <1>8, <2>1, <2>2, <2>3, <2>4, <2>5 DEF Box
  <1>9. CASE UNCHANGED vars BY <1>9 DEF vars
  <1> QED
    BY <1>2, <1>3, <1>4, <1>5, <1>6, <1>7, <1>8, <1>9 DEF Next

(* Pruning keeps the youngest: a rotation that goes is older than every     *)
(* one that stays.                                                          *)
LEMMA PruneDropsOldest ==
    ASSUME TypeOK, IsFiniteSet(rots),
           NEW r \in rots, NEW q \in rots,
           Cardinality(Younger(r)) >= LIMIT, Cardinality(Younger(q)) < LIMIT,
           q.ts # r.ts
    PROVE  q.ts > r.ts
  <1>1. q.ts \in Nat /\ r.ts \in Nat
    BY DEF TypeOK
  <1>2. SUFFICES ASSUME r.ts > q.ts PROVE FALSE
    BY <1>1
  <1>3. IsFiniteSet(Younger(q)) /\ IsFiniteSet(Younger(r))
    BY FS_Subset DEF Younger
  <1>4. Younger(r) \subseteq Younger(q)
    BY <1>1, <1>2 DEF Younger, TypeOK
  <1>5. Cardinality(Younger(r)) <= Cardinality(Younger(q))
    BY <1>3, <1>4, FS_Subset
  <1>6. Cardinality(Younger(r)) \in Nat /\ Cardinality(Younger(q)) \in Nat
    BY <1>3, FS_CardinalityType
  <1> QED BY <1>5, <1>6

(* While a save holds the lock only that save touches the canonical and the *)
(* rotations.                                                               *)
LEMMA OnlyHolderWrites ==
    ASSUME TypeOK, LockInv, [Next]_vars, NEW p \in Saver, lock = p, up',
           canon' # canon \/ rots' # rots
    PROVE  SaveRotate(p) \/ SaveInstall(p) \/ SavePrune(p)
  <1> USE DEF LockInv, Inside, At, Step, media, run
  <1>0. p \in Proc /\ p # "free" /\ p \notin Program /\ pc[p] \in Inside
    BY FreeIsNoProcess DEF Proc
  <1>0a. \A q \in Proc : q # p => pc[q] \notin Inside
    BY <1>0
  <1>0b. up
    BY <1>0
  <1>1. ASSUME NEW q \in SaveProc, SaveSteps(q) PROVE q = p /\ (SaveRotate(p) \/ SaveInstall(p))
    <2>1. q \in Proc BY DEF SaveProc, Proc
    <2>2. SaveRotate(q) \/ SaveInstall(q)
      BY <1>1 DEF SaveSteps, SaveLock, SaveRefused, SavePackage, SaveQuit, SaveCopy
    <2>3. pc[q] \in Inside
      BY <2>2 DEF SaveRotate, SaveInstall
    <2> QED BY <2>1, <2>2, <2>3, <1>0a
  <1>2. ASSUME NEW q \in Saver, Save(q) PROVE SaveRotate(p) \/ SaveInstall(p) \/ SavePrune(p)
    <2>1. q \in Proc /\ q \in SaveProc BY DEF SaveProc, Proc
    <2>2. CASE SaveStart(q) BY <2>2 DEF SaveStart
    <2>3. CASE SavePrune(q) BY <2>1, <2>3, <1>0a DEF SavePrune
    <2> QED BY <1>1, <1>2, <2>1, <2>2, <2>3 DEF Save
  <1>3. ASSUME NEW q \in Proc, GiveUp(q) PROVE FALSE
    BY <1>3 DEF GiveUp
  <1>4. ASSUME "rollback" \in Actor, Rollback PROVE FALSE
    <2>1. "rollback" \in Proc /\ "rollback" # p BY <1>0, <1>4 DEF Proc, Program
    <2> QED BY <1>0a, <1>4, <2>1
            DEF Rollback, RollbackStart, RollbackLock, RollbackCopy, RollbackQuit, RollbackInstall
  <1>5. ASSUME "promote" \in Actor, Promote PROVE FALSE
    BY <1>5 DEF Promote, PromoteStart, PromoteLock, PromoteSkip, PromoteCopy, PromoteQuit,
                PromoteInstall
  <1>6. ASSUME "apply" \in Actor, Apply PROVE FALSE
    <2>1. "apply" \in Proc /\ "apply" # p BY <1>0, <1>6 DEF Proc, Program
    <2> QED BY <1>0a, <1>6, <2>1
            DEF Apply, ApplyStart, ApplyLock, ApplyMerge, ApplyQuit, ApplyErase, ApplyWritten,
                ApplyDies, ApplyIdentity, ApplyKnownGood, ApplyFence
  <1>7. ASSUME "unclaim" \in Actor, Unclaim PROVE FALSE
    <2>1. "unclaim" \in SaveProc /\ "unclaim" \in Proc /\ "unclaim" # p
      BY <1>0, <1>7 DEF Proc, Program, SaveProc
    <2> QED BY <1>0a, <1>1, <1>7, <2>1
            DEF Unclaim, UnclaimStart, UnclaimAbort, UnclaimSave, UnclaimKgCopy,
                UnclaimKgInstall, UnclaimWipe
  <1>8. ASSUME Box PROVE FALSE
    BY <1>0b, <1>8 DEF Box, Configure, Claim, PowerLoss, Boot, Reflash
  <1>9. ASSUME UNCHANGED vars PROVE FALSE
    BY <1>9 DEF vars
  <1> QED
    BY <1>2, <1>3, <1>4, <1>5, <1>6, <1>7, <1>8, <1>9 DEF Next

LEMMA StepUndoable ==
    ASSUME TypeOK, LockInv, UndoInv, "rotation" \notin Fault, [Next]_vars
    PROVE  (lock \in Saver /\ up') => UndoStep
  <1> SUFFICES ASSUME NEW p \in Saver, lock = p, up' PROVE UndoStep
    OBVIOUS
  <1>1. CASE canon' = canon /\ rots' = rots
    BY <1>1 DEF UndoStep
  <1>2. CASE SaveRotate(p)
    <2>1. rots' = Rotated(canon) /\ canon' = canon
      BY <1>2 DEF SaveRotate
    <2>2. \A r \in rots : \E q \in rots' : q.ts = r.ts
      BY <2>1 DEF Rotated
    <2> QED BY <2>1, <2>2 DEF UndoStep
  <1>3. CASE SaveInstall(p)
    BY <1>3 DEF SaveInstall, UndoInv, UndoStep, Step, At
  <1>4. CASE SavePrune(p)
    <2>1. canon' = canon /\ rots' = {r \in rots : Cardinality(Younger(r)) < LIMIT}
      BY <1>4 DEF SavePrune
    <2>2. ASSUME NEW r \in rots, \A q \in rots' : q.ts # r.ts, NEW q \in rots'
          PROVE  q.ts > r.ts
      <3>1. r \notin rots' /\ q \in rots
        BY <2>1, <2>2
      <3>2. Cardinality(Younger(r)) \in Nat
        BY FS_Subset, FS_CardinalityType DEF UndoInv, Younger
      <3>3. Cardinality(Younger(r)) >= LIMIT /\ Cardinality(Younger(q)) < LIMIT
        BY <2>1, <3>1, <3>2
      <3> QED BY <2>2, <3>1, <3>3, PruneDropsOldest DEF UndoInv
    <2> QED BY <2>1, <2>2 DEF UndoStep
  <1> QED
    BY <1>1, <1>2, <1>3, <1>4, OnlyHolderWrites

(* What an unclaim has passed stays nobody's.                              *)
LEMMA StepUnclaim ==
    ASSUME TypeOK, LockInv, CandidateInv, UnclaimInv,
           \A b \in Bundle : b.own = "nobody", "unclaim-known-good" \notin Fault,
           [Next]_vars
    PROVE  UnclaimInv'
  <1> USE DEF LockInv, UnclaimInv, Unclaiming, Freed, OnMedia, Inside, At, Goto, Step,
              Release, Acquire, media, run, Label, SaveProc, Program
  <1>B. pc \in [Proc -> Label] /\ Actor \subseteq Proc
    BY DEF TypeOK, Proc
  <1>1. ASSUME NEW p \in SaveProc, SaveSteps(p) PROVE UnclaimInv'
    <2>0. p \in Proc BY <1>1 DEF SaveProc, Proc
    <2>1. CASE SaveLock(p) BY FreeIsNoProcess, <1>B, <2>0, <2>1 DEF SaveLock
    <2>2. CASE SaveRefused(p) BY FreeIsNoProcess, <1>B, <2>0, <2>2 DEF SaveRefused
    <2>3. CASE SavePackage(p) BY FreeIsNoProcess, <1>B, <2>0, <2>3 DEF SavePackage, Package
    <2>4. CASE SaveQuit(p) BY FreeIsNoProcess, <1>B, <2>0, <2>4 DEF SaveQuit
    <2>5. CASE SaveCopy(p) BY FreeIsNoProcess, <1>B, <2>0, <2>5 DEF SaveCopy
    <2>6. CASE SaveRotate(p) BY FreeIsNoProcess, <1>B, <2>0, <2>6 DEF SaveRotate, Rotated
    <2>7. CASE SaveInstall(p) BY FreeIsNoProcess, <1>B, <2>0, <2>7 DEF SaveInstall, WriteCanon
    <2> QED BY <1>1, <2>1, <2>2, <2>3, <2>4, <2>5, <2>6, <2>7 DEF SaveSteps
  <1>2. ASSUME NEW p \in Saver, Save(p) PROVE UnclaimInv'
    <2>0. p \in Proc /\ p \in SaveProc BY <1>2 DEF SaveProc, Proc
    <2>1. CASE SaveStart(p) BY FreeIsNoProcess, <1>B, <2>0, <2>1 DEF SaveStart
    <2>2. CASE SavePrune(p) BY FreeIsNoProcess, <1>B, <2>0, <2>2 DEF SavePrune
    <2> QED BY <1>1, <1>2, <2>0, <2>1, <2>2 DEF Save
  <1>3. ASSUME NEW p \in Proc, GiveUp(p) PROVE UnclaimInv'
    BY FreeIsNoProcess, <1>B, <1>3 DEF GiveUp
  <1>4. ASSUME "rollback" \in Actor, Rollback PROVE UnclaimInv'
    <2>0. "rollback" \in Proc BY <1>4 DEF Proc
    <2>1. CASE RollbackStart BY FreeIsNoProcess, <1>B, <1>4, <2>0, <2>1 DEF RollbackStart, Sources
    <2>2. CASE RollbackLock BY FreeIsNoProcess, <1>B, <1>4, <2>0, <2>2 DEF RollbackLock
    <2>3. CASE RollbackCopy BY FreeIsNoProcess, <1>B, <1>4, <2>0, <2>3 DEF RollbackCopy, Named, SourceFile
    <2>4. CASE RollbackQuit BY FreeIsNoProcess, <1>B, <1>4, <2>0, <2>4 DEF RollbackQuit, NoSource
    <2>5. CASE RollbackInstall BY FreeIsNoProcess, <1>B, <1>4, <2>0, <2>5 DEF RollbackInstall, WriteCanon, NoSource
    <2> QED BY <1>4, <2>1, <2>2, <2>3, <2>4, <2>5 DEF Rollback
  <1>5. ASSUME "promote" \in Actor, Promote PROVE UnclaimInv'
    <2>0. "promote" \in Proc BY <1>5 DEF Proc
    <2>1. CASE PromoteStart BY FreeIsNoProcess, <1>B, <1>5, <2>0, <2>1 DEF PromoteStart
    <2>2. CASE PromoteLock BY FreeIsNoProcess, <1>B, <1>5, <2>0, <2>2 DEF PromoteLock
    <2>3. CASE PromoteSkip BY FreeIsNoProcess, <1>B, <1>5, <2>0, <2>3 DEF PromoteSkip
    <2>4. CASE PromoteCopy BY FreeIsNoProcess, <1>B, <1>5, <2>0, <2>4 DEF PromoteCopy
    <2>5. CASE PromoteQuit BY FreeIsNoProcess, <1>B, <1>5, <2>0, <2>5 DEF PromoteQuit
    <2>6. CASE PromoteInstall BY FreeIsNoProcess, <1>B, <1>5, <2>0, <2>6 DEF PromoteInstall
    <2> QED BY <1>5, <2>1, <2>2, <2>3, <2>4, <2>5, <2>6 DEF Promote
  <1>6. ASSUME "apply" \in Actor, Apply PROVE UnclaimInv'
    <2>0. "apply" \in Proc BY <1>6 DEF Proc
    <2>1. CASE ApplyStart BY FreeIsNoProcess, <1>B, <1>6, <2>0, <2>1 DEF ApplyStart
    <2>2. CASE ApplyLock BY FreeIsNoProcess, <1>B, <1>6, <2>0, <2>2 DEF ApplyLock
    <2>3. CASE ApplyMerge BY FreeIsNoProcess, <1>B, <1>6, <2>0, <2>3 DEF ApplyMerge, Package
    <2>4. CASE ApplyQuit BY FreeIsNoProcess, <1>B, <1>6, <2>0, <2>4 DEF ApplyQuit
    <2>5. CASE ApplyErase BY FreeIsNoProcess, <1>B, <1>6, <2>0, <2>5 DEF ApplyErase
    <2>6. CASE ApplyWritten BY FreeIsNoProcess, <1>B, <1>6, <2>0, <2>6 DEF ApplyWritten, Generic
    <2>7. CASE ApplyDies BY FreeIsNoProcess, <1>B, <1>6, <2>0, <2>7 DEF ApplyDies
    <2>8. CASE ApplyIdentity BY FreeIsNoProcess, <1>B, <1>6, <2>0, <2>8 DEF ApplyIdentity, WriteCanon
    <2>9. CASE ApplyKnownGood BY FreeIsNoProcess, <1>B, <1>6, <2>0, <2>9 DEF ApplyKnownGood
    <2>10. CASE ApplyFence BY FreeIsNoProcess, <1>B, <1>6, <2>0, <2>10 DEF ApplyFence
    <2> QED BY <1>6, <2>1, <2>2, <2>3, <2>4, <2>5, <2>6, <2>7, <2>8, <2>9, <2>10 DEF Apply
  <1>7. ASSUME "unclaim" \in Actor, Unclaim PROVE UnclaimInv'
    <2>0. "unclaim" \in Proc BY <1>7 DEF Proc
    <2>1. CASE UnclaimStart BY FreeIsNoProcess, <1>B, <1>7, <2>0, <2>1 DEF UnclaimStart
    <2>2. CASE UnclaimAbort BY FreeIsNoProcess, <1>B, <1>7, <2>0, <2>2 DEF UnclaimAbort
    <2>3. CASE UnclaimSave BY FreeIsNoProcess, <1>B, <1>7, <2>0, <2>3 DEF UnclaimSave
    <2>4. CASE UnclaimKgCopy BY FreeIsNoProcess, <1>B, <1>7, <2>0, <2>4 DEF UnclaimKgCopy
    <2>5. CASE UnclaimKgInstall BY FreeIsNoProcess, <1>B, <1>7, <2>0, <2>5 DEF UnclaimKgInstall
    <2>6. CASE UnclaimWipe BY FreeIsNoProcess, <1>B, <1>7, <2>0, <2>6 DEF UnclaimWipe
    <2> QED BY <1>1, <1>7, <2>1, <2>2, <2>3, <2>4, <2>5, <2>6 DEF Unclaim, SaveProc
  <1>8. CASE Box
    <2>1. CASE Configure BY FreeIsNoProcess, <1>B, <2>1 DEF Configure
    <2>2. CASE Claim BY FreeIsNoProcess, <1>B, <2>2 DEF Claim, Resting
    <2>3. CASE PowerLoss BY FreeIsNoProcess, <1>B, <2>3 DEF PowerLoss, Rotated, NoSource, Resting
    <2>4. CASE Boot BY FreeIsNoProcess, <1>B, <2>4 DEF Boot
    <2>5. CASE Reflash BY FreeIsNoProcess, <1>B, <2>5 DEF Reflash, Generic
    <2> QED BY <1>8, <2>1, <2>2, <2>3, <2>4, <2>5 DEF Box
  <1>9. CASE UNCHANGED vars BY <1>9 DEF vars
  <1> QED
    BY <1>2, <1>3, <1>4, <1>5, <1>6, <1>7, <1>8, <1>9 DEF Next

(* The part that every theorem below starts from.                          *)
Base == TypeOK /\ LockInv /\ CandidateInv /\ FenceInv

LEMMA BaseInvariant == Spec => []Base
  <1>1. Init => Base
    BY InitType DEF Init, Base, LockInv, CandidateInv, FenceInv, Fenced, Inside,
                    Proc, SaveProc, Program
  <1>2. Base /\ [Next]_vars => Base'
    BY StepType, StepLock, StepCandidate, StepFence DEF Base
  <1> QED
    BY <1>1, <1>2, PTL DEF Spec

(* The type invariant, for every value of the constants. It is not         *)
(* inductive alone (a dd takes the image of the candidate), so the lock    *)
(* and the candidate are carried along.                                    *)
THEOREM TypeCorrect == Spec => []TypeOK
  <1>1. Base => TypeOK
    BY DEF Base
  <1> QED
    BY <1>1, BaseInvariant, PTL

(* One media mutator at a time: any number of saves, a rollback, a         *)
(* promotion, an apply and an unclaim never overlap under the flock.       *)
THEOREM OneMutator ==
    Spec => [](\A p, q \in Proc : pc[p] \in Inside /\ pc[q] \in Inside => p = q)
  <1>1. Base => \A p, q \in Proc : pc[p] \in Inside /\ pc[q] \in Inside => p = q
    BY DEF Base, LockInv
  <1> QED
    BY <1>1, BaseInvariant, PTL

(* RAM is never saved over a staged rollback or an applied image: the      *)
(* second fence check, under the lock, is what makes FenceInv inductive.   *)
THEOREM SavesAreFenced == Spec => SavesRespectFences
  <1>1. Base => (\A p \in SaveProc : (lock = p /\ canon' # canon) => ~Fenced)
    BY DEF Base, FenceInv
  <1> QED
    BY <1>1, BaseInvariant, PTL DEF SavesRespectFences

(* The canonical apkovl is whole at every instant, whatever programs run,  *)
(* whatever fails and whenever the power goes; but where there may be a    *)
(* rollback, no rotation copy and no late known-good copy fails half-way:  *)
(* those two turn a source unreadable while a rollback that already read   *)
(* it waits for the lock.                                                  *)
THEOREM CanonicalAlwaysWhole ==
    ASSUME "rollback" \in Actor => "rotation" \notin Fault /\ "late-apply" \notin Fault
    PROVE  Spec => []CanonicalIntact
  <1>1. Init => WholeInv
    BY DEF Init, WholeInv, Ovl, Owner, Proc, SaveProc, Program
  <1>2. Base /\ WholeInv /\ [Next]_vars => WholeInv'
    BY StepWhole DEF Base
  <1>3. WholeInv => CanonicalIntact
    BY DEF WholeInv, CanonicalIntact
  <1> QED
    BY <1>1, <1>2, <1>3, BaseInvariant, PTL DEF Spec

(* The box never boots one image's overlay off another image, from any     *)
(* apkovl on the media, through any number of in-place updates, saves,     *)
(* rollbacks, promotions and power cuts.                                   *)
THEOREM OverlayAlwaysMatches ==
    ASSUME Bundle = {}, "late-apply" \notin Fault
    PROVE  Spec => []OverlayMatchesImage
  <1>1. Init => ImageInv
    BY DEF Init, ImageInv, OverlayMatchesImage, OnMedia, Mine, Applying, Ovl,
           Owner, Proc, SaveProc, Program, NoSource
  <1>2. Base /\ ImageInv /\ [Next]_vars => ImageInv'
    BY StepImage DEF Base
  <1>3. ImageInv => OverlayMatchesImage
    BY DEF ImageInv
  <1> QED
    BY <1>1, <1>2, <1>3, BaseInvariant, PTL DEF Spec

(* A save can be undone: whatever else runs and whenever the power goes,   *)
(* the canonical a save replaces is on the media as a rotation, and the    *)
(* pruning never drops a rotation younger than one it keeps - provided the *)
(* rotation copy itself does not fail.                                     *)
THEOREM UndoAlwaysKept ==
    ASSUME "rotation" \notin Fault
    PROVE  Spec => UndoKept
  <1>1. Init => UndoInv
    BY FS_EmptySet DEF Init, UndoInv, Proc
  <1>2. Base /\ UndoInv /\ [Next]_vars => UndoInv'
    BY StepUndo DEF Base
  <1>3. Base /\ UndoInv /\ [Next]_vars => ((lock \in Saver /\ up') => UndoStep)
    BY StepUndoable DEF Base
  <1> QED
    BY <1>1, <1>2, <1>3, BaseInvariant, PTL DEF Spec, UndoKept

(* A factory reset that reports success has left nothing of the old owner  *)
(* on the media, and nothing any program does until the reboot brings it   *)
(* back - provided the copy to known-good does not fail unseen and no      *)
(* bundle outside the media carries an owner.                              *)
THEOREM UnclaimLeavesNothingCorrect ==
    ASSUME \A b \in Bundle : b.own = "nobody", "unclaim-known-good" \notin Fault
    PROVE  Spec => []UnclaimLeavesNothing
  <1>1. Init => UnclaimInv
    BY DEF Init, UnclaimInv, Unclaiming, Inside, NoSource, Proc
  <1>2. Base /\ UnclaimInv /\ [Next]_vars => UnclaimInv'
    BY StepUnclaim DEF Base
  <1>3. UnclaimInv => UnclaimLeavesNothing
    BY DEF UnclaimInv, UnclaimLeavesNothing, Unclaiming, Freed, OnMedia
  <1> QED
    BY <1>1, <1>2, <1>3, BaseInvariant, PTL DEF Spec

=============================================================================
