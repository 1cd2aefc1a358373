------------------------ MODULE PackageUpdateProofs ------------------------
(***************************************************************************)
(* What PackageUpdate.tla's runs check on small instances, for every       *)
(* number of updaters and hand runs, every set of releases and of identity *)
(* paths and any number of power cuts.                                     *)
(***************************************************************************)
EXTENDS PackageUpdate, TLAPS

USE ProcAssumption, ReleaseAssumption, StartAssumption, TreeAssumption,
    ListAssumption, CrashAssumption

LEMMA FreeIsNoProcess == "free" \notin Proc
  BY DEF Proc

LEMMA InitType == Init => TypeOK
  <1> SUFFICES ASSUME Init PROVE TypeOK
    OBVIOUS
  <1> USE DEF Init
  <1>1. canon \in Apkovl /\ kg \in Apkovl
    BY DEF Apkovl
  <1>2. run \in [Updater -> Run]
    BY DEF Run, NoRun, Kind
  <1>3. pc \in [Proc -> Label]
    BY DEF Label
  <1>4. checked \in BOOLEAN /\ up \in BOOLEAN
    OBVIOUS
  <1> QED
    BY <1>1, <1>2, <1>3, <1>4 DEF TypeOK, Tree

(* Every step keeps the types. *)
LEMMA StepType ==
    ASSUME TypeOK, [Next]_vars
    PROVE  TypeOK'
  <1> USE DEF TypeOK, Tree, Apkovl, Run, NoRun, Kind, Label, At, Goto,
        Step, Exit, disk, ram, media, saved, marks, env, world, Resting, Stopped
  <1>1. ASSUME NEW u \in Updater, Update(u) PROVE TypeOK'
    <2>0. u \in Proc BY DEF Proc
    <2>1. CASE UpStart(u)
      <3>1. PICK k \in Kind : run' = [run EXCEPT ![u] = [NoRun EXCEPT
            !.kind = k]]
        BY <2>1 DEF UpStart
      <3>A. [NoRun EXCEPT !.kind = k] \in Run
        OBVIOUS
      <3>B. run' \in [Updater -> Run]
        BY <3>1, <3>A
      <3>2. checked' \in BOOLEAN /\ up' \in BOOLEAN
        BY <2>1 DEF UpStart
      <3> QED BY <2>0, <2>1, <3>B, <3>2 DEF UpStart
    <2>2. CASE UpNoImage(u)
      <3>1. PICK h \in BOOLEAN : run' = [run EXCEPT ![u].held = h]
        BY <2>2 DEF UpNoImage
      <3>2. run' \in [Updater -> Run]
        BY <3>1
      <3>3. checked' \in BOOLEAN /\ up' \in BOOLEAN
        BY <2>2 DEF UpNoImage
      <3> QED BY <2>0, <2>2, <3>2, <3>3 DEF UpNoImage
    <2>3. CASE UpImage(u)
      BY <2>0, <2>3 DEF UpImage, Packaged
    <2>4. CASE UpToDate(u)
      BY <2>0, <2>4 DEF UpToDate, MarkChecked
    <2>5. CASE UpChanged(u)
      BY <2>0, <2>5 DEF UpChanged
    <2>6. CASE UpFetch(u)
      BY <2>0, <2>6 DEF UpFetch
    <2>7. CASE UpDie(u)
      BY <2>0, <2>7 DEF UpDie
    <2>8. CASE UpClear(u)
      BY <2>0, <2>8 DEF UpClear
    <2>9. CASE UpCopy(u)
      BY <2>0, <2>9 DEF UpCopy
    <2>10. CASE UpGuard(u)
      BY <2>0, <2>10 DEF UpGuard
    <2>11. CASE UpUpgrade(u)
      BY <2>0, <2>11 DEF UpUpgrade
    <2>12. CASE UpSave(u)
      BY <2>0, <2>12 DEF UpSave, Packaged
    <2>13. CASE UpVerify(u)
      BY <2>0, <2>13 DEF UpVerify, MarkChecked
    <2>14. CASE UpVerifyFails(u)
      BY <2>0, <2>14 DEF UpVerifyFails
    <2> QED BY <1>1, <2>1, <2>2, <2>3, <2>4, <2>5, <2>6, <2>7, <2>8,
          <2>9, <2>10, <2>11, <2>12, <2>13, <2>14 DEF Update
  <1>2. ASSUME NEW p \in Hand, HandStart(p) PROVE TypeOK'
    <2>0. p \in Proc /\ p \notin Updater BY ProcAssumption DEF Proc
    <2> QED BY <1>2, <2>0 DEF HandStart
  <1>3. ASSUME NEW p \in Proc, Sync(p) PROVE TypeOK'
    <2>1. CASE SyncVerify(p)
      BY <1>3, <2>1 DEF SyncVerify
    <2>2. CASE SyncRefused(p)
      BY <1>3, <2>2 DEF SyncRefused
    <2>3. CASE SyncLock(p)
      BY <1>3, <2>3 DEF SyncLock
    <2>4. CASE SyncStage(p)
      BY <1>3, <2>4 DEF SyncStage
    <2>5. CASE SyncCheck(p)
      BY <1>3, <2>5 DEF SyncCheck
    <2>6. CASE SyncCheckFails(p)
      BY <1>3, <2>6 DEF SyncCheckFails
    <2>7. CASE SyncSwapOut(p)
      BY <1>3, <2>7 DEF SyncSwapOut
    <2>8. CASE SyncSwapIn(p)
      BY <1>3, <2>8 DEF SyncSwapIn
    <2>9. CASE SyncDone(p)
      BY <1>3, <2>9 DEF SyncDone
    <2>10. CASE SyncRevertOut(p)
      BY <1>3, <2>10 DEF SyncRevertOut
    <2>11. CASE SyncRevertIn(p)
      BY <1>3, <2>11 DEF SyncRevertIn
    <2>12. CASE SyncNothingBack(p)
      BY <1>3, <2>12 DEF SyncNothingBack
    <2> QED BY <1>3, <2>1, <2>2, <2>3, <2>4, <2>5, <2>6, <2>7, <2>8,
          <2>9, <2>10, <2>11, <2>12 DEF Sync
  <1>4. CASE Autosave
    BY <1>4 DEF Autosave, Packaged
  <1>5. CASE Publish
    BY <1>5 DEF Publish
  <1>6. CASE IntervalPasses
    <2>1. checked' \in BOOLEAN /\ up' \in BOOLEAN
      BY <1>6 DEF IntervalPasses
    <2> QED BY <1>6, <2>1 DEF IntervalPasses
  <1>7. CASE PowerLoss
    <2>1. source' \in Tree /\ dstNew' \in Tree
      BY <1>7 DEF PowerLoss
    <2>2. crashes' \in 0..MaxCrash
      BY <1>7 DEF PowerLoss
    <2>3. checked' \in BOOLEAN /\ up' \in BOOLEAN
      BY <1>7 DEF PowerLoss
    <2> QED BY <1>7, <2>1, <2>2, <2>3 DEF PowerLoss
  <1>8. CASE Boot
    BY <1>8 DEF Boot
  <1>9. CASE UNCHANGED vars
    BY <1>9 DEF vars
  <1> QED
    BY <1>1, <1>2, <1>3, <1>4, <1>5, <1>6, <1>7, <1>8, <1>9 DEF Next

(* The locks are held exactly over the runs they guard. *)
LEMMA StepLock ==
    ASSUME TypeOK, LockInv, [Next]_vars
    PROVE  LockInv'
  <1> USE DEF TypeOK, LockInv, Swapping, Label, At, Goto, Step, Exit,
        disk, ram, media, saved, marks, env, world, Resting, Stopped
  <1>1. ASSUME NEW u \in Updater, Update(u) PROVE LockInv'
    <2>0. u \in Proc BY DEF Proc
    <2>1. CASE UpStart(u)
      BY FreeIsNoProcess, <2>0, <2>1 DEF UpStart
    <2>2. CASE UpNoImage(u)
      BY FreeIsNoProcess, <2>0, <2>2 DEF UpNoImage
    <2>3. CASE UpImage(u)
      <3>1. (\A q \in Proc : pc'[q] \in Resting) /\ lock' = "free" /\ ulock'
            = "free" /\ dst' # Partial
        BY FreeIsNoProcess, <2>3 DEF UpImage
      <3> QED BY FreeIsNoProcess, <2>0, <2>3, <3>1 DEF UpImage, Proc
    <2>4. CASE UpToDate(u)
      BY FreeIsNoProcess, <2>0, <2>4 DEF UpToDate
    <2>5. CASE UpChanged(u)
      BY FreeIsNoProcess, <2>0, <2>5 DEF UpChanged
    <2>6. CASE UpFetch(u)
      BY FreeIsNoProcess, <2>0, <2>6 DEF UpFetch
    <2>7. CASE UpDie(u)
      BY FreeIsNoProcess, <2>0, <2>7 DEF UpDie
    <2>8. CASE UpClear(u)
      BY FreeIsNoProcess, <2>0, <2>8 DEF UpClear
    <2>9. CASE UpCopy(u)
      BY FreeIsNoProcess, <2>0, <2>9 DEF UpCopy
    <2>10. CASE UpGuard(u)
      BY FreeIsNoProcess, <2>0, <2>10 DEF UpGuard
    <2>11. CASE UpUpgrade(u)
      BY FreeIsNoProcess, <2>0, <2>11 DEF UpUpgrade
    <2>12. CASE UpSave(u)
      BY FreeIsNoProcess, <2>0, <2>12 DEF UpSave
    <2>13. CASE UpVerify(u)
      BY FreeIsNoProcess, <2>0, <2>13 DEF UpVerify
    <2>14. CASE UpVerifyFails(u)
      BY FreeIsNoProcess, <2>0, <2>14 DEF UpVerifyFails
    <2> QED BY <1>1, <2>1, <2>2, <2>3, <2>4, <2>5, <2>6, <2>7, <2>8,
          <2>9, <2>10, <2>11, <2>12, <2>13, <2>14 DEF Update
  <1>2. ASSUME NEW p \in Hand, HandStart(p) PROVE LockInv'
    <2>0. p \in Proc /\ p \notin Updater BY ProcAssumption DEF Proc
    <2> QED BY FreeIsNoProcess, <1>2, <2>0 DEF HandStart
  <1>3. ASSUME NEW p \in Proc, Sync(p) PROVE LockInv'
    <2>1. CASE SyncVerify(p)
      BY FreeIsNoProcess, <1>3, <2>1 DEF SyncVerify
    <2>2. CASE SyncRefused(p)
      BY FreeIsNoProcess, <1>3, <2>2 DEF SyncRefused
    <2>3. CASE SyncLock(p)
      BY FreeIsNoProcess, <1>3, <2>3 DEF SyncLock
    <2>4. CASE SyncStage(p)
      BY FreeIsNoProcess, <1>3, <2>4 DEF SyncStage
    <2>5. CASE SyncCheck(p)
      BY FreeIsNoProcess, <1>3, <2>5 DEF SyncCheck
    <2>6. CASE SyncCheckFails(p)
      BY FreeIsNoProcess, <1>3, <2>6 DEF SyncCheckFails
    <2>7. CASE SyncSwapOut(p)
      <3>1. /\ pc[p] = "swapout" /\ up /\ up'
            /\ \E l \in {"simulate", "swapin"} : pc' = [pc EXCEPT ![p] = l]
            /\ UNCHANGED <<lock, ulock>>
        BY <2>7 DEF SyncSwapOut
      <3> QED BY FreeIsNoProcess, <1>3, <3>1
    <2>8. CASE SyncSwapIn(p)
      BY FreeIsNoProcess, <1>3, <2>8 DEF SyncSwapIn
    <2>9. CASE SyncDone(p)
      <3>1. CASE p \in Updater
        <4>1. /\ pc[p] = "simulate" /\ up /\ up'
              /\ pc' = [pc EXCEPT ![p] = "upgrade"]
              /\ lock' = "free" /\ UNCHANGED ulock
          BY <2>9, <3>1 DEF SyncDone
        <4> QED BY FreeIsNoProcess, <1>3, <3>1, <4>1
      <3>2. CASE p \notin Updater
        <4>1. /\ pc[p] = "simulate" /\ up /\ up'
              /\ pc' = [pc EXCEPT ![p] = "idle"]
              /\ lock' = "free" /\ UNCHANGED ulock
          BY <1>3, <2>9, <3>2 DEF SyncDone
        <4> QED BY FreeIsNoProcess, <1>3, <3>2, <4>1
      <3> QED BY <3>1, <3>2
    <2>10. CASE SyncRevertOut(p)
      BY FreeIsNoProcess, <1>3, <2>10 DEF SyncRevertOut
    <2>11. CASE SyncRevertIn(p)
      BY FreeIsNoProcess, <1>3, <2>11 DEF SyncRevertIn
    <2>12. CASE SyncNothingBack(p)
      BY FreeIsNoProcess, <1>3, <2>12 DEF SyncNothingBack
    <2> QED BY <1>3, <2>1, <2>2, <2>3, <2>4, <2>5, <2>6, <2>7, <2>8,
          <2>9, <2>10, <2>11, <2>12 DEF Sync
  <1>4. CASE Autosave
    BY FreeIsNoProcess, <1>4 DEF Autosave
  <1>5. CASE Publish
    BY FreeIsNoProcess, <1>5 DEF Publish
  <1>6. CASE IntervalPasses
    BY FreeIsNoProcess, <1>6 DEF IntervalPasses
  <1>7. CASE PowerLoss
    <2>1. (\A q \in Proc : pc'[q] \in Resting) /\ lock' = "free" /\ ulock' =
          "free"
      BY <1>7 DEF PowerLoss
    <2> QED BY FreeIsNoProcess, <1>7, <2>1 DEF PowerLoss, Proc
  <1>8. CASE Boot
    BY FreeIsNoProcess, <1>8 DEF Boot
  <1>9. CASE UNCHANGED vars
    BY <1>9 DEF vars
  <1> QED
    BY <1>1, <1>2, <1>3, <1>4, <1>5, <1>6, <1>7, <1>8, <1>9 DEF Next

(* What the swap's trees hold at each point of it. *)
LEMMA StepSwap ==
    ASSUME TypeOK, LockInv, SwapInv, [Next]_vars
    PROVE  SwapInv'
  <1> USE DEF TypeOK, Tree, LockInv, SwapInv, Swapping, Label, At, Goto,
        Step, Exit, disk, ram, media, saved, marks, env, world, Resting, Stopped
  <1>1. ASSUME NEW u \in Updater, Update(u) PROVE SwapInv'
    <2>0. u \in Proc BY DEF Proc
    <2>1. CASE UpStart(u)
      BY FreeIsNoProcess, <2>0, <2>1 DEF UpStart
    <2>2. CASE UpNoImage(u)
      BY FreeIsNoProcess, <2>0, <2>2 DEF UpNoImage
    <2>3. CASE UpImage(u)
      <3>1. (\A q \in Proc : pc'[q] \in Resting) /\ lock' = "free" /\ ulock'
            = "free" /\ dst' # Partial
        BY FreeIsNoProcess, <2>3 DEF UpImage
      <3> QED BY FreeIsNoProcess, <2>0, <2>3, <3>1 DEF UpImage, Proc
    <2>4. CASE UpToDate(u)
      BY FreeIsNoProcess, <2>0, <2>4 DEF UpToDate
    <2>5. CASE UpChanged(u)
      BY FreeIsNoProcess, <2>0, <2>5 DEF UpChanged
    <2>6. CASE UpFetch(u)
      BY FreeIsNoProcess, <2>0, <2>6 DEF UpFetch
    <2>7. CASE UpDie(u)
      BY FreeIsNoProcess, <2>0, <2>7 DEF UpDie
    <2>8. CASE UpClear(u)
      BY FreeIsNoProcess, <2>0, <2>8 DEF UpClear
    <2>9. CASE UpCopy(u)
      BY FreeIsNoProcess, <2>0, <2>9 DEF UpCopy
    <2>10. CASE UpGuard(u)
      BY FreeIsNoProcess, <2>0, <2>10 DEF UpGuard
    <2>11. CASE UpUpgrade(u)
      BY FreeIsNoProcess, <2>0, <2>11 DEF UpUpgrade
    <2>12. CASE UpSave(u)
      BY FreeIsNoProcess, <2>0, <2>12 DEF UpSave
    <2>13. CASE UpVerify(u)
      BY FreeIsNoProcess, <2>0, <2>13 DEF UpVerify
    <2>14. CASE UpVerifyFails(u)
      BY FreeIsNoProcess, <2>0, <2>14 DEF UpVerifyFails
    <2> QED BY <1>1, <2>1, <2>2, <2>3, <2>4, <2>5, <2>6, <2>7, <2>8,
          <2>9, <2>10, <2>11, <2>12, <2>13, <2>14 DEF Update
  <1>2. ASSUME NEW p \in Hand, HandStart(p) PROVE SwapInv'
    <2>0. p \in Proc /\ p \notin Updater BY ProcAssumption DEF Proc
    <2> QED BY FreeIsNoProcess, <1>2, <2>0 DEF HandStart
  <1>3. ASSUME NEW p \in Proc, Sync(p) PROVE SwapInv'
    <2>1. CASE SyncVerify(p)
      BY FreeIsNoProcess, <1>3, <2>1 DEF SyncVerify
    <2>2. CASE SyncRefused(p)
      BY FreeIsNoProcess, <1>3, <2>2 DEF SyncRefused
    <2>3. CASE SyncLock(p)
      BY FreeIsNoProcess, <1>3, <2>3 DEF SyncLock
    <2>4. CASE SyncStage(p)
      BY FreeIsNoProcess, <1>3, <2>4 DEF SyncStage
    <2>5. CASE SyncCheck(p)
      BY FreeIsNoProcess, <1>3, <2>5 DEF SyncCheck
    <2>6. CASE SyncCheckFails(p)
      BY FreeIsNoProcess, <1>3, <2>6 DEF SyncCheckFails
    <2>7. CASE SyncSwapOut(p)
      BY FreeIsNoProcess, <1>3, <2>7 DEF SyncSwapOut
    <2>8. CASE SyncSwapIn(p)
      BY FreeIsNoProcess, <1>3, <2>8 DEF SyncSwapIn
    <2>9. CASE SyncDone(p)
      BY FreeIsNoProcess, <1>3, <2>9 DEF SyncDone, Simulates
    <2>10. CASE SyncRevertOut(p)
      BY FreeIsNoProcess, <1>3, <2>10 DEF SyncRevertOut, Simulates
    <2>11. CASE SyncRevertIn(p)
      BY FreeIsNoProcess, <1>3, <2>11 DEF SyncRevertIn
    <2>12. CASE SyncNothingBack(p)
      BY FreeIsNoProcess, <1>3, <2>12 DEF SyncNothingBack
    <2> QED BY <1>3, <2>1, <2>2, <2>3, <2>4, <2>5, <2>6, <2>7, <2>8,
          <2>9, <2>10, <2>11, <2>12 DEF Sync
  <1>4. CASE Autosave
    BY FreeIsNoProcess, <1>4 DEF Autosave
  <1>5. CASE Publish
    BY FreeIsNoProcess, <1>5 DEF Publish
  <1>6. CASE IntervalPasses
    BY FreeIsNoProcess, <1>6 DEF IntervalPasses
  <1>7. CASE PowerLoss
    <2>1. (\A q \in Proc : pc'[q] \in Resting) /\ lock' = "free" /\ ulock' =
          "free"
      BY <1>7 DEF PowerLoss
    <2> QED BY FreeIsNoProcess, <1>7, <2>1 DEF PowerLoss, Proc
  <1>8. CASE Boot
    BY FreeIsNoProcess, <1>8 DEF Boot
  <1>9. CASE UNCHANGED vars
    BY <1>9 DEF vars
  <1> QED
    BY <1>1, <1>2, <1>3, <1>4, <1>5, <1>6, <1>7, <1>8, <1>9 DEF Next

(* What an updater filled is what gets on the media while it runs. *)
LEMMA StepStamp ==
    ASSUME TypeOK, LockInv, SwapInv, StampInv, [Next]_vars
    PROVE  StampInv'
  <1> USE DEF TypeOK, Tree, LockInv, SwapInv, Swapping, Label, At, Goto,
        Step, Exit, disk, ram, media, saved, marks, env, world, Resting, Stopped
  <1>1. ASSUME NEW u \in Updater, Update(u) PROVE StampInv'
    <2>0. u \in Proc BY DEF Proc
    <2>1. CASE UpStart(u)
      BY FreeIsNoProcess, <2>0, <2>1 DEF UpStart, StampInv, Stamp,
            OwnSwap, SwapBehind
    <2>2. CASE UpNoImage(u)
      BY FreeIsNoProcess, <2>0, <2>2 DEF UpNoImage, StampInv, Stamp,
            OwnSwap, SwapBehind
    <2>3. CASE UpImage(u)
      <3>1. (\A q \in Proc : pc'[q] \in Resting) /\ lock' = "free" /\ ulock'
            = "free" /\ dst' # Partial
        BY FreeIsNoProcess, <2>3 DEF UpImage
      <3> QED BY FreeIsNoProcess, <2>0, <2>3, <3>1 DEF UpImage, Proc,
            StampInv, Stamp, OwnSwap, SwapBehind
    <2>4. CASE UpToDate(u)
      BY FreeIsNoProcess, <2>0, <2>4 DEF UpToDate, StampInv, Stamp,
            OwnSwap, SwapBehind
    <2>5. CASE UpChanged(u)
      BY FreeIsNoProcess, <2>0, <2>5 DEF UpChanged, StampInv, Stamp,
            OwnSwap, SwapBehind
    <2>6. CASE UpFetch(u)
      BY FreeIsNoProcess, <2>0, <2>6 DEF UpFetch, StampInv, Stamp,
            OwnSwap, SwapBehind
    <2>7. CASE UpDie(u)
      BY FreeIsNoProcess, <2>0, <2>7 DEF UpDie, StampInv, Stamp, OwnSwap,
            SwapBehind
    <2>8. CASE UpClear(u)
      BY FreeIsNoProcess, <2>0, <2>8 DEF UpClear, StampInv, Stamp,
            OwnSwap, SwapBehind
    <2>9. CASE UpCopy(u)
      BY FreeIsNoProcess, <2>0, <2>9 DEF UpCopy, StampInv, Stamp,
            OwnSwap, SwapBehind
    <2>10. CASE UpGuard(u)
      BY FreeIsNoProcess, <2>0, <2>10 DEF UpGuard, StampInv, Stamp,
            OwnSwap, SwapBehind
    <2>11. CASE UpUpgrade(u)
      BY FreeIsNoProcess, <2>0, <2>11 DEF UpUpgrade, StampInv, Stamp,
            OwnSwap, SwapBehind
    <2>12. CASE UpSave(u)
      BY FreeIsNoProcess, <2>0, <2>12 DEF UpSave, Packaged, StampInv,
            Stamp, OwnSwap, SwapBehind
    <2>13. CASE UpVerify(u)
      BY FreeIsNoProcess, <2>0, <2>13 DEF UpVerify, StampInv, Stamp,
            OwnSwap, SwapBehind
    <2>14. CASE UpVerifyFails(u)
      BY FreeIsNoProcess, <2>0, <2>14 DEF UpVerifyFails, StampInv, Stamp,
            OwnSwap, SwapBehind
    <2> QED BY <1>1, <2>1, <2>2, <2>3, <2>4, <2>5, <2>6, <2>7, <2>8,
          <2>9, <2>10, <2>11, <2>12, <2>13, <2>14 DEF Update
  <1>2. ASSUME NEW p \in Hand, HandStart(p) PROVE StampInv'
    <2>0. p \in Proc /\ p \notin Updater BY ProcAssumption DEF Proc
    <2> QED BY FreeIsNoProcess, <1>2, <2>0 DEF HandStart, StampInv,
          Stamp, OwnSwap, SwapBehind
  <1>3. ASSUME NEW p \in Proc, Sync(p) PROVE StampInv'
    <2>1. CASE SyncVerify(p)
      BY FreeIsNoProcess, <1>3, <2>1 DEF SyncVerify, StampInv, Stamp,
            OwnSwap, SwapBehind
    <2>2. CASE SyncRefused(p)
      BY FreeIsNoProcess, <1>3, <2>2 DEF SyncRefused, StampInv, Stamp,
            OwnSwap, SwapBehind
    <2>3. CASE SyncLock(p)
      BY FreeIsNoProcess, <1>3, <2>3 DEF SyncLock, StampInv, Stamp,
            OwnSwap, SwapBehind
    <2>4. CASE SyncStage(p)
      <3> SUFFICES ASSUME NEW u \in Updater PROVE Stamp(u)'
        BY DEF StampInv
      <3> USE DEF SyncStage
      <3>0. u \in Proc /\ Stamp(u) /\ lock = p /\ (\A q \in Proc : pc[q]
            \in Swapping => q = p)
        BY <1>3, <2>4 DEF Proc, StampInv
      <3>1. CASE u = p
        BY FreeIsNoProcess, <1>3, <2>4, <3>0, <3>1 DEF Stamp, OwnSwap,
              SwapBehind
      <3>2. CASE u # p
        BY FreeIsNoProcess, <1>3, <2>4, <3>0, <3>2 DEF Stamp, OwnSwap,
              SwapBehind
      <3> QED BY <3>1, <3>2
    <2>5. CASE SyncCheck(p)
      BY FreeIsNoProcess, <1>3, <2>5 DEF SyncCheck, StampInv, Stamp,
            OwnSwap, SwapBehind
    <2>6. CASE SyncCheckFails(p)
      <3> SUFFICES ASSUME NEW u \in Updater PROVE Stamp(u)'
        BY DEF StampInv
      <3> USE DEF SyncCheckFails
      <3>0. u \in Proc /\ Stamp(u) /\ lock = p /\ (\A q \in Proc : pc[q]
            \in Swapping => q = p)
        BY <1>3, <2>6 DEF Proc, StampInv
      <3>1. CASE u = p
        BY FreeIsNoProcess, <1>3, <2>6, <3>0, <3>1 DEF Stamp, OwnSwap,
              SwapBehind
      <3>2. CASE u # p
        BY FreeIsNoProcess, <1>3, <2>6, <3>0, <3>2 DEF Stamp, OwnSwap,
              SwapBehind
      <3> QED BY <3>1, <3>2
    <2>7. CASE SyncSwapOut(p)
      <3> SUFFICES ASSUME NEW u \in Updater PROVE Stamp(u)'
        BY DEF StampInv
      <3> USE DEF SyncSwapOut
      <3>0. u \in Proc /\ Stamp(u) /\ lock = p /\ (\A q \in Proc : pc[q]
            \in Swapping => q = p)
        BY <1>3, <2>7 DEF Proc, StampInv
      <3>1. CASE u = p
        BY FreeIsNoProcess, <1>3, <2>7, <3>0, <3>1 DEF Stamp, OwnSwap,
              SwapBehind
      <3>2. CASE u # p
        BY FreeIsNoProcess, <1>3, <2>7, <3>0, <3>2 DEF Stamp, OwnSwap,
              SwapBehind
      <3> QED BY <3>1, <3>2
    <2>8. CASE SyncSwapIn(p)
      <3> SUFFICES ASSUME NEW u \in Updater PROVE Stamp(u)'
        BY DEF StampInv
      <3> USE DEF SyncSwapIn
      <3>0. u \in Proc /\ Stamp(u) /\ lock = p /\ (\A q \in Proc : pc[q]
            \in Swapping => q = p)
        BY <1>3, <2>8 DEF Proc, StampInv
      <3>1. CASE u = p
        BY FreeIsNoProcess, <1>3, <2>8, <3>0, <3>1 DEF Stamp, OwnSwap,
              SwapBehind
      <3>2. CASE u # p
        BY FreeIsNoProcess, <1>3, <2>8, <3>0, <3>2 DEF Stamp, OwnSwap,
              SwapBehind
      <3> QED BY <3>1, <3>2
    <2>9. CASE SyncDone(p)
      <3> SUFFICES ASSUME NEW u \in Updater PROVE Stamp(u)'
        BY DEF StampInv
      <3> USE DEF SyncDone, Simulates
      <3>0. u \in Proc /\ Stamp(u) /\ lock = p /\ (\A q \in Proc : pc[q]
            \in Swapping => q = p)
        BY <1>3, <2>9 DEF Proc, StampInv
      <3>1. CASE u = p
        BY FreeIsNoProcess, <1>3, <2>9, <3>0, <3>1 DEF Stamp, OwnSwap,
              SwapBehind
      <3>2. CASE u # p
        BY FreeIsNoProcess, <1>3, <2>9, <3>0, <3>2 DEF Stamp, OwnSwap,
              SwapBehind
      <3> QED BY <3>1, <3>2
    <2>10. CASE SyncRevertOut(p)
      BY FreeIsNoProcess, <1>3, <2>10 DEF SyncRevertOut, Simulates,
            StampInv, Stamp, OwnSwap, SwapBehind
    <2>11. CASE SyncRevertIn(p)
      <3> SUFFICES ASSUME NEW u \in Updater PROVE Stamp(u)'
        BY DEF StampInv
      <3> USE DEF SyncRevertIn
      <3>0. u \in Proc /\ Stamp(u) /\ lock = p /\ (\A q \in Proc : pc[q]
            \in Swapping => q = p)
        BY <1>3, <2>11 DEF Proc, StampInv
      <3>1. CASE u = p
        BY FreeIsNoProcess, <1>3, <2>11, <3>0, <3>1 DEF Stamp, OwnSwap,
              SwapBehind
      <3>2. CASE u # p
        BY FreeIsNoProcess, <1>3, <2>11, <3>0, <3>2 DEF Stamp, OwnSwap,
              SwapBehind
      <3> QED BY <3>1, <3>2
    <2>12. CASE SyncNothingBack(p)
      BY FreeIsNoProcess, <1>3, <2>12 DEF SyncNothingBack, StampInv,
            Stamp, OwnSwap, SwapBehind
    <2> QED BY <1>3, <2>1, <2>2, <2>3, <2>4, <2>5, <2>6, <2>7, <2>8,
          <2>9, <2>10, <2>11, <2>12 DEF Sync
  <1>4. CASE Autosave
    BY FreeIsNoProcess, <1>4 DEF Autosave, Packaged, StampInv, Stamp,
          OwnSwap, SwapBehind
  <1>5. CASE Publish
    BY FreeIsNoProcess, <1>5 DEF Publish, StampInv, Stamp, OwnSwap, SwapBehind
  <1>6. CASE IntervalPasses
    BY FreeIsNoProcess, <1>6 DEF IntervalPasses, StampInv, Stamp,
          OwnSwap, SwapBehind
  <1>7. CASE PowerLoss
    <2>1. (\A q \in Proc : pc'[q] \in Resting) /\ lock' = "free" /\ ulock' =
          "free"
      BY <1>7 DEF PowerLoss
    <2> QED BY FreeIsNoProcess, <1>7, <2>1 DEF PowerLoss, Proc, StampInv,
          Stamp, OwnSwap, SwapBehind
  <1>8. CASE Boot
    <2>1. \A q \in Proc : pc[q] \in Resting
      BY <1>8 DEF Boot, LockInv
    <2> QED BY <1>8, <2>1 DEF Boot, Proc, StampInv, Stamp, OwnSwap, SwapBehind
  <1>9. CASE UNCHANGED vars
    BY <1>9 DEF vars, StampInv, Stamp, OwnSwap, SwapBehind
  <1> QED
    BY <1>1, <1>2, <1>3, <1>4, <1>5, <1>6, <1>7, <1>8, <1>9 DEF Next

Base == TypeOK /\ LockInv /\ SwapInv /\ StampInv

LEMMA BaseInvariant == Spec => []Base
  <1>1. Init => Base
    BY InitType, FreeIsNoProcess
       DEF Init, Base, LockInv, SwapInv, StampInv, Stamp, OwnSwap,
             SwapBehind, Swapping, Proc, Resting
  <1>2. Base /\ [Next]_vars => Base'
    BY StepType, StepLock, StepSwap, StepStamp DEF Base
  <1> QED
    BY <1>1, <1>2, PTL DEF Spec

(* The type invariant. *)
THEOREM TypeCorrect == Spec => []TypeOK
  <1>1. Base => TypeOK
    BY DEF Base
  <1> QED
    BY <1>1, BaseInvariant, PTL

(* One self-update and one run inside the media swap at a time, however    *)
(* many are started: pipeos-selfupdate:195-196, pipeos-sync-media:25-29.   *)
THEOREM LocksExclude == Spec => []Exclusive
  <1>1. Base => Exclusive
    BY FreeIsNoProcess DEF Base, LockInv, Exclusive
  <1> QED
    BY <1>1, BaseInvariant, PTL

(* The repo on the media is whole (or gone) in every state, power cuts and *)
(* half-copied trees included: pipeos-sync-media:36-44.                    *)
THEOREM RepoAlwaysWhole == Spec => []RepoNeverPartial
  <1>1. Base => RepoNeverPartial
    BY DEF Base, SwapInv, RepoNeverPartial
  <1> QED
    BY <1>1, BaseInvariant, PTL

(* A sync that found a repo leaves that one or one the world resolves      *)
(* against: the revert of pipeos-sync-media:48-60 puts back what was there.*)
THEOREM SyncsRevert == Spec => SyncAllOrNothing
  <1> DEFINE Act == (lock # "free" /\ lock' = "free" /\ up' /\ before #
        None) =>
                       dst' \in Resolving \cup {before}
  <1>1. ASSUME Base, [Next]_vars PROVE Act
    <2> SUFFICES ASSUME lock # "free", lock' = "free", up', before # None
                 PROVE  dst' \in Resolving \cup {before}
      OBVIOUS
    <2> USE <1>1, FreeIsNoProcess DEF Base, TypeOK, Tree, LockInv,
          SwapInv, Swapping,
                                At, Goto, Step, Exit, disk, ram, media,
                                      saved, marks, env
    <2>1. ASSUME NEW u \in Updater, Update(u) PROVE FALSE
      <3>0. u \in Proc /\ (pc[u] \notin Swapping => lock # u)
        BY <2>1 DEF Proc
      <3>1. lock' = lock
        BY <2>1, <3>0 DEF Update, UpStart, UpNoImage, UpImage, UpToDate,
             UpChanged, UpFetch, UpDie, UpClear, UpCopy, UpGuard, UpUpgrade,
             UpSave, UpVerify, UpVerifyFails
      <3> QED BY <3>1
    <2>2. ASSUME NEW p \in Hand, HandStart(p) PROVE FALSE
      BY <2>2 DEF HandStart
    <2>3. ASSUME NEW p \in Proc, Sync(p) PROVE dst' \in Resolving \cup {before}
      <3>1. CASE SyncVerify(p)      BY <2>3, <3>1 DEF SyncVerify
      <3>2. CASE SyncRefused(p)     BY <2>3, <3>2 DEF SyncRefused
      <3>3. CASE SyncLock(p)        BY <2>3, <3>3 DEF SyncLock
      <3>4. CASE SyncStage(p)       BY <2>3, <3>4 DEF SyncStage
      <3>5. CASE SyncCheck(p)       BY <2>3, <3>5 DEF SyncCheck
      <3>6. CASE SyncCheckFails(p)  BY <2>3, <3>6 DEF SyncCheckFails
      <3>7. CASE SyncSwapOut(p)     BY <2>3, <3>7 DEF SyncSwapOut
      <3>8. CASE SyncSwapIn(p)      BY <2>3, <3>8 DEF SyncSwapIn
      <3>9. CASE SyncDone(p)        BY <2>3, <3>9 DEF SyncDone, Simulates
      <3>10. CASE SyncRevertOut(p)  BY <2>3, <3>10 DEF SyncRevertOut
      <3>11. CASE SyncRevertIn(p)   BY <2>3, <3>11 DEF SyncRevertIn
      <3>12. CASE SyncNothingBack(p) BY <2>3, <3>12 DEF SyncNothingBack
      <3> QED BY <2>3, <3>1, <3>2, <3>3, <3>4, <3>5, <3>6, <3>7, <3>8, <3>9,
                 <3>10, <3>11, <3>12 DEF Sync
    <2>4. CASE Autosave       BY <2>4 DEF Autosave
    <2>5. CASE Publish        BY <2>5 DEF Publish
    <2>6. CASE IntervalPasses BY <2>6 DEF IntervalPasses
    <2>7. CASE PowerLoss      BY <2>7 DEF PowerLoss
    <2>8. CASE Boot           BY <2>8 DEF Boot
    <2>9. CASE UNCHANGED vars BY <2>9 DEF vars
    <2> QED BY <2>1, <2>2, <2>3, <2>4, <2>5, <2>6, <2>7, <2>8, <2>9, <1>1
          DEF Next
  <1>2. [Next]_vars /\ Base => [Act]_vars
    BY <1>1
  <1> QED
    BY <1>2, BaseInvariant, PTL DEF Spec, SyncAllOrNothing

(* A release is stamped as applied only while it is the repo on the media, *)
(* resolves, and the packages it put in RAM are saved, whoever else        *)
(* updates, syncs or saves meanwhile: pipeos-selfupdate:392-418.           *)
THEOREM StampsAreTrue == Spec => StampedIsOnMedia
  <1> DEFINE Act == stamp' # stamp =>
                      dst = stamp' /\ dst \in Resolving /\ canon.rel =
                            installed
  <1>1. ASSUME Base, [Next]_vars PROVE Act
    <2> SUFFICES ASSUME stamp' # stamp
                 PROVE  dst = stamp' /\ dst \in Resolving /\ canon.rel =
                       installed
      OBVIOUS
    <2> USE DEF At, Goto, Step, Exit, disk, ram, media, saved, marks, env, world, Resting, Stopped
    <2>1. ASSUME NEW u \in Updater, Update(u) PROVE UpVerify(u)
      BY <2>1 DEF Update, UpStart, UpNoImage, UpImage, UpToDate, UpChanged,
           UpFetch, UpDie, UpClear, UpCopy, UpGuard, UpUpgrade, UpSave,
           UpVerifyFails
    <2>2. ASSUME NEW u \in Updater, UpVerify(u)
          PROVE  dst = stamp' /\ dst \in Resolving /\ canon.rel = installed
      BY <1>1, <2>2, TreeAssumption DEF UpVerify, Verifies, Base,
            StampInv, Stamp
    <2>3. ASSUME NEW p \in Hand, HandStart(p) PROVE FALSE
      BY <2>3 DEF HandStart
    <2>4. ASSUME NEW p \in Proc, Sync(p) PROVE FALSE
      BY <2>4 DEF Sync, SyncVerify, SyncRefused, SyncLock, SyncStage,
            SyncCheck,
           SyncCheckFails, SyncSwapOut, SyncSwapIn, SyncDone, SyncRevertOut,
           SyncRevertIn, SyncNothingBack
    <2>5. CASE Autosave       BY <2>5 DEF Autosave
    <2>6. CASE Publish        BY <2>6 DEF Publish
    <2>7. CASE IntervalPasses BY <2>7 DEF IntervalPasses
    <2>8. CASE PowerLoss      BY <2>8 DEF PowerLoss
    <2>9. CASE Boot           BY <2>9 DEF Boot
    <2>10. CASE UNCHANGED vars BY <2>10 DEF vars
    <2> QED BY <2>1, <2>2, <2>3, <2>4, <2>5, <2>6, <2>7, <2>8, <2>9,
          <2>10, <1>1 DEF Next
  <1>2. [Next]_vars /\ Base => [Act]_vars
    BY <1>1
  <1> QED
    BY <1>2, BaseInvariant, PTL DEF Spec, StampedIsOnMedia

(* Nothing that runs makes an update forget what it found, or unlist it.   *)
LEMMA StepListed ==
    ASSUME TypeOK, ListedInv, [Next]_vars
    PROVE  ListedInv'
  <1> USE DEF TypeOK, Run, At, Goto, Step, Exit, disk, ram, media, saved, marks, env, world
  <1>1. NoRun.seen = {}
    BY DEF NoRun
  <1>2. ASSUME NEW u \in Updater, Update(u)
        PROVE  ListedInv'
    <2>1. CASE UpStart(u)
      <3>1. \A v \in Updater : run'[v].seen \in {{}, run[v].seen}
        BY <1>1, <2>1 DEF UpStart
      <3> QED BY <2>1, <3>1 DEF UpStart, ListedInv
    <2>2. CASE UpNoImage(u)
      <3>1. \A v \in Updater : run'[v].seen = run[v].seen
        BY <2>2 DEF UpNoImage
      <3> QED BY <2>2, <3>1 DEF UpNoImage, ListedInv
    <2>3. CASE UpImage(u)
      BY <1>1, <2>3 DEF UpImage, ListedInv
    <2>4. CASE UpChanged(u)
      <3>1. \A v \in Updater : run'[v].seen = run[v].seen
        BY <2>4 DEF UpChanged
      <3> QED BY <2>4, <3>1 DEF UpChanged, ListedInv
    <2>5. CASE UpGuard(u)
      <3>1. run'[u].seen = ids /\ \A v \in Updater \ {u} : run'[v] = run[v]
        BY <2>5 DEF UpGuard
      <3> QED BY <2>5, <3>1 DEF UpGuard, ListedInv
    <2>6. CASE UpToDate(u) \/ UpDie(u) \/ UpVerify(u) \/ UpVerifyFails(u)
      <3>1. /\ \A v \in Updater : run'[v].seen \in {{}, run[v].seen}
            /\ list' = list /\ up' = up /\ up
        BY <1>1, <2>6 DEF UpToDate, UpDie, UpVerify, UpVerifyFails
      <3> QED BY <3>1 DEF ListedInv
    <2>7. CASE UpFetch(u) \/ UpClear(u) \/ UpCopy(u) \/ UpUpgrade(u) \/ UpSave(u)
      BY <2>7 DEF UpFetch, UpClear, UpCopy, UpUpgrade, UpSave, ListedInv
    <2> QED BY <1>2, <2>1, <2>2, <2>3, <2>4, <2>5, <2>6, <2>7 DEF Update
  <1>3. ASSUME NEW p \in Hand, HandStart(p)
        PROVE  ListedInv'
    BY <1>3 DEF HandStart, ListedInv
  <1>4. ASSUME NEW p \in Proc, Sync(p)
        PROVE  ListedInv'
    <2>1. /\ \A v \in Updater : run'[v].seen \in {{}, run[v].seen}
          /\ list' = list /\ up' = up /\ up
      BY <1>1, <1>4 DEF Sync, SyncVerify, SyncRefused, SyncLock, SyncStage, SyncCheck,
         SyncCheckFails, SyncSwapOut, SyncSwapIn, SyncDone, SyncRevertOut, SyncRevertIn,
         SyncNothingBack
    <2> QED BY <2>1 DEF ListedInv
  <1>5. CASE PowerLoss
    BY <1>1, <1>5 DEF PowerLoss, ListedInv
  <1>6. CASE Boot
    BY <1>6 DEF Boot, ListedInv
  <1>7. CASE Autosave \/ Publish \/ IntervalPasses \/ UNCHANGED vars
    BY <1>7 DEF Autosave, Publish, IntervalPasses, vars, ListedInv
  <1> QED BY <1>2, <1>3, <1>4, <1>5, <1>6, <1>7 DEF Next

(* An update never costs a box its identity: what it found of it is in the *)
(* apkovl that it saves, whoever else saves, syncs or updates meanwhile:   *)
(* pipeos-selfupdate:392-418.                                              *)
THEOREM IdentityAlwaysSurvives == Spec => IdentitySurvives
  <1> DEFINE Act == \A u \in Updater : (pc[u] = "save" /\ pc'[u] = "verify") =>
                      (run[u].seen \cap ids) \subseteq canon'.ids
  <1>1. Init => ListedInv
    BY DEF Init, ListedInv, NoRun
  <1>2. Base /\ ListedInv /\ [Next]_vars => ListedInv'
    BY StepListed DEF Base
  <1>3. ASSUME Base, ListedInv, [Next]_vars
        PROVE  Act
    <2> SUFFICES ASSUME NEW u \in Updater, pc[u] = "save", pc'[u] = "verify"
                 PROVE  (run[u].seen \cap ids) \subseteq canon'.ids
      OBVIOUS
    <2> USE DEF At, Goto, Step, Exit, disk, ram, media, saved, marks, env, world
    <2>1. pc \in [Proc -> Label] /\ u \in Proc
      BY <1>3 DEF Base, TypeOK, Proc
    <2>2. ASSUME NEW v \in Updater, Update(v)
          PROVE  UpSave(v)
      BY <2>1, <2>2 DEF Update, UpStart, UpNoImage, UpImage, UpToDate, UpChanged, UpFetch,
         UpDie, UpClear, UpCopy, UpGuard, UpUpgrade, UpVerify, UpVerifyFails, Stopped, Proc
    <2>3. ASSUME NEW v \in Updater, UpSave(v)
          PROVE  canon'.ids = ids \cap list
      BY <2>3 DEF UpSave, Packaged
    <2>4. ASSUME NEW p \in Hand, HandStart(p)
          PROVE  FALSE
      BY <2>1, <2>4 DEF HandStart, Proc
    <2>5. ASSUME NEW p \in Proc, Sync(p)
          PROVE  FALSE
      BY <2>1, <2>5 DEF Sync, SyncVerify, SyncRefused, SyncLock, SyncStage, SyncCheck,
         SyncCheckFails, SyncSwapOut, SyncSwapIn, SyncDone, SyncRevertOut, SyncRevertIn,
         SyncNothingBack
    <2>6. ~(Autosave \/ Publish \/ IntervalPasses \/ Boot \/ UNCHANGED vars)
      BY DEF Autosave, Publish, IntervalPasses, Boot, vars
    <2>7. ~PowerLoss
      BY <2>1 DEF PowerLoss, Stopped
    <2>8. canon'.ids = ids \cap list
      BY <1>3, <2>2, <2>3, <2>4, <2>5, <2>6, <2>7 DEF Next
    <2> QED BY <1>3, <2>8 DEF ListedInv
  <1>4. Base /\ ListedInv /\ [Next]_vars => [Act]_vars
    BY <1>3
  <1> QED
    BY <1>1, <1>2, <1>4, BaseInvariant, PTL DEF Spec, IdentitySurvives

=============================================================================
