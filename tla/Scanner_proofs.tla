--------------------------- MODULE Scanner_proofs ---------------------------
(***************************************************************************)
(* The camera of the pay tab, for every number of renders and openings.    *)
(***************************************************************************)
EXTENDS Scanner, TLAPS

(* An effect that waits or runs belongs to an open scanner of a browser, and *)
(* Android's scanner is up only on Android.                                  *)
EffectIsOpen ==
  /\ active => scanning /\ platform = "camera"
  /\ native => platform = "android"

(* No stream was asked for by a run that has not started.                    *)
FutureIsUnasked == \A r \in Runs : r > run => cam[r] = "none"

NothingScannedYet == scanning => scans = 0

ScannerInv ==
  /\ TypeOK
  /\ EffectIsOpen
  /\ FutureIsUnasked
  /\ CameraIsHeld
  /\ LoopHasCamera
  /\ NothingScannedYet
  /\ OneScanPerOpening

-----------------------------------------------------------------------------
LEMMA InitScanner == Init => ScannerInv
  <1>1. Init => TypeOK
    <2>1. Init => cam \in [Runs -> {"none", "asked", "live", "stopped", "denied"}]
      BY DEF Init
    <2>2. Init => run \in 0..MaxRuns /\ first \in 1..MaxRuns /\ streamRef \in 0..MaxRuns
                  /\ loop \in 0..MaxRuns /\ scans \in Nat
      BY ScannerAssumption DEF Init
    <2>3. Init => scanning \in BOOLEAN /\ active \in BOOLEAN /\ err \in BOOLEAN
                  /\ native \in BOOLEAN /\ to \in Payees \cup {Nothing}
                  /\ platform \in {"android", "camera", "nocamera"}
      BY DEF Init
    <2> QED
      BY <2>1, <2>2, <2>3 DEF TypeOK
  <1>2. Init => EffectIsOpen /\ NothingScannedYet /\ OneScanPerOpening
    BY DEF Init, EffectIsOpen, NothingScannedYet, OneScanPerOpening
  <1>3. Init => FutureIsUnasked /\ CameraIsHeld /\ LoopHasCamera
    BY DEF Init, FutureIsUnasked, CameraIsHeld, LoopHasCamera, Live, Runs
  <1> QED
    BY <1>1, <1>2, <1>3 DEF ScannerInv

(* A cleanup leaves no stream on: only the one it stops can be.              *)
LEMMA CleanedIsDark ==
  ASSUME ScannerInv
  PROVE  /\ Cleaned \in [Runs -> {"none", "asked", "live", "stopped", "denied"}]
         /\ \A r \in Runs : Cleaned[r] # "live"
         /\ \A r \in Runs : r > run => Cleaned[r] = "none"
  BY DEF Cleaned, ScannerInv, TypeOK, CameraIsHeld, FutureIsUnasked, Live

(* An effect that starts with every stream off asks for one more.            *)
LEMMA EffectIsDark ==
  ASSUME ScannerInv, run < MaxRuns,
         NEW c \in [Runs -> {"none", "asked", "live", "stopped", "denied"}],
         \A r \in Runs : c[r] # "live",
         \A r \in Runs : r > run => c[r] = "none",
         Effect(c)
  PROVE  /\ run' \in 0..MaxRuns /\ loop' = 0
         /\ active' = (platform = "camera")
         /\ cam' \in [Runs -> {"none", "asked", "live", "stopped", "denied"}]
         /\ \A r \in Runs : cam'[r] # "live"
         /\ \A r \in Runs : r > run' => cam'[r] = "none"
  BY ScannerAssumption DEF Effect, ScannerInv, TypeOK, Runs

LEMMA OpenStep == ScannerInv /\ Open => ScannerInv'
  <1> SUFFICES ASSUME ScannerInv, Open PROVE ScannerInv'
    OBVIOUS
  <1>1. /\ \A r \in Runs : cam[r] # "live"
        /\ cam \in [Runs -> {"none", "asked", "live", "stopped", "denied"}]
        /\ \A r \in Runs : r > run => cam[r] = "none"
    BY DEF Open, ScannerInv, TypeOK, CameraIsHeld, FutureIsUnasked, Live
  <1>2. run < MaxRuns /\ Effect(cam)
    BY DEF Open
  <1>3. /\ run' \in 0..MaxRuns /\ loop' = 0 /\ active' = (platform = "camera")
        /\ cam' \in [Runs -> {"none", "asked", "live", "stopped", "denied"}]
        /\ \A r \in Runs : cam'[r] # "live"
        /\ \A r \in Runs : r > run' => cam'[r] = "none"
    BY <1>1, <1>2, EffectIsDark
  <1>4. first' \in 1..MaxRuns
    BY <1>2, ScannerAssumption DEF Open, ScannerInv, TypeOK
  <1> QED
    BY <1>3, <1>4, ScannerAssumption
    DEF Open, ScannerInv, TypeOK, EffectIsOpen, FutureIsUnasked, CameraIsHeld, Live,
        LoopHasCamera, NothingScannedYet, OneScanPerOpening

LEMMA RerenderStep == ScannerInv /\ Rerender => ScannerInv'
  <1> SUFFICES ASSUME ScannerInv, Rerender PROVE ScannerInv'
    OBVIOUS
  <1>1. run < MaxRuns /\ Effect(Cleaned)
    BY DEF Rerender
  <1>2. /\ run' \in 0..MaxRuns /\ loop' = 0 /\ active' = (platform = "camera")
        /\ cam' \in [Runs -> {"none", "asked", "live", "stopped", "denied"}]
        /\ \A r \in Runs : cam'[r] # "live"
        /\ \A r \in Runs : r > run' => cam'[r] = "none"
    BY <1>1, CleanedIsDark, EffectIsDark
  <1>3. scanning /\ scanning' = scanning /\ err' \in BOOLEAN
        /\ UNCHANGED <<platform, first, streamRef, native, to, scans>>
    BY DEF Rerender, ScannerInv, TypeOK
  <1>4. TypeOK'
    <2>1. active' \in BOOLEAN /\ scanning' \in BOOLEAN /\ native' \in BOOLEAN
      BY <1>2, <1>3 DEF ScannerInv, TypeOK
    <2>2. loop' \in 0..MaxRuns
      BY <1>2, ScannerAssumption
    <2> QED
      BY <1>2, <1>3, <2>1, <2>2 DEF ScannerInv, TypeOK
  <1>5. EffectIsOpen' /\ NothingScannedYet' /\ OneScanPerOpening'
    BY <1>2, <1>3 DEF ScannerInv, EffectIsOpen, NothingScannedYet, OneScanPerOpening
  <1>6. FutureIsUnasked' /\ CameraIsHeld' /\ LoopHasCamera'
    BY <1>2 DEF FutureIsUnasked, CameraIsHeld, LoopHasCamera, Live, Runs
  <1> QED
    BY <1>4, <1>5, <1>6 DEF ScannerInv

(* The browser's user answers one request for the camera, late or not.       *)
LEMMA PermissionStep ==
  ASSUME ScannerInv, NEW r \in Runs, Grant(r) \/ Deny(r)
  PROVE  ScannerInv'
  <1> USE DEF ScannerInv, TypeOK, Runs, EffectIsOpen, FutureIsUnasked, CameraIsHeld, Live,
              LoopHasCamera, NothingScannedYet, OneScanPerOpening
  <1>1. CASE Grant(r)
    <2>1. CASE r = run /\ active
      BY <1>1, <2>1, ScannerAssumption DEF Grant
    <2>2. CASE ~(r = run /\ active)
      BY <1>1, <2>2, ScannerAssumption DEF Grant
    <2> QED
      BY <2>1, <2>2
  <1>2. CASE Deny(r)
    BY <1>2, ScannerAssumption DEF Deny
  <1> QED
    BY <1>1, <1>2

(* A scanner that closes with a cleanup.                                     *)
LEMMA ClosedIsDark ==
  ASSUME ScannerInv, cleanup, scanning' = FALSE, err' = FALSE,
         to' \in Payees \cup {Nothing}, scans' \in 0..1,
         UNCHANGED <<platform, first, run, streamRef, native>>
  PROVE  ScannerInv'
  <1>1. cam' = Cleaned /\ loop' = 0 /\ active' = FALSE
    BY DEF cleanup
  <1>2. TypeOK'
    <2>1. cam' \in [Runs -> {"none", "asked", "live", "stopped", "denied"}]
      BY <1>1, CleanedIsDark
    <2>2. scans' \in Nat /\ loop' \in 0..MaxRuns
      BY <1>1, ScannerAssumption
    <2>3. active' \in BOOLEAN /\ scanning' \in BOOLEAN /\ err' \in BOOLEAN
      BY <1>1
    <2> QED
      BY <2>1, <2>2, <2>3 DEF ScannerInv, TypeOK
  <1>3. EffectIsOpen' /\ NothingScannedYet'
    BY <1>1 DEF ScannerInv, EffectIsOpen, NothingScannedYet
  <1>4. FutureIsUnasked'
    BY <1>1, CleanedIsDark DEF FutureIsUnasked, Runs
  <1>5. CameraIsHeld'
    BY <1>1, CleanedIsDark DEF CameraIsHeld, Live, Runs
  <1>6. LoopHasCamera'
    BY <1>1 DEF LoopHasCamera
  <1>7. OneScanPerOpening'
    BY DEF OneScanPerOpening
  <1> QED
    BY <1>2, <1>3, <1>4, <1>5, <1>6, <1>7 DEF ScannerInv

LEMMA CodeStep ==
  ASSUME ScannerInv, NEW code \in Codes, tick(code)
  PROVE  ScannerInv'
  <1>1. loop \in Runs /\ Live(loop)
    BY DEF tick, ScannerInv, TypeOK, LoopHasCamera, Runs
  <1>2. scanning
    BY <1>1 DEF ScannerInv, CameraIsHeld
  <1>3. scans = 0
    BY <1>2 DEF ScannerInv, NothingScannedYet
  <1>4. to' \in Payees \cup {Nothing}
    BY DEF tick, onScan, ScannerInv, TypeOK
  <1>5. cleanup /\ scanning' = FALSE /\ err' = FALSE /\ scans' = scans + 1
        /\ UNCHANGED <<platform, first, run, streamRef, native>>
    BY DEF tick, onScan
  <1>6. scans' \in 0..1
    BY <1>3, <1>5
  <1> QED
    BY <1>4, <1>5, <1>6, ClosedIsDark

(* Frames are read from the stream that is on, until one holds a code.       *)
LEMMA FrameStep ==
  ASSUME ScannerInv, Loaded \/ tick_Throws \/ \E code \in Codes : tick(code)
  PROVE  ScannerInv'
  <1> USE DEF ScannerInv, TypeOK, Runs, EffectIsOpen, FutureIsUnasked, CameraIsHeld, Live,
              LoopHasCamera, NothingScannedYet, OneScanPerOpening
  <1>1. CASE Loaded
    BY <1>1, ScannerAssumption DEF Loaded
  <1>2. CASE tick_Throws
    BY <1>2, ScannerAssumption DEF tick_Throws
  <1>3. ASSUME NEW code \in Codes, tick(code) PROVE ScannerInv'
    BY <1>3, CodeStep
  <1> QED
    BY <1>1, <1>2, <1>3

LEMMA CloseStep == ScannerInv /\ Close => ScannerInv'
  <1> SUFFICES ASSUME ScannerInv, Close PROVE ScannerInv'
    OBVIOUS
  <1>1. to' \in Payees \cup {Nothing} /\ scans' \in 0..1
    BY DEF Close, ScannerInv, TypeOK, NothingScannedYet
  <1> QED
    BY <1>1, ClosedIsDark DEF Close

(* Android's scanner ends; there no stream was ever on.                      *)
LEMMA NativeStep ==
  ASSUME ScannerInv, NativeCancel \/ NativeError \/ \E code \in Codes : NativeScan(code)
  PROVE  ScannerInv'
  <1>1. /\ native /\ native' = FALSE /\ active = FALSE /\ scanning' \in {scanning, FALSE}
        /\ err' \in BOOLEAN
        /\ UNCHANGED <<platform, first, run, active, cam, streamRef, loop>>
    BY DEF NativeCancel, NativeError, NativeScan, onScan, ScannerInv, TypeOK, EffectIsOpen
  <1>2. to' \in Payees \cup {Nothing} /\ scans' \in 0..1 /\ (scanning' => scans' = 0)
    <2>1. CASE NativeCancel \/ NativeError
      BY <2>1 DEF NativeCancel, NativeError, ScannerInv, TypeOK, OneScanPerOpening,
                  NothingScannedYet
    <2>2. ASSUME NEW code \in Codes, NativeScan(code), scanning 
          PROVE  (to' \in Payees \cup {Nothing} /\ scans' \in 0..1 /\ (scanning' => scans' = 0))
      <3>1. scans = 0
        BY <2>2 DEF ScannerInv, NothingScannedYet
      <3> QED
        BY <2>2, <3>1 DEF NativeScan, onScan, ScannerInv, TypeOK
    <2>3. ASSUME NEW code \in Codes, NativeScan(code), ~scanning 
          PROVE  (to' \in Payees \cup {Nothing} /\ scans' \in 0..1 /\ (scanning' => scans' = 0))
      BY <2>3 DEF NativeScan, ScannerInv, TypeOK, OneScanPerOpening
    <2> QED
      BY <2>1, <2>2, <2>3
  <1>3. \A r \in Runs : ~Live(r)
    BY <1>1 DEF ScannerInv, CameraIsHeld
  <1>4. loop = 0
    BY <1>3 DEF ScannerInv, TypeOK, LoopHasCamera, Runs
  <1>5. TypeOK'
    <2>1. active' \in BOOLEAN /\ scanning' \in BOOLEAN /\ native' \in BOOLEAN
      BY <1>1 DEF ScannerInv, TypeOK
    <2>2. scans' \in Nat
      BY <1>2
    <2> QED
      BY <1>1, <1>2, <2>1, <2>2 DEF ScannerInv, TypeOK
  <1>6. EffectIsOpen' /\ NothingScannedYet' /\ OneScanPerOpening'
    BY <1>1, <1>2 DEF EffectIsOpen, NothingScannedYet, OneScanPerOpening
  <1>7. FutureIsUnasked' /\ CameraIsHeld' /\ LoopHasCamera'
    BY <1>1, <1>3, <1>4 DEF ScannerInv, FutureIsUnasked, CameraIsHeld, LoopHasCamera, Live, Runs
  <1> QED
    BY <1>5, <1>6, <1>7 DEF ScannerInv

LEMMA NextScanner == ScannerInv /\ [Next]_vars => ScannerInv'
  <1> SUFFICES ASSUME ScannerInv, [Next]_vars PROVE ScannerInv'
    OBVIOUS
  <1>1. CASE UNCHANGED vars
    BY <1>1 DEF vars, ScannerInv, TypeOK, Runs, EffectIsOpen, FutureIsUnasked, CameraIsHeld,
                Live, LoopHasCamera, NothingScannedYet, OneScanPerOpening
  <1>2. CASE Next
    BY <1>2, OpenStep, RerenderStep, PermissionStep, FrameStep, CloseStep, NativeStep DEF Next
  <1> QED
    BY <1>1, <1>2

LEMMA ScannerInvariant == Spec => []ScannerInv
  BY InitScanner, NextScanner, PTL DEF Spec

(***************************************************************************)
(* However often the pay tab renders, and however late a permission comes, *)
(* a stream that is on is that of the open scanner's current run, and the  *)
(* next cleanup stops it.                                                  *)
(***************************************************************************)
THEOREM CameraStaysHeld == Spec => []CameraIsHeld
  <1>1. ScannerInv => CameraIsHeld
    BY DEF ScannerInv
  <1> QED
    BY <1>1, ScannerInvariant, PTL

(***************************************************************************)
(* No frame is read for a run that a render has ended.                     *)
(***************************************************************************)
THEOREM FramesAreCurrent == Spec => []LoopHasCamera
  <1>1. ScannerInv => LoopHasCamera
    BY DEF ScannerInv
  <1> QED
    BY <1>1, ScannerInvariant, PTL

(***************************************************************************)
(* One opening of the scanner calls onScan once at most.                   *)
(***************************************************************************)
THEOREM ScansOnce == Spec => []OneScanPerOpening
  <1>1. ScannerInv => OneScanPerOpening
    BY DEF ScannerInv
  <1> QED
    BY <1>1, ScannerInvariant, PTL

=============================================================================
