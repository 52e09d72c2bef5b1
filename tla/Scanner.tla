------------------------------ MODULE Scanner ------------------------------
(***************************************************************************)
(* src/web/src/components/QRScanner.jsx inside the pay tab.  Its effect    *)
(* depends on onScan, which PayTab makes anew at every render: each answer *)
(* to a balance refresh ends one run of the effect and starts the next,    *)
(* while the browser may still be asking the user for the camera on behalf *)
(* of an earlier run.                                                      *)
(***************************************************************************)
EXTENDS Naturals

CONSTANTS
  MaxRuns,     \* runs of the effect, a bound
  Codes,       \* what a QR code may say
  Payees,      \* those that start with CK1
  Nothing      \* nothing scanned

ASSUME ScannerAssumption == MaxRuns \in Nat \ {0} /\ Payees \subseteq Codes

Runs == 1..MaxRuns

VARIABLES
  platform,    \* Capacitor.getPlatform() and what the browser offers
  scanning,    \* PayTab shows the scanner
  first, run,  \* first and last run of the effect since the scanner opened
  active,      \* the last run has not been cleaned up
  cam,         \* [Runs -> the state of the camera stream it asked for]
  streamRef,   \* the run whose stream the scanner holds, 0 for none
  loop,        \* the run whose frames are being read, 0 for none
  err,         \* "Camera unavailable" is shown instead of the video
  native,      \* Android's scanner is up for run
  to,          \* the address in the pay tab
  scans        \* auxiliary: calls of onScan since the scanner opened

vars == <<platform, scanning, first, run, active, cam, streamRef, loop, err, native, to, scans>>

Web == platform # "android"

Live(r) == cam[r] = "live"

Init ==
  /\ platform \in {"android", "camera", "nocamera"}
  /\ scanning = FALSE /\ first = 1 /\ run = 0 /\ active = FALSE
  /\ cam = [r \in Runs |-> "none"]
  /\ streamRef = 0 /\ loop = 0 /\ err = FALSE /\ native = FALSE
  /\ to = Nothing /\ scans = 0

-----------------------------------------------------------------------------
(* Stops whatever stream the ref holds; the ref itself stays.                *)
Cleaned ==
  [r \in Runs |-> IF r = streamRef /\ Live(r) THEN "stopped" ELSE cam[r]]

(* A mutant: the frames go on being read.                                    *)
cleanup_KeepLoop ==
  /\ active' = FALSE
  /\ loop' = loop
  /\ cam' = Cleaned

cleanup ==
  /\ active' = FALSE
  /\ loop' = 0
  /\ cam' = Cleaned

(* The effect, after the cleanup of the run before: it asks for the camera,  *)
(* or shows at once that there is none and needs no cleanup.                 *)
Effect(c) ==
  /\ run' = run + 1
  /\ loop' = 0
  /\ active' = (platform = "camera")
  /\ cam' = IF platform = "camera" THEN [c EXCEPT ![run + 1] = "asked"] ELSE c

Open ==
  /\ ~scanning /\ run < MaxRuns /\ ~native
  /\ scanning' = TRUE
  /\ first' = run + 1
  /\ streamRef' = 0
  /\ err' = (platform = "nocamera")
  /\ native' = (platform = "android")
  /\ scans' = 0
  /\ Effect(cam)
  /\ UNCHANGED <<platform, to>>

(* PayTab renders again.  Android's effect has no dependencies.              *)
Rerender ==
  /\ scanning /\ Web /\ run < MaxRuns
  /\ err' = (err \/ platform = "nocamera")
  /\ Effect(Cleaned)
  /\ UNCHANGED <<platform, scanning, first, streamRef, native, to, scans>>

(* A mutant: a stream is taken whenever it arrives.                          *)
Grant_Late(r) ==
  /\ cam[r] = "asked"
  /\ cam' = [cam EXCEPT ![r] = "live"]
  /\ streamRef' = r
  /\ UNCHANGED <<platform, scanning, first, run, active, loop, err, native, to, scans>>

(* A stream for a run that is over is stopped as it arrives.  Where the      *)
(* error view has replaced the video, the handler throws after it has taken  *)
(* the stream.                                                               *)
Grant(r) ==
  /\ cam[r] = "asked"
  /\ IF r = run /\ active
     THEN cam' = [cam EXCEPT ![r] = "live"] /\ streamRef' = r
     ELSE cam' = [cam EXCEPT ![r] = "stopped"] /\ streamRef' = streamRef
  /\ UNCHANGED <<platform, scanning, first, run, active, loop, err, native, to, scans>>

(* A refusal shows the error also when the run is over and a later one has   *)
(* the camera; not when the scanner was closed since.                        *)
Deny(r) ==
  /\ cam[r] = "asked"
  /\ cam' = [cam EXCEPT ![r] = "denied"]
  /\ err' = (err \/ (scanning /\ r >= first))
  /\ UNCHANGED <<platform, scanning, first, run, active, streamRef, loop, native, to, scans>>

(* onloadeddata.                                                             *)
Loaded ==
  /\ active /\ Live(run) /\ loop = 0 /\ ~err
  /\ loop' = run
  /\ UNCHANGED <<platform, scanning, first, run, active, cam, streamRef, err, native, to, scans>>

(* The loop fails on the canvas that the error view has removed.             *)
tick_Throws ==
  /\ loop # 0 /\ err
  /\ loop' = 0
  /\ UNCHANGED <<platform, scanning, first, run, active, cam, streamRef, err, native, to, scans>>

(* A mutant: the scanner stays open for another try.                         *)
onScan_StaysOpen(code) ==
  /\ scanning' = scanning
  /\ err' = FALSE
  /\ to' = IF code \in Payees THEN code ELSE to
  /\ scans' = scans + 1

(* PayTab's onScan closes the scanner and takes an address over.             *)
onScan(code) ==
  /\ scanning' = FALSE
  /\ err' = FALSE
  /\ to' = IF code \in Payees THEN code ELSE to
  /\ scans' = scans + 1

tick(code) ==
  /\ loop # 0 /\ ~err
  /\ cleanup
  /\ onScan(code)
  /\ UNCHANGED <<platform, first, run, streamRef, native>>

(* Cancel or Close, or the wallet goes home after a payment; on Android the  *)
(* scanner covers the page, and only the error view has a button.            *)
Close ==
  /\ scanning
  /\ scanning' = FALSE
  /\ err' = FALSE
  /\ cleanup
  /\ UNCHANGED <<platform, first, run, streamRef, native, to, scans>>

(* Android's scanner ends: a code, no code, dismissed, or an error.          *)
NativeScan(code) ==
  /\ native
  /\ native' = FALSE
  /\ IF scanning THEN onScan(code) ELSE UNCHANGED <<scanning, err, to, scans>>
  /\ UNCHANGED <<platform, first, run, active, cam, streamRef, loop>>

NativeCancel ==
  /\ native
  /\ native' = FALSE
  /\ scanning' = FALSE
  /\ UNCHANGED <<platform, first, run, active, cam, streamRef, loop, err, to, scans>>

NativeError ==
  /\ native
  /\ native' = FALSE
  /\ err' = scanning
  /\ UNCHANGED <<platform, scanning, first, run, active, cam, streamRef, loop, to, scans>>

Next ==
  \/ Open \/ Rerender \/ Loaded \/ tick_Throws \/ Close
  \/ \E r \in Runs : Grant(r) \/ Deny(r)
  \/ \E code \in Codes : tick(code) \/ NativeScan(code)
  \/ NativeCancel \/ NativeError

Spec == Init /\ [][Next]_vars

-----------------------------------------------------------------------------
TypeOK ==
  /\ platform \in {"android", "camera", "nocamera"}
  /\ scanning \in BOOLEAN /\ active \in BOOLEAN /\ err \in BOOLEAN /\ native \in BOOLEAN
  /\ run \in 0..MaxRuns /\ first \in 1..MaxRuns
  /\ cam \in [Runs -> {"none", "asked", "live", "stopped", "denied"}]
  /\ streamRef \in 0..MaxRuns /\ loop \in 0..MaxRuns
  /\ to \in Payees \cup {Nothing}
  /\ scans \in Nat

(* The camera is on only while the scanner is open, in one stream, and that  *)
(* is the one the next cleanup stops: permissions that are granted late, or  *)
(* for a run that a render has ended, leave no camera running.               *)
CameraIsHeld ==
  \A r \in Runs : Live(r) => scanning /\ active /\ r = run /\ streamRef = r

(* Frames are read only from a camera that is on, for the current onScan.    *)
LoopHasCamera == loop # 0 => loop = run /\ Live(loop)

(* An opening of the scanner hands over at most one code, whatever runs and  *)
(* frames were under way when it did.                                        *)
OneScanPerOpening == scans <= 1

=============================================================================
