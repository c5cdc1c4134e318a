-------------------------- MODULE CertWatcherProofs --------------------------
(***************************************************************************)
(* For any number of rotations and either kind of writer: the certificate  *)
(* watcher loses no rotation it can see, and a connection never verifies   *)
(* with an older CA than it was configured with.  The directory is the     *)
(* source; the proof follows a content from it through reload to           *)
(* tlsConfig, and shows that something is outstanding wherever they differ.*)
(***************************************************************************)
EXTENDS CertWatcher, TLAPS

LEMMA FilesAre ==
  "tls.crt" \in Files /\ "tls.key" \in Files /\ "ca.crt" \in Files
  BY DEF Files

LEMMA InitIInv == Init => IInv
  <1> SUFFICES ASSUME Init PROVE IInv OBVIOUS
  <1>1. 0 \in Rotations
    BY RotationsAssumption DEF Rotations
  <1>2. TypeOK
    BY <1>1, WritersAssumption
       DEF Init, TypeOK, NothingRead, NoConn, NoConfig, Config, NoRotation
  <1>3. WithinBound /\ ReadsAreFresh /\ InOrder /\ NeverOlder
    BY FilesAre DEF Init, WithinBound, ReadsAreFresh, InOrder, NeverOlder, NoConn, NoConfig, NoRotation
  <1> QED BY <1>2, <1>3 DEF IInv

-----------------------------------------------------------------------------
(* The directory *)

\* What every change of a file that is watched file by file does: it leaves an
\* event behind, or it was not seen.
LEMMA NotifyTells ==
  ASSUME NEW f \in Files, Notify(f), events \subseteq Files, missed \in BOOLEAN
  PROVE  /\ events' \subseteq Files /\ missed' \in BOOLEAN
         /\ missed' \/ events' # {}
  BY DEF Notify

LEMMA TruncateFileStep ==
  ASSUME IInv, NEW f \in Files, TruncateFile(f) PROVE IInv'
  <1> USE DEF IInv
  <1>1. /\ events' \subseteq Files /\ missed' \in BOOLEAN
        /\ missed' \/ events' # {}
    BY NotifyTells DEF TruncateFile, TypeOK
  <1>2. TypeOK'
    BY <1>1 DEF TruncateFile, TypeOK, watcher
  <1>3. ReadsAreFresh'
    BY <1>1 DEF ReadsAreFresh, Pending
  <1>4. InOrder' /\ NeverOlder'
    BY DEF TruncateFile, InOrder, NeverOlder
  <1>5. WithinBound'
    BY DEF TruncateFile, WithinBound
  <1> QED BY <1>2, <1>3, <1>4, <1>5

LEMMA WriteFileStep ==
  ASSUME IInv, NEW f \in Files, WriteFile(f) PROVE IInv'
  <1> USE DEF IInv
  <1>1. /\ events' \subseteq Files /\ missed' \in BOOLEAN
        /\ missed' \/ events' # {}
    BY NotifyTells DEF WriteFile, TypeOK
  <1>2. /\ file' \in [Files -> Rotations]
        /\ \A g \in Files : file[g] <= file'[g]
    BY RotationsAssumption DEF WriteFile, TypeOK, WithinBound, Rotations
  <1>3. TypeOK'
    BY <1>1, <1>2 DEF WriteFile, TypeOK, watcher
  <1>4. ReadsAreFresh'
    BY <1>1 DEF ReadsAreFresh, Pending
  <1>5. InOrder' /\ NeverOlder'
    BY <1>2, FilesAre DEF WriteFile, InOrder, NeverOlder, TypeOK, Rotations, Config, NoRotation
  <1>6. WithinBound'
    BY DEF WriteFile, WithinBound, TypeOK
  <1> QED BY <1>3, <1>4, <1>5, <1>6

LEMMA SwapVolumeStep ==
  ASSUME IInv, SwapVolume PROVE IInv'
  <1> USE DEF IInv
  <1>1. /\ file' \in [Files -> Rotations]
        /\ \A g \in Files : file[g] <= file'[g]
    BY RotationsAssumption DEF SwapVolume, TypeOK, Rotations
  <1>2. TypeOK' /\ ReadsAreFresh'
    BY <1>1 DEF SwapVolume, TypeOK, ReadsAreFresh, watcher
  <1>3. InOrder' /\ NeverOlder'
    BY <1>1, FilesAre DEF SwapVolume, InOrder, NeverOlder, TypeOK, Rotations, Config, NoRotation
  <1>4. WithinBound'
    BY DEF SwapVolume, WithinBound
  <1> QED BY <1>2, <1>3, <1>4

-----------------------------------------------------------------------------
(* reload *)

\* A reload that is refused changes neither the disk nor the configuration, and
\* is right to do so if nothing is pending and the rotation is not complete.
LEMMA RefusedStep ==
  ASSUME IInv, ReloadFails, read' = NothingRead, ~Complete,
         UNCHANGED <<disk, watcher, tlsConfig, conn>>
  PROVE  IInv'
  <1> USE DEF IInv
  <1>1. TypeOK'
    BY DEF ReloadFails, NothingRead, TypeOK, disk, watcher
  <1>2. ReadsAreFresh'
    BY DEF ReloadFails, ReadsAreFresh, Complete, disk
  <1>3. InOrder' /\ NeverOlder' /\ WithinBound'
    BY DEF ReloadFails, InOrder, NeverOlder, WithinBound, disk
  <1> QED BY <1>1, <1>2, <1>3

LEMMA ReadCertStep ==
  ASSUME IInv, ReadCert PROVE IInv'
  <1> USE DEF IInv
  <1>1. CASE "tls.crt" \in torn
    BY <1>1, RefusedStep DEF ReadCert, Read, Complete
  <1>2. CASE "tls.crt" \notin torn
    <2>1. /\ pc' = "key" /\ read' = [read EXCEPT !["tls.crt"] = file["tls.crt"]]
          /\ UNCHANGED <<disk, watcher, tlsConfig, conn>>
      BY <1>2 DEF ReadCert, Read
    <2>2. TypeOK'
      BY <2>1, FilesAre DEF TypeOK, disk, watcher
    <2>3. ReadsAreFresh'
      BY <2>1, FilesAre DEF ReadsAreFresh, TypeOK, Pending, disk, watcher
    <2>4. read'["tls.crt"] = file["tls.crt"] /\ file["tls.crt"] \in Nat
      BY <2>1, FilesAre, RotationsAssumption DEF TypeOK, Rotations
    <2>5. InOrder' /\ NeverOlder' /\ WithinBound'
      BY <2>1, <2>4 DEF InOrder, NeverOlder, WithinBound, disk
    <2> QED BY <2>2, <2>3, <2>5
  <1> QED BY <1>1, <1>2

\* tls.LoadX509KeyPair refuses a pair that does not fit.  It may do so although
\* the disk is complete, if the certificate has changed since it was read: then
\* the event of that change is pending.
LEMMA ReadKeyStep ==
  ASSUME IInv, ReadKey PROVE IInv'
  <1> USE DEF IInv
  <1>0. pc = "key" /\ UNCHANGED <<disk, watcher, tlsConfig, conn>>
    BY DEF ReadKey, Read
  <1>1. CASE "tls.key" \in torn \/ file["tls.key"] # read["tls.crt"]
    <2>1. ReloadFails /\ read' = NothingRead
      BY <1>1 DEF ReadKey, Read
    <2>2. CASE ~Complete
      BY <1>0, <2>1, <2>2, RefusedStep
    <2>3. CASE missed \/ Pending
      <3>1. TypeOK'
        BY <1>0, <2>1 DEF ReloadFails, NothingRead, TypeOK, disk, watcher
      <3>2. ReadsAreFresh'
        BY <1>0, <2>3 DEF ReadsAreFresh, Pending, disk, watcher
      <3>3. InOrder' /\ NeverOlder' /\ WithinBound'
        BY <1>0, <2>1 DEF ReloadFails, InOrder, NeverOlder, WithinBound, disk
      <3> QED BY <3>1, <3>2, <3>3
    <2>4. ~Complete \/ missed \/ Pending
      BY <1>0, <1>1 DEF ReadsAreFresh, Complete
    <2> QED BY <2>2, <2>3, <2>4
  <1>2. CASE "tls.key" \notin torn /\ file["tls.key"] = read["tls.crt"]
    <2>1. pc' = "ca" /\ read' = [read EXCEPT !["tls.key"] = file["tls.key"]]
      BY <1>2 DEF ReadKey, Read
    <2>2. TypeOK'
      BY <1>0, <2>1, FilesAre DEF TypeOK, disk, watcher
    <2>3. ReadsAreFresh'
      BY <1>0, <2>1, FilesAre DEF ReadsAreFresh, TypeOK, Pending, disk, watcher
    <2>4. InOrder' /\ NeverOlder' /\ WithinBound'
      BY <1>0, <2>1 DEF InOrder, NeverOlder, WithinBound, disk
    <2> QED BY <2>2, <2>3, <2>4
  <1> QED BY <1>1, <1>2

LEMMA ReadCAStep ==
  ASSUME IInv, ReadCA PROVE IInv'
  <1> USE DEF IInv
  <1>1. CASE "ca.crt" \in torn
    BY <1>1, RefusedStep DEF ReadCA, Read, Complete
  <1>2. CASE "ca.crt" \notin torn
    <2>1. /\ pc = "ca"
          /\ pc' = "swap" /\ read' = [read EXCEPT !["ca.crt"] = file["ca.crt"]]
          /\ UNCHANGED <<disk, watcher, tlsConfig, conn>>
      BY <1>2 DEF ReadCA, Read
    <2>2. TypeOK'
      BY <2>1, FilesAre DEF TypeOK, disk, watcher
    <2>3. ReadsAreFresh'
      BY <2>1, FilesAre DEF ReadsAreFresh, TypeOK, Pending, disk, watcher
    <2>4. read'["ca.crt"] = file["ca.crt"] /\ file["ca.crt"] \in Nat
      BY <2>1, FilesAre, RotationsAssumption DEF TypeOK, Rotations
    <2>5. InOrder' /\ NeverOlder' /\ WithinBound'
      BY <2>1, <2>4 DEF InOrder, NeverOlder, WithinBound, disk
    <2> QED BY <2>2, <2>3, <2>5
  <1> QED BY <1>1, <1>2

LEMMA SwapStep ==
  ASSUME IInv, Swap PROVE IInv'
  <1> USE DEF IInv
  <1>1. TypeOK'
    BY FilesAre DEF Swap, TypeOK, Config, NothingRead, disk, watcher
  <1>2. ReadsAreFresh'
    BY DEF Swap, ReadsAreFresh, Pending, OnDisk, disk, watcher
  <1>3. InOrder'
    BY FilesAre, RotationsAssumption
       DEF Swap, InOrder, TypeOK, Config, Rotations, NoRotation, disk
  <1>4. NeverOlder' /\ WithinBound'
    BY DEF Swap, NeverOlder, WithinBound, disk
  <1> QED BY <1>1, <1>2, <1>3, <1>4

LEMMA AddWatchStep ==
  ASSUME IInv, AddWatch PROVE IInv'
  <1> USE DEF IInv
  <1>1. TypeOK'
    BY DEF AddWatch, TypeOK, disk
  <1>2. ReadsAreFresh'
    BY DEF AddWatch, ReadsAreFresh, Pending, Complete, OnDisk, disk
  <1>3. InOrder' /\ NeverOlder' /\ WithinBound'
    BY DEF AddWatch, InOrder, NeverOlder, WithinBound, disk
  <1> QED BY <1>1, <1>2, <1>3

-----------------------------------------------------------------------------
(* watch, the timer and connections *)

\* An event that is taken becomes a running timer, a timer that fires a signal,
\* and a signal that is taken a reload, which has read nothing yet.
LEMMA WatchStep ==
  ASSUME IInv, (\E f \in Files : TakeEvent(f)) \/ TimerFires \/ StartReload
  PROVE  IInv'
  <1> USE DEF IInv
  <1>1. ASSUME NEW f \in Files, TakeEvent(f) PROVE IInv'
    <2>1. TypeOK'
      BY <1>1 DEF TakeEvent, TypeOK
    <2>2. timer'
      BY <1>1 DEF TakeEvent, Handled
    <2>3. ReadsAreFresh'
      BY <2>2 DEF ReadsAreFresh, Pending
    <2>4. InOrder' /\ NeverOlder' /\ WithinBound'
      BY <1>1 DEF TakeEvent, InOrder, NeverOlder, WithinBound
    <2> QED BY <2>1, <2>3, <2>4
  <1>2. CASE TimerFires
    <2>1. TypeOK' /\ ReadsAreFresh'
      BY <1>2 DEF TimerFires, TypeOK, ReadsAreFresh, Pending, disk
    <2>2. InOrder' /\ NeverOlder' /\ WithinBound'
      BY <1>2 DEF TimerFires, InOrder, NeverOlder, WithinBound, disk
    <2> QED BY <2>1, <2>2
  <1>3. CASE StartReload
    <2>1. TypeOK' /\ ReadsAreFresh'
      BY <1>3 DEF StartReload, TypeOK, ReadsAreFresh, disk
    <2>2. InOrder' /\ NeverOlder' /\ WithinBound'
      BY <1>3 DEF StartReload, InOrder, NeverOlder, WithinBound, disk
    <2> QED BY <2>1, <2>2
  <1> QED BY <1>1, <1>2, <1>3

LEMMA ConnStep ==
  ASSUME IInv, Dial \/ VerifyPeer \/ Hangup PROVE IInv'
  <1> USE DEF IInv
  <1>1. UNCHANGED <<disk, watcher, pc, read, tlsConfig>>
    BY DEF Dial, VerifyPeer, Hangup
  <1>2. ReadsAreFresh' /\ WithinBound'
    BY <1>1 DEF ReadsAreFresh, WithinBound, Pending, Complete, OnDisk, disk, watcher
  <1>3. /\ tlsConfig \in Config /\ tlsConfig.ca \in Int
        /\ conn.config \in Config /\ conn.config.ca \in Int
    BY RotationsAssumption DEF TypeOK, Config, Rotations, NoRotation
  <1>4. CASE Dial
    <2>1. conn' = [pc |-> "dialling", config |-> tlsConfig, ca |-> NoRotation]
      BY <1>4 DEF Dial
    <2>2. TypeOK'
      BY <1>1, <1>3, <2>1 DEF TypeOK, disk, watcher
    <2>3. InOrder' /\ NeverOlder'
      BY <1>1, <1>3, <2>1 DEF InOrder, NeverOlder, disk
    <2> QED BY <1>2, <2>2, <2>3
  <1>5. CASE VerifyPeer
    <2>1. /\ conn' = [conn EXCEPT !.pc = "verified", !.ca = tlsConfig.ca]
          /\ conn.pc = "dialling"
      BY <1>5 DEF VerifyPeer
    <2>2. /\ conn'.config = conn.config /\ conn'.ca = tlsConfig.ca
          /\ tlsConfig.ca \in Rotations \cup {NoRotation}
      BY <2>1 DEF TypeOK, Config
    <2>3. TypeOK'
      BY <1>1, <2>1, <2>2 DEF TypeOK, disk, watcher
    <2>4. InOrder' /\ NeverOlder'
      BY <1>1, <1>3, <2>1, <2>2 DEF InOrder, NeverOlder, disk
    <2> QED BY <1>2, <2>3, <2>4
  <1>6. CASE Hangup
    <2>1. conn' = NoConn
      BY <1>6 DEF Hangup
    <2>2. TypeOK'
      BY <1>1, <2>1 DEF NoConn, NoConfig, Config, TypeOK, disk, watcher
    <2>3. InOrder' /\ NeverOlder'
      BY <1>1, <2>1 DEF InOrder, NeverOlder, NoConn, disk
    <2> QED BY <1>2, <2>2, <2>3
  <1> QED BY <1>4, <1>5, <1>6

LEMMA StepIInv == IInv /\ [Next]_vars => IInv'
  <1> SUFFICES ASSUME IInv, [Next]_vars PROVE IInv' OBVIOUS
  <1>1. CASE UNCHANGED vars
    BY <1>1 DEF vars, disk, watcher, IInv, TypeOK, WithinBound, ReadsAreFresh, Pending,
                Complete, OnDisk, InOrder, NeverOlder
  <1> QED BY <1>1, TruncateFileStep, WriteFileStep, SwapVolumeStep, ReadCertStep, ReadKeyStep,
             ReadCAStep, SwapStep, AddWatchStep, WatchStep, ConnStep
          DEF Next, Reload, Watch

LEMMA InductiveInvariant == Spec => []IInv
  BY InitIInv, StepIInv, PTL DEF Spec

\* cert_watcher.go: a watcher at rest uses what is on disk.  Debouncing, the
\* signal of capacity one and reloads that meet a rotation half done lose no
\* rotation whose events arrive.
THEOREM RotationsNeverLost == Spec => []NoLostRotation
  <1>1. IInv => NoLostRotation
    BY DEF IInv, ReadsAreFresh, NoLostRotation, Quiet, Pending
  <1> QED BY <1>1, InductiveInvariant, PTL

\* GetConfig and GetCAPool are called at two moments of one connection: the CA
\* that verifies the peer is never older than the configuration in use.
THEOREM VerifiedWithNewer == Spec => []NeverOlder
  <1>1. IInv => NeverOlder
    BY DEF IInv
  <1> QED BY <1>1, InductiveInvariant, PTL

\* A step of the watcher replaces the configuration by a newer one or leaves it.
THEOREM ConfigNeverGoesBack == Spec => ConfigAdvances
  <1>1. IInv /\ [Next]_vars =>
          [tlsConfig'.pair >= tlsConfig.pair /\ tlsConfig'.ca >= tlsConfig.ca]_vars
    <2> SUFFICES ASSUME IInv, Next
                 PROVE  tlsConfig'.pair >= tlsConfig.pair /\ tlsConfig'.ca >= tlsConfig.ca
      OBVIOUS
    <2>1. tlsConfig.pair \in Int /\ tlsConfig.ca \in Int
      BY RotationsAssumption DEF IInv, TypeOK, Config, Rotations, NoRotation
    <2>2. CASE Swap
      BY <2>1, <2>2 DEF Swap, IInv, InOrder
    <2>3. CASE UNCHANGED tlsConfig
      BY <2>1, <2>3
    <2>4. Swap \/ UNCHANGED tlsConfig
      BY DEF Next, Reload, Watch, TruncateFile, WriteFile, SwapVolume, ReadCert, ReadKey,
             ReadCA, Read, AddWatch, TakeEvent, TimerFires, StartReload, Dial, VerifyPeer,
             Hangup
    <2> QED BY <2>2, <2>3, <2>4
  <1> QED BY <1>1, InductiveInvariant, PTL DEF Spec, ConfigAdvances
=============================================================================
