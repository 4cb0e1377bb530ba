-------------------------- MODULE ResolvConf_proofs --------------------------
(* Proofs about ResolvConf: the invariant is IInv of that module. *)
EXTENDS ResolvConf, TLAPS

\* The first start finds a resolver of the client, or none, and no backup.
LEMMA InitInv == Init => IInv
BY ResolvConfAssumption
   DEF Init, IInv, TypeOK, Files, Contents, PinnedHasBackup, RestoreUnpins,
       OnlyThePinIsImmutable, BackupIsNoPin, CapturedFirst, WrittenFirst,
       NoneYet, PinBeforeFlag

\* Every step of lock_resolv: what is captured is no pin, the pin is written
\* over a file whose backup is complete, and the flag follows the pin.
LEMMA LockInv == IInv /\ (Lock \/ LockStep) => IInv'
<1> SUFFICES ASSUME IInv, Lock \/ LockStep PROVE IInv'
  OBVIOUS
<1> USE ResolvConfAssumption
    DEF IInv, TypeOK, Files, Contents, Locking, Restoring, PinnedHasBackup, RestoreUnpins,
        OnlyThePinIsImmutable, BackupIsNoPin, CapturedFirst, WrittenFirst,
        NoneYet, PinBeforeFlag, Ends, Goes
<1>1. CASE Lock
  BY <1>1 DEF Lock
<1>2. CASE Capture
  BY <1>2 DEF Capture
<1>3. CASE CaptureWrites
  BY <1>3 DEF CaptureWrites
<1>4. CASE ClearOld
  <2>1. CASE Goes("pin") /\ immut' = FALSE
    BY <1>4, <2>1 DEF ClearOld
  <2>2. CASE Goes("pin") /\ UNCHANGED immut
    BY <1>4, <2>2 DEF ClearOld
  <2>3. CASE Ends("raised") /\ UNCHANGED immut
    BY <1>4, <2>3 DEF ClearOld
  <2> QED BY <1>4, <2>1, <2>2, <2>3 DEF ClearOld, Clear
<1>5. CASE WritePin
  BY <1>5 DEF WritePin, Writable, WriteFails
<1>6. CASE SetImmutable
  BY <1>6 DEF SetImmutable
<1> QED BY <1>1, <1>2, <1>3, <1>4, <1>5, <1>6 DEF LockStep

\* Every step of restore_resolv: the backup goes only after it was put back.
LEMMA RestoreInv == IInv /\ (Restore \/ RestoreStep) => IInv'
<1> SUFFICES ASSUME IInv, Restore \/ RestoreStep PROVE IInv'
  OBVIOUS
<1> USE ResolvConfAssumption
    DEF IInv, TypeOK, Files, Contents, Locking, Restoring, PinnedHasBackup, RestoreUnpins,
        OnlyThePinIsImmutable, BackupIsNoPin, CapturedFirst, WrittenFirst,
        NoneYet, PinBeforeFlag, Ends, Goes
<1>1. CASE Restore
  BY <1>1 DEF Restore
<1>2. CASE ClearFlag
  <2>1. CASE Goes("look") /\ immut' = FALSE
    BY <1>2, <2>1 DEF ClearFlag
  <2>2. CASE Goes("look") /\ UNCHANGED immut
    BY <1>2, <2>2 DEF ClearFlag
  <2>3. CASE Ends("raised") /\ UNCHANGED immut
    BY <1>2, <2>3 DEF ClearFlag
  <2> QED BY <1>2, <2>1, <2>2, <2>3 DEF ClearFlag, Clear
<1>3. CASE PutBack
  BY <1>3 DEF PutBack, Writable, WriteFails
<1>4. CASE NoBackup
  BY <1>4 DEF NoBackup
<1>5. CASE Unlink
  BY <1>5 DEF Unlink
<1> QED BY <1>1, <1>2, <1>3, <1>4, <1>5 DEF RestoreStep

\* The DHCP client brings no pin, and a death changes no file.
LEMMA OutsideInv == IInv /\ (Dhcp \/ Crash) => IInv'
<1> SUFFICES ASSUME IInv, Dhcp \/ Crash PROVE IInv'
  OBVIOUS
<1> USE ResolvConfAssumption
    DEF IInv, TypeOK, Files, Contents, Locking, Restoring, PinnedHasBackup, RestoreUnpins,
        OnlyThePinIsImmutable, BackupIsNoPin, CapturedFirst, WrittenFirst,
        NoneYet, PinBeforeFlag, Ends, Goes
<1>1. CASE Dhcp
  BY <1>1 DEF Dhcp
<1>2. CASE Crash
  BY <1>2 DEF Crash
<1> QED BY <1>1, <1>2

\* The invariant holds through every failure of lock_resolv and
\* restore_resolv, every lease and every death.
THEOREM Invariant == Spec => []IInv
<1>1. IInv /\ [Next]_vars => IInv'
  <2>1. IInv /\ UNCHANGED vars => IInv'
    BY DEF vars, IInv, TypeOK, PinnedHasBackup, RestoreUnpins,
           OnlyThePinIsImmutable, BackupIsNoPin, CapturedFirst, WrittenFirst,
           NoneYet, PinBeforeFlag
  <2> QED BY <2>1, LockInv, RestoreInv, OutsideInv DEF Next
<1> QED BY InitInv, <1>1, PTL DEF Spec

\* Type correctness, for every set of leases and faults.
THEOREM TypeCorrect == Spec => []TypeOK
<1>1. IInv => TypeOK
  BY DEF IInv
<1> QED BY <1>1, Invariant, PTL

\* A pinned resolver has a backup that is not the pin, unless there was none to
\* back up when it was pinned.
THEOREM BackupKept == Spec => []PinnedHasBackup
<1>1. IInv => PinnedHasBackup
  BY DEF IInv
<1> QED BY <1>1, Invariant, PTL

\* A restore that reports success left no pin.
THEOREM RestoreTruthful == Spec => []RestoreUnpins
<1>1. IInv => RestoreUnpins
  BY DEF IInv
<1> QED BY <1>1, Invariant, PTL

\* Only the pin is ever made immutable, unless a lease arrives in the middle.
THEOREM FlagOnPin == Spec => []OnlyThePinIsImmutable
<1>1. IInv => OnlyThePinIsImmutable
  BY DEF IInv
<1> QED BY <1>1, Invariant, PTL

=============================================================================
