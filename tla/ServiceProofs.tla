---------------------------- MODULE ServiceProofs ----------------------------
(***************************************************************************)
(* The records of replaced values, for any devices, policies, limits and   *)
(* targets, and under any number of kills and refusals.                    *)
(*                                                                         *)
(* Three invariants, each with what it needs of the places between the     *)
(* writes: the ASPM policy (with the types), the firmware's VRM limit, and *)
(* runtime PM device by device.                                            *)
(***************************************************************************)
EXTENDS Service, TLAPS

\* Between the ASPM record and the policy, and where a device's loop is.
Places ==
  /\ at = "set_aspm" => aspmFile = BootAspm /\ target.pcie_aspm # "default"
  /\ at = "forget_aspm" => aspm = BootAspm
  /\ at = "device" /\ target.runtime_pm = "default" => \A d \in todo : recorded[d] # None

AspmInv == TypeOK /\ AspmBootKept /\ Places

\* Before a daemon reads the limit with no record and no state file, nobody wrote it.
StockInv ==
  /\ StockIsFirmware
  /\ at \in {"none", "start"} /\ ~blurred /\ stockFile = None /\ ~currentFile => vrm = FirmwareVrm

-----------------------------------------------------------------------------
(* Runtime PM *)

Kept == Devices \ orphans

Clean == \A d \in Kept : control[d] = BootControl[d]

\* A changed device has its boot value on record: on disk, or in the loop's hands.
OnRecord ==
  \A d \in Kept :
    /\ pmFile[d] \in {None, BootControl[d]}
    /\ control[d] # BootControl[d] =>
         \/ pmFile[d] = BootControl[d]
         \/ at = "device" /\ target.runtime_pm = "auto" /\ recorded[d] = BootControl[d]

\* The loop's record extends the file's, and what it has still to do is known.
InLoop ==
  at = "device" =>
    /\ \A d \in Kept : /\ recorded[d] \in {None, BootControl[d]}
                       /\ pmFile[d] # None => recorded[d] = pmFile[d]
    /\ target.runtime_pm = "auto" => \A d \in todo : control[d] # "auto"
    /\ target.runtime_pm = "default" => \A d \in Kept : control[d] # BootControl[d] => d \in todo

\* Devices are as they were whenever the profile in force, or the one before, wants it.
PutBack ==
  /\ at \in {"aspm", "set_aspm", "forget_aspm", "report", "loop"} =>
       (target.runtime_pm = "default" => Clean)
  /\ at \in {"cpu", "smu", "devices"} =>
       (applied # None => (applied.runtime_pm = "default" => Clean))

DevicesInv == OnRecord /\ InLoop /\ PutBack

-----------------------------------------------------------------------------
(* Each step keeps them *)

\* The types, and the record of the ASPM policy.
LEMMA AspmStep ==
  ASSUME AspmInv, Next
  PROVE  AspmInv'
<1> USE ServiceAssumption DEF AspmInv, TypeOK, MachineOK, ProcessOK, OthersOK, Values, AspmBootKept,
           Places, machine, files, histories, NoneRecorded
<1>1. ASSUME StartUnit  PROVE AspmInv'
  BY <1>1 DEF StartUnit, Launch
<1>2. ASSUME Restart  PROVE AspmInv'
  BY <1>2 DEF Restart, Launch
<1>3. ASSUME ReadStock  PROVE AspmInv'
  BY <1>3 DEF ReadStock, Fault
<1>4. ASSUME KeepStock  PROVE AspmInv'
  BY <1>4 DEF KeepStock, Fault
<1>5. ASSUME NEW t \in Targets, FirstStep(t)  PROVE AspmInv'
  BY <1>5 DEF FirstStep, Enter
<1>6. ASSUME NEW changed \in BOOLEAN, WriteCpu(changed)  PROVE AspmInv'
  BY <1>6 DEF WriteCpu
<1>7. ASSUME WriteSmu  PROVE AspmInv'
  BY <1>7 DEF WriteSmu, Due
<1>8. ASSUME ReadRecord  PROVE AspmInv'
  BY <1>8 DEF ReadRecord, Due
<1>9. ASSUME NEW d \in Devices, WriteDevice(d)  PROVE AspmInv'
  BY <1>9 DEF WriteDevice
<1>10. ASSUME RecordDevices  PROVE AspmInv'
  BY <1>10 DEF RecordDevices, EndDevices
<1>11. ASSUME ForgetDevices  PROVE AspmInv'
  BY <1>11 DEF ForgetDevices, EndDevices
<1>12. ASSUME AspmStays  PROVE AspmInv'
  BY <1>12 DEF AspmStays, AspmGoes, Due
<1>13. ASSUME RecordAspm  PROVE AspmInv'
  BY <1>13 DEF RecordAspm, AspmGoes, Due
<1>14. ASSUME SetAspm  PROVE AspmInv'
  BY <1>14 DEF SetAspm, AspmGoes, Fault
<1>15. ASSUME RestoreAspm  PROVE AspmInv'
  BY <1>15 DEF RestoreAspm, AspmGoes, Due, Fault
<1>16. ASSUME ForgetAspm  PROVE AspmInv'
  BY <1>16 DEF ForgetAspm, AspmGoes
<1>17. ASSUME NEW drift \in BOOLEAN, Report(drift)  PROVE AspmInv'
  BY <1>17 DEF Report, NoProcess
<1>18. ASSUME NEW d \in Devices, DeviceRefuses(d)  PROVE AspmInv'
  BY <1>18 DEF DeviceRefuses, Fault
<1>19. ASSUME RecordRefused  PROVE AspmInv'
  BY <1>19 DEF RecordRefused, EndDevices, Fault, Unrecorded
<1>20. ASSUME AspmRecordRefused  PROVE AspmInv'
  BY <1>20 DEF AspmRecordRefused, AspmGoes, Due, Fault
<1>21. ASSUME NEW t \in Targets, Retarget(t)  PROVE AspmInv'
  BY <1>21 DEF Retarget, Enter
<1>22. ASSUME NEW t \in Targets, Terminate(t)  PROVE AspmInv'
  BY <1>22 DEF Terminate, Enter, Fault
<1>23. ASSUME NEW t \in Targets, Reassert(t)  PROVE AspmInv'
  BY <1>23 DEF Reassert, Enter
<1>24. ASSUME NEW after \in {"waiting", "failed"}, Kill(after)  PROVE AspmInv'
  <2>1. MachineOK' /\ AspmBootKept' /\ Places'
    BY <1>24 DEF Kill, NoProcess, Fault, Unrecorded
  <2>2. ProcessOK'
    BY <1>24 DEF Kill, NoProcess, Fault, Unrecorded
  <2>3. blurred' \in BOOLEAN
    BY <1>24, Zenon DEF Kill
  <2>4. OthersOK'
    BY <1>24, <2>3 DEF Kill, NoProcess, Fault, Unrecorded
  <2> HIDE DEF MachineOK, ProcessOK, OthersOK, AspmBootKept, Places
  <2>5. QED
    BY <2>1, <2>2, <2>4
<1>25. ASSUME GuardWakes  PROVE AspmInv'
  BY <1>25 DEF GuardWakes, Launch
<1>26. ASSUME GuardStarted  PROVE AspmInv'
  BY <1>26 DEF GuardStarted, GuardMoves, Fault
<1>27. ASSUME GuardChecks  PROVE AspmInv'
  BY <1>27 DEF GuardChecks, GuardMoves
<1>28. ASSUME NEW t \in Targets, GuardServed(t)  PROVE AspmInv'
  BY <1>28 DEF GuardServed, Enter, GuardMoves
<1>29. ASSUME GuardUnserved  PROVE AspmInv'
  BY <1>29 DEF GuardUnserved, GuardMoves, Fault
<1>30. ASSUME GuardRechecks  PROVE AspmInv'
  BY <1>30 DEF GuardRechecks, GuardMoves
<1>31. ASSUME Fallback  PROVE AspmInv'
  BY <1>31 DEF Fallback, GuardMoves
<1> QED
  BY <1>1, <1>2, <1>3, <1>4, <1>5, <1>6, <1>7, <1>8, <1>9, <1>10, <1>11, <1>12, <1>13, <1>14, <1>15, <1>16,
     <1>17, <1>18, <1>19, <1>20, <1>21, <1>22, <1>23, <1>24, <1>25, <1>26, <1>27, <1>28, <1>29, <1>30, <1>31
     DEF Next, Starting, Writing, Refusing, Reasserting, Guarding

\* The firmware's VRM limit.
LEMMA StockStep ==
  ASSUME TypeOK, StockInv, Next
  PROVE  StockInv'
<1> USE ServiceAssumption DEF TypeOK, MachineOK, ProcessOK, OthersOK, StockInv, StockIsFirmware, machine, files, histories
<1>1. ASSUME StartUnit  PROVE StockInv'
  BY <1>1 DEF StartUnit, Launch
<1>2. ASSUME Restart  PROVE StockInv'
  BY <1>2 DEF Restart, Launch
<1>3. ASSUME ReadStock  PROVE StockInv'
  BY <1>3 DEF ReadStock, Fault
<1>4. ASSUME KeepStock  PROVE StockInv'
  BY <1>4 DEF KeepStock, Fault
<1>5. ASSUME NEW t \in Targets, FirstStep(t)  PROVE StockInv'
  BY <1>5 DEF FirstStep, Enter
<1>6. ASSUME NEW changed \in BOOLEAN, WriteCpu(changed)  PROVE StockInv'
  BY <1>6 DEF WriteCpu
<1>7. ASSUME WriteSmu  PROVE StockInv'
  BY <1>7 DEF WriteSmu, Due
<1>8. ASSUME ReadRecord  PROVE StockInv'
  BY <1>8 DEF ReadRecord, Due
<1>9. ASSUME NEW d \in Devices, WriteDevice(d)  PROVE StockInv'
  BY <1>9 DEF WriteDevice
<1>10. ASSUME RecordDevices  PROVE StockInv'
  BY <1>10 DEF RecordDevices, EndDevices
<1>11. ASSUME ForgetDevices  PROVE StockInv'
  BY <1>11 DEF ForgetDevices, EndDevices
<1>12. ASSUME AspmStays  PROVE StockInv'
  BY <1>12 DEF AspmStays, AspmGoes, Due
<1>13. ASSUME RecordAspm  PROVE StockInv'
  BY <1>13 DEF RecordAspm, AspmGoes, Due
<1>14. ASSUME SetAspm  PROVE StockInv'
  BY <1>14 DEF SetAspm, AspmGoes, Fault
<1>15. ASSUME RestoreAspm  PROVE StockInv'
  BY <1>15 DEF RestoreAspm, AspmGoes, Due, Fault
<1>16. ASSUME ForgetAspm  PROVE StockInv'
  BY <1>16 DEF ForgetAspm, AspmGoes
<1>17. ASSUME NEW drift \in BOOLEAN, Report(drift)  PROVE StockInv'
  BY <1>17 DEF Report, NoProcess
<1>18. ASSUME NEW d \in Devices, DeviceRefuses(d)  PROVE StockInv'
  BY <1>18 DEF DeviceRefuses, Fault
<1>19. ASSUME RecordRefused  PROVE StockInv'
  BY <1>19 DEF RecordRefused, EndDevices, Fault, Unrecorded
<1>20. ASSUME AspmRecordRefused  PROVE StockInv'
  BY <1>20 DEF AspmRecordRefused, AspmGoes, Due, Fault
<1>21. ASSUME NEW t \in Targets, Retarget(t)  PROVE StockInv'
  BY <1>21 DEF Retarget, Enter
<1>22. ASSUME NEW t \in Targets, Terminate(t)  PROVE StockInv'
  BY <1>22 DEF Terminate, Enter, Fault
<1>23. ASSUME NEW t \in Targets, Reassert(t)  PROVE StockInv'
  BY <1>23 DEF Reassert, Enter
<1>24. ASSUME NEW after \in {"waiting", "failed"}, Kill(after)  PROVE StockInv'
  BY <1>24 DEF Kill, NoProcess, Fault, Unrecorded
<1>25. ASSUME GuardWakes  PROVE StockInv'
  BY <1>25 DEF GuardWakes, Launch
<1>26. ASSUME GuardStarted  PROVE StockInv'
  BY <1>26 DEF GuardStarted, GuardMoves, Fault
<1>27. ASSUME GuardChecks  PROVE StockInv'
  BY <1>27 DEF GuardChecks, GuardMoves
<1>28. ASSUME NEW t \in Targets, GuardServed(t)  PROVE StockInv'
  BY <1>28 DEF GuardServed, Enter, GuardMoves
<1>29. ASSUME GuardUnserved  PROVE StockInv'
  BY <1>29 DEF GuardUnserved, GuardMoves, Fault
<1>30. ASSUME GuardRechecks  PROVE StockInv'
  BY <1>30 DEF GuardRechecks, GuardMoves
<1>31. ASSUME Fallback  PROVE StockInv'
  BY <1>31 DEF Fallback, GuardMoves
<1> QED
  BY <1>1, <1>2, <1>3, <1>4, <1>5, <1>6, <1>7, <1>8, <1>9, <1>10, <1>11, <1>12, <1>13, <1>14, <1>15, <1>16,
     <1>17, <1>18, <1>19, <1>20, <1>21, <1>22, <1>23, <1>24, <1>25, <1>26, <1>27, <1>28, <1>29, <1>30, <1>31
     DEF Next, Starting, Writing, Refusing, Reasserting, Guarding

\* Runtime PM, device by device.
LEMMA DevicesStep ==
  ASSUME AspmInv, DevicesInv, Next
  PROVE  DevicesInv'
<1> USE ServiceAssumption DEF AspmInv, TypeOK, MachineOK, ProcessOK, OthersOK, Values, Places, DevicesInv, Kept, Clean, OnRecord, InLoop, PutBack,
           machine, files, histories, NoneRecorded
<1>1. ASSUME StartUnit  PROVE DevicesInv'
  BY <1>1 DEF StartUnit, Launch
<1>2. ASSUME Restart  PROVE DevicesInv'
  BY <1>2 DEF Restart, Launch
<1>3. ASSUME ReadStock  PROVE DevicesInv'
  BY <1>3 DEF ReadStock, Fault
<1>4. ASSUME KeepStock  PROVE DevicesInv'
  BY <1>4 DEF KeepStock, Fault
<1>5. ASSUME NEW t \in Targets, FirstStep(t)  PROVE DevicesInv'
  BY <1>5 DEF FirstStep, Enter
<1>6. ASSUME NEW changed \in BOOLEAN, WriteCpu(changed)  PROVE DevicesInv'
  BY <1>6 DEF WriteCpu
<1>7. ASSUME WriteSmu  PROVE DevicesInv'
  BY <1>7 DEF WriteSmu, Due
<1>8. ASSUME ReadRecord  PROVE DevicesInv'
  BY <1>8 DEF ReadRecord, Due
<1>9. ASSUME NEW d \in Devices, WriteDevice(d)  PROVE DevicesInv'
  BY <1>9 DEF WriteDevice
<1>10. ASSUME RecordDevices  PROVE DevicesInv'
  BY <1>10 DEF RecordDevices, EndDevices
<1>11. ASSUME ForgetDevices  PROVE DevicesInv'
  BY <1>11 DEF ForgetDevices, EndDevices
<1>12. ASSUME AspmStays  PROVE DevicesInv'
  BY <1>12 DEF AspmStays, AspmGoes, Due
<1>13. ASSUME RecordAspm  PROVE DevicesInv'
  BY <1>13 DEF RecordAspm, AspmGoes, Due
<1>14. ASSUME SetAspm  PROVE DevicesInv'
  BY <1>14 DEF SetAspm, AspmGoes, Fault
<1>15. ASSUME RestoreAspm  PROVE DevicesInv'
  BY <1>15 DEF RestoreAspm, AspmGoes, Due, Fault
<1>16. ASSUME ForgetAspm  PROVE DevicesInv'
  BY <1>16 DEF ForgetAspm, AspmGoes
<1>17. ASSUME NEW drift \in BOOLEAN, Report(drift)  PROVE DevicesInv'
  BY <1>17 DEF Report, NoProcess
<1>18. ASSUME NEW d \in Devices, DeviceRefuses(d)  PROVE DevicesInv'
  BY <1>18 DEF DeviceRefuses, Fault
<1>19. ASSUME RecordRefused  PROVE DevicesInv'
  BY <1>19 DEF RecordRefused, EndDevices, Fault, Unrecorded
<1>20. ASSUME AspmRecordRefused  PROVE DevicesInv'
  BY <1>20 DEF AspmRecordRefused, AspmGoes, Due, Fault
<1>21. ASSUME NEW t \in Targets, Retarget(t)  PROVE DevicesInv'
  BY <1>21 DEF Retarget, Enter
<1>22. ASSUME NEW t \in Targets, Terminate(t)  PROVE DevicesInv'
  BY <1>22 DEF Terminate, Enter, Fault
<1>23. ASSUME NEW t \in Targets, Reassert(t)  PROVE DevicesInv'
  BY <1>23 DEF Reassert, Enter
<1>24. ASSUME NEW after \in {"waiting", "failed"}, Kill(after)  PROVE DevicesInv'
  BY <1>24 DEF Kill, NoProcess, Fault, Unrecorded
<1>25. ASSUME GuardWakes  PROVE DevicesInv'
  BY <1>25 DEF GuardWakes, Launch
<1>26. ASSUME GuardStarted  PROVE DevicesInv'
  BY <1>26 DEF GuardStarted, GuardMoves, Fault
<1>27. ASSUME GuardChecks  PROVE DevicesInv'
  BY <1>27 DEF GuardChecks, GuardMoves
<1>28. ASSUME NEW t \in Targets, GuardServed(t)  PROVE DevicesInv'
  BY <1>28 DEF GuardServed, Enter, GuardMoves
<1>29. ASSUME GuardUnserved  PROVE DevicesInv'
  BY <1>29 DEF GuardUnserved, GuardMoves, Fault
<1>30. ASSUME GuardRechecks  PROVE DevicesInv'
  BY <1>30 DEF GuardRechecks, GuardMoves
<1>31. ASSUME Fallback  PROVE DevicesInv'
  BY <1>31 DEF Fallback, GuardMoves
<1> QED
  BY <1>1, <1>2, <1>3, <1>4, <1>5, <1>6, <1>7, <1>8, <1>9, <1>10, <1>11, <1>12, <1>13, <1>14, <1>15, <1>16,
     <1>17, <1>18, <1>19, <1>20, <1>21, <1>22, <1>23, <1>24, <1>25, <1>26, <1>27, <1>28, <1>29, <1>30, <1>31
     DEF Next, Starting, Writing, Refusing, Reasserting, Guarding

-----------------------------------------------------------------------------
(* The theorems *)

LEMMA Starts == Init => AspmInv /\ StockInv /\ DevicesInv
<1> SUFFICES ASSUME Init PROVE AspmInv /\ StockInv /\ DevicesInv
  OBVIOUS
<1> USE ServiceAssumption DEF Init, NoneRecorded
<1>1. MachineOK /\ AspmBootKept /\ Places
  BY DEF MachineOK, Values, AspmBootKept, Places
<1>2. ProcessOK
  BY DEF ProcessOK, Values
<1>3. OthersOK
  <2>1. faults \in 0..MaxFaults
    BY SMT
  <2>2. QED
    BY <2>1, Zenon DEF OthersOK
<1>4. StockInv
  BY DEF StockInv, StockIsFirmware
<1>5. DevicesInv
  BY DEF DevicesInv, Kept, Clean, OnRecord, InLoop, PutBack
<1>6. QED
  BY <1>1, <1>2, <1>3, <1>4, <1>5 DEF AspmInv, TypeOK

LEMMA Stutters ==
  ASSUME AspmInv, StockInv, DevicesInv, UNCHANGED vars
  PROVE  AspmInv' /\ StockInv' /\ DevicesInv'
<1> USE DEF vars, machine, files, process, histories
<1>1. AspmInv'
  BY DEF AspmInv, TypeOK, MachineOK, ProcessOK, OthersOK, Values, AspmBootKept, Places
<1>2. StockInv'
  BY DEF StockInv, StockIsFirmware
<1>3. DevicesInv'
  BY DEF DevicesInv, Kept, Clean, OnRecord, InLoop, PutBack
<1>4. QED
  BY <1>1, <1>2, <1>3

LEMMA Invariants == Spec => [](AspmInv /\ StockInv /\ DevicesInv)
<1>1. ASSUME AspmInv, StockInv, DevicesInv, [Next]_vars
      PROVE  AspmInv' /\ StockInv' /\ DevicesInv'
  <2>1. CASE Next
    <3>1. TypeOK
      BY <1>1 DEF AspmInv
    <3>2. QED
      BY <1>1, <2>1, <3>1, AspmStep, StockStep, DevicesStep
  <2>2. CASE UNCHANGED vars
    BY <1>1, <2>2, Stutters
  <2>3. QED
    BY <1>1, <2>1, <2>2
<1>2. QED
  BY <1>1, Starts, PTL DEF Spec

\* Whatever devices, policies and targets there are, the process keeps its types.
\* (stock_vrmmax, apply_pci_runtime_pm, apply_pcie_aspm, the guard)
THEOREM Types == Spec => []TypeOK
<1>1. AspmInv => TypeOK
  BY DEF AspmInv
<1>2. QED
  BY <1>1, Invariants, PTL

\* However often the daemon is killed or refused, a changed ASPM policy has the boot
\* one on record. (apply_pcie_aspm)
THEOREM AspmRecord == Spec => []AspmBootKept
<1>1. AspmInv => AspmBootKept
  BY DEF AspmInv
<1>2. QED
  BY <1>1, Invariants, PTL

\* However often the daemon is killed, what passes for the firmware's VRM limit is
\* the firmware's, but after a kill in the one window there is. (stock_vrmmax)
THEOREM Stock == Spec => []StockIsFirmware
<1>1. StockInv => StockIsFirmware
  BY DEF StockInv
<1>2. QED
  BY <1>1, Invariants, PTL

\* For any devices and any number of kills and refusals, a profile that leaves runtime
\* PM alone finds every device as it was at boot, but those whose value was lost in
\* one of the windows named. (apply_pci_runtime_pm)
THEOREM DevicesReturn == Spec => []DevicesComeBack
<1>1. DevicesInv => DevicesComeBack
  BY DEF DevicesInv, PutBack, Clean, Kept, DevicesComeBack
<1>2. QED
  BY <1>1, Invariants, PTL
=============================================================================
