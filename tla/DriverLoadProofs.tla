--------------------------- MODULE DriverLoadProofs ---------------------------
(***************************************************************************)
(* Proofs of the invariants of DriverLoad, for any device numbers, any     *)
(* size of the ring and any faults.                                        *)
(***************************************************************************)
EXTENDS DriverLoad, TLAPS

Used == opened = "device" \/ leaked

\* What init has made when it is at a step, and what cleanup has left.
Made ==
  /\ module = "live" => region \in Major /\ device /\ data /\ cdev
  /\ module = "coming" => ~cdev /\ kept = {} /\ ~pending
  /\ module = "going" => kpc \in {"del", "free", "unregister"}
  /\ kpc \in {"register", "device"} => ~device /\ ~data
  /\ kpc \in {"register", "device", "data", "add", "oops"} => module = "coming"
  /\ kpc = "register" => region = "none"
  /\ kpc \in {"device", "data", "add"} => region \in Major
  /\ kpc \in {"data", "add"} => device
  /\ kpc = "add" => data
  /\ kpc = "free" => ~cdev
  /\ kpc = "free" => \A i \in kept : i >= index
  /\ ~data => kept = {}
  /\ kpc = "unregister" => ~cdev /\ ~device /\ ~data /\ kept = {} /\ ~pending
  /\ module = "going" /\ kpc = "del" => region \in Major /\ device /\ data
  /\ Used => module = "live"

\* Where the script is, the node is the module's, but for the time between the
\* end of the module and the rm of the script that unloads it.
NodeShape ==
  /\ at \in {"rmmod", "rm_unload"} \/ module = "going" => op \in Unloads
  /\ at \in {"insmod_done", "mknod", "perm"} => module = "live"
  /\ node \in Major => \/ module = "live" /\ node = region
                       \/ module = "going" \/ at = "rm_unload"
  /\ at = "mknod" => node \notin Major
  /\ at = "perm" /\ op = "load" => node = region
  /\ at = "idle" /\ op = "load" /\ status = "ok" => module = "live" /\ node = region

IInv == TypeOK /\ Made /\ NothingLeft /\ OpenIsBacked /\ NodeShape

-----------------------------------------------------------------------------
\* Nothing has been made before the first script.
LEMMA Initially == Init => IInv
<1> SUFFICES ASSUME Init PROVE IInv
  OBVIOUS
<1>1. TypeOK
  <2>1. kept \subseteq Entries /\ index \in 0 .. Slots
    BY LoadAssumption DEF Init
  <2>2. at = "in_kernel" <=> kpc \notin {"none", "oops"}
    BY DEF Init
  <2>3. kpc # "none" <=> module \in {"coming", "going"}
    BY DEF Init
  <2>4. QED
    BY <2>1, <2>2, <2>3 DEF Init, TypeOK, Scripts, Files
<1>2. Made
  BY DEF Init, Made, Used
<1>3. NothingLeft /\ OpenIsBacked
  BY DEF Init, NothingLeft, OpenIsBacked
<1>4. NodeShape
  BY LoadAssumption DEF Init, NodeShape, Unloads
<1>5. QED
  BY <1>1, <1>2, <1>3, <1>4 DEF IInv

\* The types, and that a script waits while the kernel is in init or cleanup.
LEMMA TypeStep ==
  ASSUME LoadAssumption, IInv, [Next]_vars PROVE TypeOK'
<1> USE DEF IInv, TypeOK, Made, Files, vars, kernel, memory, script, server
<1>1. CASE \E s \in Scripts : Run(s)
  BY <1>1, LoadAssumption DEF Run, Scripts, Unloads
<1>2. CASE RegisterRegion
  BY <1>2, LoadAssumption DEF RegisterRegion
<1>3. CASE RegisterFails
  BY <1>3, LoadAssumption DEF RegisterFails, Goto
<1>4. CASE AllocDevice
  BY <1>4, LoadAssumption DEF AllocDevice, Proceed
<1>5. CASE AllocData
  BY <1>5, LoadAssumption DEF AllocData, Proceed
<1>6. CASE AllocFails
  BY <1>6, LoadAssumption DEF AllocFails, Proceed
<1>7. CASE AddCdev
  BY <1>7, LoadAssumption DEF AddCdev, Goto
<1>8. CASE AddFails
  BY <1>8, LoadAssumption DEF AddFails, Proceed
<1>9. CASE CdevDel
  <2>1. kpc = "del" /\ kpc' = "free" /\ cdev' = FALSE
        /\ UNCHANGED <<module, region, device, data, kept, pending, node, at, op, status,
                       up, leaked, opened>>
        /\ index' \in 0 .. Slots
    BY <1>9, LoadAssumption DEF CdevDel
  <2>2. module \in {"coming", "going"} /\ at = "in_kernel"
    BY <2>1
  <2>3. TypeOK
    OBVIOUS
  <2>4. /\ device' \in BOOLEAN /\ data' \in BOOLEAN /\ cdev' \in BOOLEAN /\ pending' \in BOOLEAN
        /\ up' \in BOOLEAN /\ leaked' \in BOOLEAN
    BY ONLY <2>1, <2>3, Zenon DEF TypeOK
  <2>5. /\ kpc' # "none" <=> module' \in {"coming", "going"}
        /\ at' = "in_kernel" <=> kpc' \notin {"none", "oops"}
    BY ONLY <2>1, <2>2
  <2>6. QED  BY <2>1, <2>3, <2>4, <2>5
<1>10. CASE CdevDelFaults
  BY <1>10, LoadAssumption DEF CdevDelFaults, Goto
<1>11. CASE FreeEntry \/ FreeRest
  <2>1. CASE FreeEntry
    <3>1. kept' \subseteq Entries /\ index' \in 0 .. Slots
      BY <2>1, LoadAssumption DEF FreeEntry
    <3>2. QED
      BY <2>1, <3>1 DEF FreeEntry
  <2>2. CASE FreeRest
    <3>1. device' \in BOOLEAN /\ data' \in BOOLEAN /\ pending' \in BOOLEAN
      BY <2>2 DEF FreeRest
    <3>2. QED
      BY <2>2, <3>1 DEF FreeRest
  <2>3. QED
    BY <1>11, <2>1, <2>2
<1>12. CASE Unregister
  BY <1>12, LoadAssumption DEF Unregister, Goto
<1>13. CASE Insmod
  BY <1>13, LoadAssumption DEF Insmod, Goto
<1>14. CASE InsmodRefused
  BY <1>14, LoadAssumption DEF InsmodRefused, Goto
<1>15. CASE ModprobeFinds
  BY <1>15, LoadAssumption DEF ModprobeFinds, Goto
<1>16. CASE LoadFails
  BY <1>16, LoadAssumption DEF LoadFails, Exit
<1>17. CASE RemoveOld
  BY <1>17, LoadAssumption DEF RemoveOld, Goto
<1>18. CASE MakeNode
  BY <1>18, LoadAssumption DEF MakeNode, Goto
<1>19. CASE MakeNodeFails
  BY <1>19, LoadAssumption DEF MakeNodeFails, Goto, Exit
<1>20. CASE SetModes
  BY <1>20, LoadAssumption DEF SetModes, Exit
<1>21. CASE SetModesFails
  BY <1>21, LoadAssumption DEF SetModesFails, Exit
<1>22. CASE Rmmod
  BY <1>22, LoadAssumption DEF Rmmod, Goto, InUse
<1>23. CASE RmmodFails
  BY <1>23, LoadAssumption DEF RmmodFails, Goto, Exit
<1>24. CASE RemoveNode
  BY <1>24, LoadAssumption DEF RemoveNode, Goto, Exit
<1>25. CASE ServerStart
  BY <1>25, LoadAssumption DEF ServerStart
<1>26. CASE ServerEnds
  <2>1. up' \in BOOLEAN /\ leaked' \in BOOLEAN
    BY <1>26, LoadAssumption DEF ServerEnds
  <2>2. QED
    BY <1>26, LoadAssumption, <2>1 DEF ServerEnds
<1>27. CASE ServerOpen
  BY <1>27, LoadAssumption DEF ServerOpen, Reachable
<1>28. CASE ServerWrites
  <2>1. kept' \subseteq Entries
    BY <1>28 DEF ServerWrites, AddEntry
  <2>2. pending' \in BOOLEAN
    BY <1>28, LoadAssumption DEF ServerWrites
  <2>3. QED
    BY <1>28, LoadAssumption, <2>1, <2>2 DEF ServerWrites
<1>29. CASE ServerCloses
  BY <1>29, LoadAssumption DEF ServerCloses
<1>30. CASE ServerLeaks
  BY <1>30, LoadAssumption DEF ServerLeaks
<1>31. CASE UNCHANGED vars
  BY <1>31, LoadAssumption
<1>32. QED
  BY <1>1, <1>2, <1>3, <1>4, <1>5, <1>6, <1>7, <1>8, <1>9, <1>10, <1>11, <1>12, <1>13, <1>14, <1>15, <1>16, <1>17, <1>18, <1>19, <1>20, <1>21, <1>22, <1>23, <1>24, <1>25, <1>26, <1>27, <1>28, <1>29, <1>30, <1>31
     DEF Next, Script, aesd_init_module, aesd_cleanup_module, Server

\* Init makes and cleanup releases one thing after the other, and the count of the
\* module keeps it while the device is open.
LEMMA KernelStep ==
  ASSUME LoadAssumption, IInv, [Next]_vars PROVE Made' /\ NothingLeft' /\ OpenIsBacked'
<1> USE DEF IInv, Made, Used, NothingLeft, OpenIsBacked, TypeOK, vars, kernel, memory, script, server
<1>1. CASE \E s \in Scripts : Run(s)
  BY <1>1 DEF Run, Scripts, Unloads
<1>2. CASE RegisterRegion
  BY <1>2 DEF RegisterRegion
<1>3. CASE RegisterFails
  BY <1>3 DEF RegisterFails, Goto
<1>4. CASE AllocDevice
  BY <1>4 DEF AllocDevice, Proceed
<1>5. CASE AllocData
  BY <1>5 DEF AllocData, Proceed
<1>6. CASE AllocFails
  BY <1>6 DEF AllocFails, Proceed
<1>7. CASE AddCdev
  BY <1>7 DEF AddCdev, Goto
<1>8. CASE AddFails
  BY <1>8 DEF AddFails, Proceed
<1>9. CASE CdevDel
  <2>1. \A i \in kept : i \in Nat
    BY LoadAssumption DEF Entries
  <2>2. QED
    BY <1>9, <2>1 DEF CdevDel
<1>10. CASE CdevDelFaults
  BY <1>10 DEF CdevDelFaults, Goto
<1>11. CASE FreeEntry \/ FreeRest
  <2>1. CASE FreeEntry
    <3>1. \A i \in kept' : i \in Nat /\ i >= index'
      BY <2>1, LoadAssumption DEF FreeEntry, Entries
    <3>2. QED
      BY <2>1, <3>1 DEF FreeEntry
  <2>2. CASE FreeRest
    <3>1. kept = {}
      BY <2>2, LoadAssumption DEF FreeRest, Entries
    <3>2. QED
      BY <2>2, <3>1 DEF FreeRest
  <2>3. QED
    BY <1>11, <2>1, <2>2
<1>12. CASE Unregister
  BY <1>12 DEF Unregister, Goto
<1>13. CASE Insmod
  BY <1>13 DEF Insmod, Goto
<1>14. CASE InsmodRefused
  BY <1>14 DEF InsmodRefused, Goto
<1>15. CASE ModprobeFinds
  BY <1>15 DEF ModprobeFinds, Goto
<1>16. CASE LoadFails
  BY <1>16 DEF LoadFails, Exit
<1>17. CASE RemoveOld
  BY <1>17 DEF RemoveOld, Goto
<1>18. CASE MakeNode
  BY <1>18 DEF MakeNode, Goto
<1>19. CASE MakeNodeFails
  BY <1>19 DEF MakeNodeFails, Goto, Exit
<1>20. CASE SetModes
  BY <1>20 DEF SetModes, Exit
<1>21. CASE SetModesFails
  BY <1>21 DEF SetModesFails, Exit
<1>22. CASE Rmmod
  BY <1>22 DEF Rmmod, Goto, InUse
<1>23. CASE RmmodFails
  BY <1>23 DEF RmmodFails, Goto, Exit
<1>24. CASE RemoveNode
  BY <1>24 DEF RemoveNode, Goto, Exit
<1>25. CASE ServerStart
  BY <1>25 DEF ServerStart
<1>26. CASE ServerEnds
  BY <1>26 DEF ServerEnds
<1>27. CASE ServerOpen
  BY <1>27 DEF ServerOpen, Reachable
<1>28. CASE ServerWrites
  <2>1. module = "live" /\ data /\ cdev
    BY <1>28 DEF ServerWrites
  <2>2. QED
    BY <1>28, <2>1 DEF ServerWrites, AddEntry
<1>29. CASE ServerCloses
  BY <1>29 DEF ServerCloses
<1>30. CASE ServerLeaks
  BY <1>30 DEF ServerLeaks
<1>31. CASE UNCHANGED vars
  BY <1>31
<1>32. QED
  BY <1>1, <1>2, <1>3, <1>4, <1>5, <1>6, <1>7, <1>8, <1>9, <1>10, <1>11, <1>12, <1>13, <1>14, <1>15, <1>16, <1>17, <1>18, <1>19, <1>20, <1>21, <1>22, <1>23, <1>24, <1>25, <1>26, <1>27, <1>28, <1>29, <1>30, <1>31
     DEF Next, Script, aesd_init_module, aesd_cleanup_module, Server

\* The node is removed after the module has gone and made after it has come.
LEMMA NodeStep ==
  ASSUME LoadAssumption, IInv, [Next]_vars PROVE NodeShape'
<1> USE DEF IInv, NodeShape, Made, TypeOK, Files, Unloads, vars, kernel, memory, script, server
<1>1. CASE \E s \in Scripts : Run(s)
  BY <1>1, LoadAssumption DEF Run, Scripts
<1>2. CASE RegisterRegion
  BY <1>2, LoadAssumption DEF RegisterRegion
<1>3. CASE RegisterFails
  BY <1>3, LoadAssumption DEF RegisterFails, Goto
<1>4. CASE AllocDevice
  BY <1>4, LoadAssumption DEF AllocDevice, Proceed
<1>5. CASE AllocData
  BY <1>5, LoadAssumption DEF AllocData, Proceed
<1>6. CASE AllocFails
  BY <1>6, LoadAssumption DEF AllocFails, Proceed
<1>7. CASE AddCdev
  BY <1>7, LoadAssumption DEF AddCdev, Goto
<1>8. CASE AddFails
  BY <1>8, LoadAssumption DEF AddFails, Proceed
<1>9. CASE CdevDel
  BY <1>9, LoadAssumption DEF CdevDel
<1>10. CASE CdevDelFaults
  BY <1>10, LoadAssumption DEF CdevDelFaults, Goto
<1>11. CASE FreeEntry \/ FreeRest
  BY <1>11, LoadAssumption DEF FreeEntry, FreeRest
<1>12. CASE Unregister
  BY <1>12, LoadAssumption DEF Unregister, Goto
<1>13. CASE Insmod
  BY <1>13, LoadAssumption DEF Insmod, Goto
<1>14. CASE InsmodRefused
  BY <1>14, LoadAssumption DEF InsmodRefused, Goto
<1>15. CASE ModprobeFinds
  BY <1>15, LoadAssumption DEF ModprobeFinds, Goto
<1>16. CASE LoadFails
  BY <1>16, LoadAssumption DEF LoadFails, Exit
<1>17. CASE RemoveOld
  BY <1>17, LoadAssumption DEF RemoveOld, Goto
<1>18. CASE MakeNode
  BY <1>18, LoadAssumption DEF MakeNode, Goto
<1>19. CASE MakeNodeFails
  BY <1>19, LoadAssumption DEF MakeNodeFails, Goto, Exit
<1>20. CASE SetModes
  BY <1>20, LoadAssumption DEF SetModes, Exit
<1>21. CASE SetModesFails
  BY <1>21, LoadAssumption DEF SetModesFails, Exit
<1>22. CASE Rmmod
  BY <1>22, LoadAssumption DEF Rmmod, Goto, InUse
<1>23. CASE RmmodFails
  BY <1>23, LoadAssumption DEF RmmodFails, Goto, Exit
<1>24. CASE RemoveNode
  BY <1>24, LoadAssumption DEF RemoveNode, Goto, Exit
<1>25. CASE ServerStart
  BY <1>25, LoadAssumption DEF ServerStart
<1>26. CASE ServerEnds
  BY <1>26, LoadAssumption DEF ServerEnds
<1>27. CASE ServerOpen
  BY <1>27, LoadAssumption DEF ServerOpen, Reachable
<1>28. CASE ServerWrites
  BY <1>28, LoadAssumption DEF ServerWrites, AddEntry
<1>29. CASE ServerCloses
  BY <1>29, LoadAssumption DEF ServerCloses
<1>30. CASE ServerLeaks
  BY <1>30, LoadAssumption DEF ServerLeaks
<1>31. CASE UNCHANGED vars
  BY <1>31, LoadAssumption
<1>32. QED
  BY <1>1, <1>2, <1>3, <1>4, <1>5, <1>6, <1>7, <1>8, <1>9, <1>10, <1>11, <1>12, <1>13, <1>14, <1>15, <1>16, <1>17, <1>18, <1>19, <1>20, <1>21, <1>22, <1>23, <1>24, <1>25, <1>26, <1>27, <1>28, <1>29, <1>30, <1>31
     DEF Next, Script, aesd_init_module, aesd_cleanup_module, Server

LEMMA Invariance == Spec => []IInv
<1>1. Init => IInv
  BY Initially
<1>2. IInv /\ [Next]_vars => IInv'
  BY LoadAssumption, TypeStep, KernelStep, NodeStep DEF IInv
<1>3. QED
  BY <1>1, <1>2, PTL DEF Spec

\* The types of the state, and that a script is in the kernel exactly while init
\* or cleanup runs.
THEOREM LoadTypeCorrect == Spec => []TypeOK
<1>1. IInv => TypeOK
  BY DEF IInv
<1>2. QED
  BY <1>1, Invariance, PTL

\* A module that is not there has left nothing behind, whichever step of its init
\* failed and however many entries of the ring own a block: the loop of the cleanup
\* has come to each of them (main.c:386-430, 432-480).
THEOREM NothingIsLeft == Spec => []NothingLeft
<1>1. IInv => NothingLeft
  BY DEF IInv
<1>2. QED
  BY <1>1, Invariance, PTL

\* Nothing of the device goes while a process has it open, nor is it reached
\* before it is complete (main.c:40-47, 415-419, 440).
THEOREM WhatIsOpenIsBacked == Spec => []OpenIsBacked
<1>1. IInv => OpenIsBacked
  BY DEF IInv
<1>2. QED
  BY <1>1, Invariance, PTL

\* Between two scripts a device node is the live module's, whatever the server
\* has created in between (aesdchar_load:6-25, aesdchar.init:107-112).
THEOREM NodeIsTheModules == Spec => []NodeAtRest
<1>1. IInv => NodeAtRest
  <2> SUFFICES ASSUME IInv, at = "idle" PROVE NodeAtRest
    BY DEF NodeAtRest
  <2>1. module # "going"
    BY DEF IInv, TypeOK, Made
  <2>2. QED
    BY <2>1 DEF IInv, NodeShape, NodeAtRest
<1>2. QED
  BY <1>1, Invariance, PTL
=============================================================================
