------------------------------ MODULE DriverLoad ------------------------------
(***************************************************************************)
(* Loading and unloading the driver: aesd_init_module and                  *)
(* aesd_cleanup_module, the scripts aesdchar_load, aesdchar_unload and     *)
(* aesdchar.init that make and remove /dev/aesdchar around them, and the   *)
(* server, which opens that path meanwhile and creates it when it is not   *)
(* there.  What the file operations do with the device is in AesdChar.     *)
(***************************************************************************)
EXTENDS Naturals

CONSTANTS
  Major,        \* the device numbers the kernel has to give
  Slots,        \* AESDCHAR_MAX_WRITE_OPERATIONS_SUPPORTED, the entries of the ring
  Faults        \* what may go wrong: a subset of FaultNames

FaultNames == {"region", "nomem", "add", "file", "mknod", "perm", "answer"}

ASSUME LoadAssumption ==
  /\ Major \cap {"none", "plain"} = {}
  /\ Slots \in Nat
  /\ Faults \subseteq FaultNames

VARIABLES
  module,       \* the state of the module in the kernel
  kpc,          \* where its init or cleanup is
  region,       \* the device number it has registered, or "none"
  device, data, \* whether aesd_device, and its data, are allocated
  cdev,         \* whether the cdev is added
  kept,         \* the entries of the ring that own a block
  index,        \* the entry the loop of the cleanup is at
  pending,      \* whether there is a temporary command buffer
  node,         \* /dev/aesdchar: "none", "plain" or the number of a device
  at, op,       \* where the script is, and which one
  status,       \* what it returned
  up,           \* whether the server runs
  opened,       \* what a worker of it has open
  leaked        \* whether one that gave up has left the device open

memory == <<device, data, kept, index, pending>>
kernel == <<module, kpc, region, memory, cdev>>
script == <<at, op, status>>
server == <<up, opened, leaked>>
vars   == <<kernel, node, script, server>>

Scripts == {"load", "unload", "start", "stop", "restart"}
Files   == {"none", "plain"}
Entries == 0 .. Slots - 1

Init ==
  /\ module = "absent" /\ kpc = "none" /\ region = "none"
  /\ device = FALSE /\ data = FALSE /\ cdev = FALSE
  /\ kept = {} /\ index = 0 /\ pending = FALSE
  /\ node = "none"
  /\ at = "idle" /\ op = "none" /\ status = "none"
  /\ up = FALSE /\ opened = "no" /\ leaked = FALSE

\* The script goes on at label, or ends with result s.
Goto(label) == at' = label /\ UNCHANGED <<op, status>>
Exit(s)     == at' = "idle" /\ status' = s /\ UNCHANGED op

-----------------------------------------------------------------------------
(***************************************************************************)
(* aesd_init_module, one step for each thing it asks the kernel for.       *)
(***************************************************************************)
\* The next thing init does, and where its failure leads.
Proceed(label) == kpc' = label /\ UNCHANGED <<module, region, cdev, kept, index, pending>>

RegisterRegion ==
  /\ kpc = "register"
  /\ \E m \in Major : region' = m
  /\ kpc' = "device"
  /\ UNCHANGED <<module, memory, cdev, node, script, server>>

\* Nothing has been made yet, and init returns at once.
RegisterFails ==
  /\ kpc = "register" /\ "region" \in Faults
  /\ module' = "absent" /\ kpc' = "none"
  /\ Goto("insmod_failed")
  /\ UNCHANGED <<region, memory, cdev, node, server>>

AllocDevice ==
  /\ kpc = "device"
  /\ device' = TRUE
  /\ Proceed("data")
  /\ UNCHANGED <<data, node, script, server>>

AllocData ==
  /\ kpc = "data"
  /\ data' = TRUE
  /\ Proceed("add")
  /\ UNCHANGED <<device, node, script, server>>

\* kmalloc fails: goto failure, that is, the whole cleanup.
AllocFails ==
  /\ kpc \in {"device", "data"} /\ "nomem" \in Faults
  /\ Proceed("del")
  /\ UNCHANGED <<device, data, node, script, server>>

AddCdev_FallsThrough ==
  /\ kpc = "add"
  /\ cdev' = TRUE
  /\ module' = "live" /\ kpc' = "del"
  /\ Goto("insmod_done")
  /\ UNCHANGED <<region, memory, node, server>>
AddCdev ==
  /\ kpc = "add"
  /\ cdev' = TRUE
  /\ module' = "live" /\ kpc' = "none"
  /\ Goto("insmod_done")
  /\ UNCHANGED <<region, memory, node, server>>

AddFails ==
  /\ kpc = "add" /\ "add" \in Faults
  /\ Proceed("del")
  /\ UNCHANGED <<device, data, node, script, server>>

-----------------------------------------------------------------------------
(***************************************************************************)
(* aesd_cleanup_module, for an init that failed and for rmmod.             *)
(***************************************************************************)
\* cdev_del(&aesd_device->cdev).  A cdev that was never added is deleted too,
\* which the kernel bears; without a device there is nothing at the address.
CdevDel ==
  /\ kpc = "del" /\ device
  /\ cdev' = FALSE
  /\ kpc' = "free" /\ index' = 0
  /\ UNCHANGED <<module, region, device, data, kept, pending, node, script, server>>

\* The kernel kills insmod in its init.  The module stays as it is.
CdevDelFaults ==
  /\ kpc = "del" /\ ~device
  /\ kpc' = "oops"
  /\ Goto("insmod_failed")
  /\ UNCHANGED <<module, region, memory, cdev, node, server>>

\* One turn of AESD_CIRCULAR_BUFFER_FOREACH.  kfree of an entry's block, if it
\* has one; the entry still points to it.
FreeEntry ==
  /\ kpc = "free" /\ data /\ index < Slots
  /\ kept' = kept \ {index}
  /\ index' = index + 1
  /\ UNCHANGED <<module, kpc, region, device, data, pending, cdev, node, script, server>>

\* The ring itself, the temporary buffer and the device.
FreeRest_OneEarly ==
  /\ kpc = "free"
  /\ ~data \/ index + 1 >= Slots
  /\ data' = FALSE /\ pending' = FALSE /\ device' = FALSE
  /\ kpc' = "unregister"
  /\ UNCHANGED <<module, region, kept, index, cdev, node, script, server>>
FreeRest ==
  /\ kpc = "free"
  /\ ~data \/ index >= Slots
  /\ data' = FALSE /\ pending' = FALSE /\ device' = FALSE
  /\ kpc' = "unregister"
  /\ UNCHANGED <<module, region, kept, index, cdev, node, script, server>>

Unregister ==
  /\ kpc = "unregister"
  /\ region' = "none"
  /\ module' = "absent" /\ kpc' = "none"
  /\ Goto(IF module = "coming" THEN "insmod_failed" ELSE "rm_unload")
  /\ UNCHANGED <<memory, cdev, node, server>>

-----------------------------------------------------------------------------
(***************************************************************************)
(* The scripts, run one after the other.                                   *)
(***************************************************************************)
Unloads == {"unload", "stop", "restart"}

Run(s) ==
  /\ at = "idle"
  /\ op' = s
  /\ status' = "none"
  /\ at' = IF s \in Unloads THEN "rmmod" ELSE "insmod"
  /\ UNCHANGED <<kernel, node, server>>

\* insmod waits for a module that is in its init, one that oopsed for ever.
Insmod ==
  /\ at = "insmod" /\ module = "absent"
  /\ module' = "coming" /\ kpc' = "register"
  /\ Goto("in_kernel")
  /\ UNCHANGED <<region, memory, cdev, node, server>>

\* The module is there already, or its file is not.
InsmodRefused ==
  /\ at = "insmod"
  /\ module = "live" \/ (module = "absent" /\ "file" \in Faults)
  /\ Goto("insmod_failed")
  /\ UNCHANGED <<kernel, node, server>>

\* Without a local file aesdchar_load calls modprobe, which is content with a
\* module that is there already.
ModprobeFinds ==
  /\ at = "insmod" /\ op = "load" /\ module = "live"
  /\ Goto("insmod_done")
  /\ UNCHANGED <<kernel, node, server>>

\* aesdchar_load exits with 1, aesdchar.init always with 0.
LoadFails ==
  /\ at = "insmod_failed"
  /\ Exit(IF op = "load" THEN "failed" ELSE "ok")
  /\ UNCHANGED <<kernel, node, server>>

\* The number is read from /proc/devices; rm -f.
RemoveOld ==
  /\ at = "insmod_done"
  /\ node' = "none"
  /\ Goto("mknod")
  /\ UNCHANGED <<kernel, server>>

MakeNode ==
  /\ at = "mknod" /\ node = "none"
  /\ node' = region
  /\ Goto("perm")
  /\ UNCHANGED <<kernel, server>>

\* The path exists again: only aesdchar_load, with set -e, stops.
MakeNodeFails ==
  /\ at = "mknod" /\ (node # "none" \/ "mknod" \in Faults)
  /\ IF op = "load" THEN Exit("failed") ELSE Goto("perm")
  /\ UNCHANGED <<kernel, node, server>>

SetModes ==
  /\ at = "perm"
  /\ Exit("ok")
  /\ UNCHANGED <<kernel, node, server>>

SetModesFails ==
  /\ at = "perm" /\ "perm" \in Faults
  /\ Exit(IF op = "load" THEN "failed" ELSE "ok")
  /\ UNCHANGED <<kernel, node, server>>

\* An open device counts in the module: the owner of its operations and cdev.
InUse_Never == FALSE
InUse == opened = "device" \/ leaked

Rmmod ==
  /\ at = "rmmod" /\ module = "live" /\ ~InUse
  /\ module' = "going" /\ kpc' = "del"
  /\ Goto("in_kernel")
  /\ UNCHANGED <<region, memory, cdev, node, server>>

\* aesdchar_unload stops here, aesdchar.init removes the node all the same.
RmmodFails ==
  /\ at = "rmmod"
  /\ module = "live" => InUse
  /\ IF op = "unload" THEN Exit("failed") ELSE Goto("rm_unload")
  /\ UNCHANGED <<kernel, node, server>>

RemoveNode_Forgotten ==
  /\ at = "rm_unload"
  /\ IF op = "restart" THEN Goto("insmod") ELSE Exit("ok")
  /\ UNCHANGED <<kernel, node, server>>
RemoveNode ==
  /\ at = "rm_unload"
  /\ node' = "none"
  /\ IF op = "restart" THEN Goto("insmod") ELSE Exit("ok")
  /\ UNCHANGED <<kernel, server>>

-----------------------------------------------------------------------------
(***************************************************************************)
(* The server, started by aesdsocket-start-stop.sh.  Its stop passes       *)
(* start-stop-daemon an option there is none of, and sends no signal.      *)
(***************************************************************************)
ServerStart ==
  /\ ~up
  /\ up' = TRUE
  /\ UNCHANGED <<kernel, node, script, opened, leaked>>

\* Its files are closed with it.
ServerEnds ==
  /\ up
  /\ up' = FALSE /\ opened' = "no" /\ leaked' = FALSE
  /\ UNCHANGED <<kernel, node, script>>

\* open with O_CREAT.  A number that belongs to no driver, or to one that is
\* going, is refused.
Reachable == cdev /\ module # "going" /\ node = region
ServerOpen ==
  /\ up /\ opened = "no"
  /\ \/ /\ node \in Files
        /\ node' = "plain" /\ opened' = "file"
     \/ /\ Reachable
        /\ opened' = "device" /\ UNCHANGED node
  /\ UNCHANGED <<kernel, script, up, leaked>>

\* A command takes the first free entry, or in a full ring the place of another.
AddEntry ==
  \/ kept = Entries /\ UNCHANGED kept
  \/ \E s \in Entries \ kept : 0 .. s - 1 \subseteq kept /\ kept' = kept \cup {s}

\* A whole command, or a piece of one.
ServerWrites ==
  /\ opened = "device"
  /\ \/ AddEntry /\ pending' = FALSE
     \/ pending' = TRUE /\ UNCHANGED kept
  /\ UNCHANGED <<module, kpc, region, device, data, index, cdev, node, script, server>>

ServerCloses ==
  /\ opened # "no"
  /\ opened' = "no"
  /\ UNCHANGED <<kernel, node, script, up, leaked>>

\* The answer fails: the worker ends and leaves the device open.
ServerLeaks ==
  /\ opened = "device" /\ "answer" \in Faults
  /\ opened' = "no" /\ leaked' = TRUE
  /\ UNCHANGED <<kernel, node, script, up>>

-----------------------------------------------------------------------------
aesd_init_module    == \/ RegisterRegion \/ RegisterFails \/ AllocDevice \/ AllocData
                       \/ AllocFails \/ AddCdev \/ AddFails
aesd_cleanup_module == CdevDel \/ CdevDelFaults \/ FreeEntry \/ FreeRest \/ Unregister
Script == \/ Insmod \/ InsmodRefused \/ ModprobeFinds \/ LoadFails \/ RemoveOld
          \/ MakeNode \/ MakeNodeFails \/ SetModes \/ SetModesFails
          \/ Rmmod \/ RmmodFails \/ RemoveNode
Server == \/ ServerStart \/ ServerEnds \/ ServerOpen \/ ServerWrites
          \/ ServerCloses \/ ServerLeaks

Next == \/ \E s \in Scripts : Run(s)
        \/ Script \/ aesd_init_module \/ aesd_cleanup_module \/ Server
Spec == Init /\ [][Next]_vars

-----------------------------------------------------------------------------
\* Types, and that a script waits for the kernel while init or cleanup runs.
TypeOK ==
  /\ module \in {"absent", "coming", "live", "going"}
  /\ kpc \in {"none", "register", "device", "data", "add", "del", "free", "unregister", "oops"}
  /\ region \in Major \cup {"none"}
  /\ device \in BOOLEAN /\ data \in BOOLEAN /\ cdev \in BOOLEAN /\ pending \in BOOLEAN
  /\ up \in BOOLEAN /\ leaked \in BOOLEAN
  /\ kept \subseteq Entries /\ index \in 0 .. Slots
  /\ node \in Files \cup Major
  /\ at \in {"idle", "insmod", "in_kernel", "insmod_failed", "insmod_done", "mknod", "perm",
             "rmmod", "rm_unload"}
  /\ op \in Scripts \cup {"none"} /\ status \in {"none", "ok", "failed"}
  /\ opened \in {"no", "device", "file"}
  /\ kpc # "none" <=> module \in {"coming", "going"}
  /\ at = "in_kernel" <=> kpc \notin {"none", "oops"}

\* A module that is not there has left nothing behind, whichever step of its
\* init failed and whatever was written to the device: no number, no memory, no
\* cdev, and nobody who has it open (main.c:386-410, 432-480).  The comment at
\* main.c:453 says of the loop that it frees only 7 entries and then faults: as it
\* stands in the code it comes to every entry, the last of a full ring included.
NothingLeft ==
  module = "absent" => /\ region = "none" /\ ~cdev
                       /\ ~device /\ ~data /\ kept = {} /\ ~pending
                       /\ opened # "device" /\ ~leaked

\* What an open can reach is there: the cdev is added to a device that is
\* complete, and nothing of it goes while a process has it open, also one that
\* a worker has forgotten to close (main.c:40-47, 415-419, 440).
OpenIsBacked ==
  /\ cdev => region # "none" /\ device /\ data
  /\ opened = "device" \/ leaked => cdev /\ module = "live"

\* Between two scripts a device node is the live module's, never one of a module
\* that has gone or of an earlier number; and an aesdchar_load that succeeded has
\* made it, although the server may have created a plain file in between
\* (aesdchar_load:6-25, aesdchar_unload:6-10, aesdchar.init:107-112).
NodeAtRest ==
  at = "idle" =>
    /\ node \in Major => module = "live" /\ node = region
    /\ op = "load" /\ status = "ok" => module = "live" /\ node = region
=============================================================================
