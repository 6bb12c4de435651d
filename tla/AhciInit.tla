------------------------------ MODULE AhciInit ------------------------------
(***************************************************************************)
(* Finding the disk and starting its port: the PCI scan                    *)
(* (drivers/pci/pci.c), disk_init (drivers/disk/disk.c) and init_sata up   *)
(* to the first command (drivers/disk/sata.c), against ports whose         *)
(* engines, link and device take their own time.  What happens from the    *)
(* first command on is in Ahci.                                            *)
(***************************************************************************)
EXTENDS Integers, FiniteSets, SequencesExt

CONSTANTS
  LastPort,     \* the HBA implements ports 0 .. LastPort
  Buses,        \* the PCI buses: which function of which slot is what
  SlotsRead,    \* the scan reads 31 of the 32 slots,
  FunctionsRead,\* and of each 7 of the 8 functions
  TableSize,    \* the entries of pci_devices
  DiskPorts     \* the ports a SATA disk may be on

Ports == 0 .. LastPort
Classes == {"sata", "pata", "other"}

VARIABLES
  pc,      \* where the driver is
  port,    \* the port the scan is at
  bus,     \* what answers on the PCI bus, by <<slot, function>>
  devices, \* pci_devices: what the scan has found
  disks,   \* the ports with a disk, of the first SATA controller found
  link,    \* ssts: "up", or "down" since the reset
  signed,  \* the disk's signature has come in since the reset (sig)
  busy,    \* tfd: BSY or DRQ
  st, fre, \* cmd: ST and FRE, set by the driver
  cr, fr,  \* cmd: CR and FR, by which the engines follow
  clb,     \* who set clb and fb: "bios" or "kernel"
  known    \* history: the ports reported as SATA devices

engines == <<cr, fr>>
device == <<link, signed, busy>>
world == <<bus, devices, disks>>
vars == <<pc, port, world, device, st, fre, engines, clb, known>>

ASSUME AhciInitAssumption ==
  /\ LastPort \in Nat
  /\ DiskPorts \subseteq Ports
  /\ SlotsRead \in Nat /\ FunctionsRead \in Nat /\ TableSize \in Nat
  /\ \A b \in Buses : DOMAIN b \subseteq Nat \X Nat /\ \A p \in DOMAIN b : b[p] \in Classes

-----------------------------------------------------------------------------
(* pci_scan_bus0 and disk_init                                             *)

\* The places that are read and answer, and the order the scan goes through.
Answering == {p \in DOMAIN bus : p[1] < SlotsRead /\ p[2] < FunctionsRead}
Before(a, b) == a[1] < b[1] \/ (a[1] = b[1] /\ a[2] < b[2])

\* Defect: the entry is not advanced.
PciScanStuck ==
  /\ pc = "scan"
  /\ pc' = "probe"
  /\ \/ Answering = {} /\ devices' = <<>>
     \/ \E p \in Answering :
          /\ \A q \in Answering \ {p} : Before(q, p)
          /\ devices' = <<bus[p]>>
  /\ UNCHANGED <<port, bus, disks, device, st, fre, engines, clb, known>>

\* Each function that answers gets an entry; nothing stops the scan at the
\* table's end, and what is overwritten behind it is anything.
PciScan ==
  /\ pc = "scan"
  /\ pc' = IF Cardinality(Answering) <= TableSize THEN "probe" ELSE "overrun"
  /\ \E place \in [1 .. Cardinality(Answering) -> Answering] :
       /\ \A i, j \in DOMAIN place : i < j => Before(place[i], place[j])
       /\ devices' = [i \in DOMAIN place |-> bus[place[i]]]
  /\ UNCHANGED <<port, bus, disks, device, st, fre, engines, clb, known>>

\* The loop stops at a SATA controller; without one, disk is ATA_PIO, whose
\* dispather is a null pointer.
DiskInit ==
  /\ pc = "probe"
  /\ pc' = CASE Contains(devices, "sata") -> "stop"
             [] ~Contains(devices, "sata") /\ Contains(devices, "pata") -> "null"
             [] OTHER -> "notfound"
  /\ UNCHANGED <<port, world, device, st, fre, engines, clb, known>>

-----------------------------------------------------------------------------
(* ahci_port_reset, for each port of the scan                              *)

\* Waiting in a loop without an end until the condition holds.
Wait(from, condition, to) ==
  /\ pc = from /\ condition
  /\ pc' = to
  /\ UNCHANGED <<port, world, device, st, fre, engines, clb, known>>

ResetStop ==
  /\ pc = "stop"
  /\ pc' = "stopped"
  /\ st' = [st EXCEPT ![port] = FALSE]
  /\ UNCHANGED <<port, world, device, fre, engines, clb, known>>

ResetStopped == Wait("stopped", ~cr[port], "comreset")

\* COMRESET: the link goes down and the device starts anew.
ResetComreset ==
  /\ pc = "comreset"
  /\ pc' = "settle"
  /\ link' = [link EXCEPT ![port] = "down"]
  /\ signed' = [signed EXCEPT ![port] = FALSE]
  /\ busy' = [busy EXCEPT ![port] = TRUE]
  /\ UNCHANGED <<port, world, st, fre, engines, clb, known>>

\* Ten looks at ssts with ksleep(0.1) between, which is ksleep(0): whether
\* the link is up by then or not, the scan goes on.
ResetSettle == Wait("settle", TRUE, "classify")

-----------------------------------------------------------------------------
(* ahci_port_scan                                                          *)

NextPort ==
  IF port = LastPort
  THEN pc' = "identify" /\ UNCHANGED port
  ELSE pc' = "stop" /\ port' = port + 1

\* The signature says what is on the port, if it has come in.
ScanOther ==
  /\ pc = "classify" /\ ~signed[port]
  /\ NextPort
  /\ UNCHANGED <<world, device, st, fre, engines, clb, known>>

ScanDisk ==
  /\ pc = "classify" /\ signed[port]
  /\ pc' = "diskstop"
  /\ known' = known \cup {port}
  /\ st' = [st EXCEPT ![port] = FALSE]
  /\ UNCHANGED <<port, world, device, fre, engines, clb>>

ScanStopped == Wait("diskstop", ~cr[port], "fisstop")

\* Defect: FRE is not cleared before the wait for FR.
ScanFisStopForgotten == Wait("fisstop", TRUE, "fisstopped")

ScanFisStop ==
  /\ pc = "fisstop"
  /\ pc' = "fisstopped"
  /\ fre' = [fre EXCEPT ![port] = FALSE]
  /\ UNCHANGED <<port, world, device, st, engines, clb, known>>

\* Defect: the FIS engine's stop is not waited for.
ScanFisStoppedHasty == Wait("fisstopped", TRUE, "lists")

ScanFisStopped == Wait("fisstopped", ~fr[port], "lists")

ScanLists ==
  /\ pc = "lists"
  /\ pc' = "diskfis"
  /\ clb' = [clb EXCEPT ![port] = "kernel"]
  /\ UNCHANGED <<port, world, device, st, fre, engines, known>>

\* From here it is port 0, whatever port the disk is on.
ScanFisStart ==
  /\ pc = "diskfis"
  /\ pc' = "diskwait"
  /\ fre' = [fre EXCEPT ![0] = TRUE]
  /\ UNCHANGED <<port, world, device, st, engines, clb, known>>

ScanReady == Wait("diskwait", ~busy[0], "diskstart")

ScanStart ==
  /\ pc = "diskstart"
  /\ st' = [st EXCEPT ![0] = TRUE]
  /\ NextPort
  /\ UNCHANGED <<world, device, fre, engines, clb, known>>

-----------------------------------------------------------------------------
(* anci_identify_device up to its command, with ahci_port_dma_enable(0)    *)

IdentifyReady == Wait("identify", ~busy[0], "enable")

EnableFis ==
  /\ pc = "enable"
  /\ pc' = "enabledfis"
  /\ fre' = [fre EXCEPT ![0] = TRUE]
  /\ UNCHANGED <<port, world, device, st, engines, clb, known>>

\* Defect: the FIS engine's start is not waited for.
EnabledFisHasty == Wait("enabledfis", TRUE, "start")

EnabledFis == Wait("enabledfis", fr[0], "start")

EnableStart ==
  /\ pc = "start"
  /\ pc' = "started"
  /\ st' = [st EXCEPT ![0] = TRUE]
  /\ UNCHANGED <<port, world, device, fre, engines, clb, known>>

\* The next thing is ci = 1.
EnabledStart == Wait("started", cr[0], "issue")

-----------------------------------------------------------------------------
(* The ports                                                               *)

EngineFollows(p) ==
  /\ cr[p] # st[p] \/ fr[p] # fre[p]
  /\ \/ cr' = [cr EXCEPT ![p] = st[p]] /\ UNCHANGED fr
     \/ fr' = [fr EXCEPT ![p] = fre[p]] /\ UNCHANGED cr
  /\ UNCHANGED <<pc, port, world, device, st, fre, clb, known>>

\* After a reset the disk's link comes up, then its signature comes in and
\* it is ready.
DiskWakes(p) ==
  /\ p \in disks /\ ~signed[p]
  /\ \/ /\ link[p] = "down"
        /\ link' = [link EXCEPT ![p] = "up"]
        /\ UNCHANGED <<signed, busy>>
     \/ /\ link[p] = "up"
        /\ signed' = [signed EXCEPT ![p] = TRUE]
        /\ busy' = [busy EXCEPT ![p] = FALSE]
        /\ UNCHANGED link
  /\ UNCHANGED <<pc, port, world, st, fre, engines, clb, known>>

-----------------------------------------------------------------------------
\* The BIOS has used some of the ports with a disk and left them running.
Init ==
  /\ pc = "scan" /\ port = 0
  /\ bus \in Buses /\ devices = <<>>
  /\ disks \in SUBSET DiskPorts
  /\ \E used \in SUBSET disks :
       /\ st = [p \in Ports |-> p \in used]
       /\ fre = st /\ cr = st /\ fr = st
  /\ signed = [p \in Ports |-> p \in disks]
  /\ busy = [p \in Ports |-> p \notin disks]
  /\ link = [p \in Ports |-> IF p \in disks THEN "up" ELSE "down"]
  /\ clb = [p \in Ports |-> "bios"]
  /\ known = {}

DriverStep ==
  \/ PciScan \/ DiskInit
  \/ ResetStop \/ ResetStopped \/ ResetComreset \/ ResetSettle
  \/ ScanOther \/ ScanDisk \/ ScanStopped \/ ScanFisStop \/ ScanFisStopped
  \/ ScanLists \/ ScanFisStart \/ ScanReady \/ ScanStart
  \/ IdentifyReady \/ EnableFis \/ EnabledFis \/ EnableStart \/ EnabledStart

PortStep == \E p \in Ports : EngineFollows(p) \/ DiskWakes(p)

Next == DriverStep \/ PortStep

\* The driver runs on; engines follow and disks wake in the end.
Spec ==
  /\ Init /\ [][Next]_vars
  /\ WF_vars(DriverStep)
  /\ \A p \in Ports : WF_vars(EngineFollows(p)) /\ WF_vars(DiskWakes(p))

-----------------------------------------------------------------------------
(* Properties                                                              *)

\* Every variable stays in its range.
TypeOK ==
  /\ pc \in {"scan", "overrun", "probe", "null", "notfound", "stop", "stopped", "comreset",
             "settle", "classify", "diskstop", "fisstop", "fisstopped",
             "lists", "diskfis", "diskwait", "diskstart", "identify",
             "enable", "enabledfis", "start", "started", "issue"}
  /\ port \in Ports
  /\ bus \in Buses /\ devices \in Seq(Classes) /\ disks \subseteq DiskPorts
  /\ link \in [Ports -> {"up", "down"}]
  /\ signed \in [Ports -> BOOLEAN] /\ busy \in [Ports -> BOOLEAN]
  /\ st \in [Ports -> BOOLEAN] /\ fre \in [Ports -> BOOLEAN]
  /\ cr \in [Ports -> BOOLEAN] /\ fr \in [Ports -> BOOLEAN]
  /\ clb \in [Ports -> {"bios", "kernel"}]
  /\ known \subseteq Ports

\* The lists of a port are moved, and its link is reset, only when no engine
\* runs on them and none is about to: the HBA would fetch from either list.
\* What the scan's three endless waits are for (sata.c:124-136, 86-90).
MovedOnlyStopped ==
  [][\A p \in Ports :
       /\ clb'[p] # clb[p] => ~(cr[p] \/ fr[p] \/ st[p] \/ fre[p])
       /\ link'[p] = "down" /\ link[p] = "up" => ~(cr[p] \/ st[p])]_vars

\* The first command is issued to a port that is ready and whose engines
\* both run; it is fetched from the kernel's list exactly if the scan has
\* recognised the disk.
IssueReady ==
  /\ TypeOK
  /\ pc = "issue" =>
    /\ cr[0] /\ fr[0] /\ ~busy[0] /\ signed[0]
    /\ clb[0] = "kernel" <=> 0 \in known

\* With a SATA controller at a place that the scan reads, anything else
\* before or behind it, and a disk on its port 0 the start-up reaches its
\* first command, although none of its waits has a timeout and the BIOS may
\* have left any port running.  Unless more functions answer than the table
\* of 128 holds: the scan reads 217 places, and devices that look at the slot
\* only answer seven times.
BootReachesCommand ==
  /\ \E p \in DOMAIN bus : bus[p] = "sata" /\ p[1] < SlotsRead /\ p[2] < FunctionsRead
  /\ Cardinality(DOMAIN bus) <= TableSize
  /\ 0 \in disks
  ~> pc = "issue"

-----------------------------------------------------------------------------
(* The inductive invariant behind MovedOnlyStopped and IssueReady (proved  *)
(* in AhciInitProofs).                                                     *)

\* What the waits of ahci_port_reset and ahci_port_scan have brought to rest
\* stays so up to the store they were for.
Resting ==
  /\ pc \in {"stopped", "comreset", "diskstop", "fisstop", "fisstopped", "lists"} => ~st[port]
  /\ pc \in {"comreset", "fisstop", "fisstopped", "lists"} => ~cr[port]
  /\ pc \in {"fisstopped", "lists"} => ~fre[port]
  /\ pc = "lists" => ~fr[port]

\* And what ahci_port_dma_enable has started on port 0 runs on.
Running ==
  /\ pc \in {"enable", "enabledfis", "start", "started", "issue"} => ~busy[0]
  /\ pc \in {"enabledfis", "start", "started", "issue"} => fre[0]
  /\ pc \in {"start", "started", "issue"} => fr[0]
  /\ pc \in {"started", "issue"} => st[0]
  /\ pc = "issue" => cr[0]

\* A port that is not busy has sent its signature.
SignedWhenIdle == \A p \in Ports : busy[p] \/ signed[p]

\* The recognised ports have the kernel's lists, but for the one the scan is
\* about to give them to.
Recognised ==
  /\ pc \in {"diskstop", "fisstop", "fisstopped", "lists"} => port \in known
  /\ \A p \in Ports :
       /\ clb[p] = "kernel" => p \in known
       /\ p \in known /\ clb[p] = "bios" =>
            p = port /\ pc \in {"diskstop", "fisstop", "fisstopped", "lists"}

IInv == TypeOK /\ Resting /\ Running /\ SignedWhenIdle /\ Recognised

-----------------------------------------------------------------------------
(* What a comment of the source says and the code does not do.             *)

\* "Resets the port and makes it ready" (sata.c:110): after the scan the
\* ports of the recognised disks are started.  They are not: whatever port a
\* disk is on, port 0 is started.
ScanMakesReady ==
  pc = "identify" => \A p \in known : st[p] /\ fre[p]

=============================================================================
