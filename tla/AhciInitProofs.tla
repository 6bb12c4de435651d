--------------------------- MODULE AhciInitProofs ---------------------------
(***************************************************************************)
(* The way to the first command, for any bus, any number of ports and any  *)
(* table size: no port's lists are moved or link reset under a running     *)
(* engine, and the command meets a port that is ready.                     *)
(***************************************************************************)
EXTENDS AhciInit, FiniteSetTheorems, TLAPS

USE AhciInitAssumption DEF Ports

LEMMA FirstPort == 0 \in Ports
OBVIOUS

(* The functions that the scan reads are finitely many.                    *)
LEMMA AnsweringFinite ==
  ASSUME bus \in Buses
  PROVE  Cardinality(Answering) \in Nat
<1> DEFINE Read == (0 .. SlotsRead - 1) \X (0 .. FunctionsRead - 1)
<1>1. IsFiniteSet(0 .. SlotsRead - 1) /\ IsFiniteSet(0 .. FunctionsRead - 1)
  BY FS_Interval
<1>2. IsFiniteSet(Read)
  BY <1>1, FS_Product
<1>3. Answering \subseteq Read
  <2> SUFFICES ASSUME NEW p \in Answering PROVE p \in Read
    OBVIOUS
  <2>1. p \in Nat \X Nat /\ p[1] < SlotsRead /\ p[2] < FunctionsRead
    BY DEF Answering
  <2> QED
    BY <2>1
<1> HIDE DEF Read
<1>4. IsFiniteSet(Answering)
  BY <1>2, <1>3, FS_Subset
<1> QED
  BY <1>4, FS_CardinalityType

(* The invariant at boot.                                                  *)
LEMMA InitInv == Init => IInv
<1> SUFFICES ASSUME Init PROVE IInv
  OBVIOUS
<1>1. PICK used \in SUBSET disks :
        st = [p \in Ports |-> p \in used] /\ fre = st /\ cr = st /\ fr = st
  BY DEF Init
<1>2. devices \in Seq(Classes)
  BY DEF Init
<1>3. TypeOK
  BY <1>1, <1>2 DEF Init, TypeOK
<1>4. Resting /\ Running /\ SignedWhenIdle /\ Recognised
  BY DEF Init, Resting, Running, SignedWhenIdle, Recognised
<1> QED
  BY <1>3, <1>4 DEF IInv

-----------------------------------------------------------------------------
(* The steps, by the part of the start-up they belong to.                  *)

(* The scan of the bus and the choice of a driver.                         *)
LEMMA BusInv ==
  ASSUME IInv, PciScan \/ DiskInit
  PROVE  IInv'
<1> USE DEF IInv
<1>1. /\ UNCHANGED <<port, bus, disks, device, st, fre, engines, clb, known>>
      /\ pc \in {"scan", "probe"}
      /\ pc' \in {"probe", "overrun", "stop", "null", "notfound"}
  BY DEF PciScan, DiskInit, world
<1>2. devices' \in Seq(Classes)
  <2>1. CASE DiskInit
    BY <2>1 DEF DiskInit, world, TypeOK
  <2>2. CASE PciScan
    <3> DEFINE n == Cardinality(Answering)
    <3>1. PICK place \in [1 .. n -> Answering] :
            devices' = [i \in DOMAIN place |-> bus[place[i]]]
      BY <2>2 DEF PciScan
    <3>2. n \in Nat
      BY AnsweringFinite DEF TypeOK
    <3> HIDE DEF n
    <3>3. \A i \in 1 .. n : bus[place[i]] \in Classes
      BY DEF TypeOK, Answering
    <3> QED
      BY <3>1, <3>2, <3>3
  <2> QED
    BY <2>1, <2>2
<1>3. TypeOK'
  BY <1>1, <1>2 DEF TypeOK, device, engines
<1>4. Resting' /\ Running' /\ SignedWhenIdle' /\ Recognised'
  BY <1>1 DEF Resting, Running, SignedWhenIdle, Recognised, device, engines
<1> QED
  BY <1>3, <1>4

(* A wait changes pc only, and brings what the next store needs.           *)
LEMMA WaitInv ==
  ASSUME IInv,
         \/ ResetStopped \/ ResetSettle \/ ScanStopped \/ ScanFisStopped
         \/ ScanReady \/ IdentifyReady \/ EnabledFis \/ EnabledStart
  PROVE  IInv'
<1> USE DEF IInv, ResetStopped, ResetSettle, ScanStopped, ScanFisStopped,
            ScanReady, IdentifyReady, EnabledFis, EnabledStart, Wait
<1>1. UNCHANGED <<port, world, device, st, fre, engines, clb, known>>
  OBVIOUS
<1>2. TypeOK'
  BY <1>1 DEF TypeOK, world, device, engines
<1>3. Resting' /\ Running'
  BY <1>1 DEF Resting, Running, world, device, engines
<1>4. SignedWhenIdle' /\ Recognised'
  BY <1>1 DEF SignedWhenIdle, Recognised, world, device, engines
<1> QED
  BY <1>2, <1>3, <1>4

(* The other steps of ahci_port_reset.                                     *)
LEMMA ResetInv ==
  ASSUME IInv, ResetStop \/ ResetComreset
  PROVE  IInv'
<1> USE DEF IInv
<1>1. CASE ResetStop
  BY <1>1 DEF ResetStop, TypeOK, Resting, Running, SignedWhenIdle, Recognised,
              world, device, engines
<1>2. CASE ResetComreset
  BY <1>2 DEF ResetComreset, TypeOK, Resting, Running, SignedWhenIdle, Recognised,
              world, engines
<1> QED
  BY <1>1, <1>2

(* The scan goes to the next port, or on to the identification.            *)
LEMMA NextPortRange ==
  ASSUME TypeOK, NextPort
  PROVE  port' \in Ports /\ pc' \in {"stop", "identify"}
BY DEF NextPort, TypeOK

(* The other steps of ahci_port_scan.                                      *)
LEMMA ScanInv ==
  ASSUME IInv,
         \/ ScanOther \/ ScanDisk \/ ScanFisStop \/ ScanLists \/ ScanFisStart \/ ScanStart
  PROVE  IInv'
<1> USE DEF IInv, world, device, engines
<1>1. CASE ScanOther
  BY <1>1, NextPortRange DEF ScanOther, TypeOK, Resting, Running, SignedWhenIdle, Recognised
<1>2. CASE ScanDisk
  BY <1>2 DEF ScanDisk, TypeOK, Resting, Running, SignedWhenIdle, Recognised
<1>3. CASE ScanFisStop
  BY <1>3 DEF ScanFisStop, TypeOK, Resting, Running, SignedWhenIdle, Recognised
<1>4. CASE ScanLists
  <2>1. /\ pc = "lists" /\ pc' = "diskfis" /\ port \in Ports
        /\ clb' = [clb EXCEPT ![port] = "kernel"]
        /\ UNCHANGED <<port, world, device, st, fre, engines, known>>
    BY <1>4 DEF ScanLists, TypeOK
  <2>2. TypeOK'
    BY <2>1 DEF TypeOK
  <2>3. Resting' /\ Running' /\ SignedWhenIdle'
    BY <2>1 DEF Resting, Running, SignedWhenIdle
  <2>4. Recognised'
    BY <2>1 DEF TypeOK, Recognised
  <2> QED
    BY <2>2, <2>3, <2>4
<1>5. CASE ScanFisStart
  BY <1>5 DEF ScanFisStart, TypeOK, Resting, Running, SignedWhenIdle, Recognised
<1>6. CASE ScanStart
  BY <1>6, NextPortRange DEF ScanStart, TypeOK, Resting, Running, SignedWhenIdle, Recognised
<1> QED
  BY <1>1, <1>2, <1>3, <1>4, <1>5, <1>6

(* The other steps of ahci_port_dma_enable.                                *)
LEMMA EnableInv ==
  ASSUME IInv, EnableFis \/ EnableStart
  PROVE  IInv'
<1> USE DEF IInv, world, device, engines
<1>1. CASE EnableFis
  BY <1>1 DEF EnableFis, TypeOK, Resting, Running, SignedWhenIdle, Recognised
<1>2. CASE EnableStart
  BY <1>2 DEF EnableStart, TypeOK, Resting, Running, SignedWhenIdle, Recognised
<1> QED
  BY <1>1, <1>2

(* Engines and disks at their own time, on any port.                       *)
LEMMA PortInv ==
  ASSUME IInv, NEW p \in Ports, EngineFollows(p) \/ DiskWakes(p)
  PROVE  IInv'
<1> USE DEF IInv, world
<1>1. CASE EngineFollows(p)
  <2>1. UNCHANGED <<pc, port, world, device, st, fre, clb, known>>
    BY <1>1 DEF EngineFollows
  <2>2. TypeOK'
    BY <1>1, <2>1 DEF EngineFollows, TypeOK, device
  <2>3. Resting'
    <3>1. /\ UNCHANGED <<pc, port, st, fre>>
          /\ cr' \in {cr, [cr EXCEPT ![p] = st[p]]}
          /\ fr' \in {fr, [fr EXCEPT ![p] = fre[p]]}
      BY <1>1, <2>1 DEF EngineFollows
    <3>2. port \in Ports => cr'[port] \in {cr[port], st[port]}
      BY <3>1 DEF TypeOK
    <3>3. port \in Ports => fr'[port] \in {fr[port], fre[port]}
      BY <3>1 DEF TypeOK
    <3> QED
      BY <3>1, <3>2, <3>3 DEF Resting, TypeOK
  <2>4. Running'
    <3>1. /\ UNCHANGED <<pc, busy, st, fre>>
          /\ cr' \in {cr, [cr EXCEPT ![p] = st[p]]}
          /\ fr' \in {fr, [fr EXCEPT ![p] = fre[p]]}
      BY <1>1, <2>1 DEF EngineFollows, device
    <3>2. cr'[0] \in {cr[0], st[0]}
      BY <3>1, FirstPort DEF TypeOK
    <3>3. fr'[0] \in {fr[0], fre[0]}
      BY <3>1, FirstPort DEF TypeOK
    <3> QED
      BY <3>1, <3>2, <3>3 DEF Running
  <2>5. SignedWhenIdle' /\ Recognised'
    BY <2>1 DEF SignedWhenIdle, Recognised, device
  <2> QED
    BY <2>2, <2>3, <2>4, <2>5
<1>2. CASE DiskWakes(p)
  <2>1. UNCHANGED <<pc, port, world, st, fre, engines, clb, known>>
    BY <1>2 DEF DiskWakes
  <2>2. TypeOK'
    BY <1>2, <2>1 DEF DiskWakes, TypeOK, engines
  <2>3. Resting'
    BY <2>1 DEF Resting, engines
  <2>4. Running'
    <3>1. busy' \in {busy, [busy EXCEPT ![p] = FALSE]}
      BY <1>2 DEF DiskWakes
    <3>2. ~busy[0] => ~busy'[0]
      BY <3>1, FirstPort DEF TypeOK
    <3> QED
      BY <2>1, <3>2 DEF Running, engines
  <2>5. SignedWhenIdle'
    BY <1>2, <2>1 DEF DiskWakes, TypeOK, SignedWhenIdle
  <2>6. Recognised'
    BY <2>1 DEF Recognised
  <2> QED
    BY <2>2, <2>3, <2>4, <2>5, <2>6
<1> QED
  BY <1>1, <1>2

LEMMA NextInv ==
  ASSUME IInv, [Next]_vars
  PROVE  IInv'
<1>1. CASE DriverStep
  BY <1>1, BusInv, WaitInv, ResetInv, ScanInv, EnableInv DEF DriverStep
<1>2. CASE PortStep
  BY <1>2, PortInv DEF PortStep
<1>3. CASE UNCHANGED vars
  BY <1>3 DEF vars, world, device, engines, IInv, TypeOK, Resting, Running,
              SignedWhenIdle, Recognised
<1> QED
  BY <1>1, <1>2, <1>3 DEF Next

-----------------------------------------------------------------------------
(* The theorems.                                                           *)

\* The invariant holds from the boot on, whatever the BIOS has left running.
THEOREM StartUpInvariant == Spec => []IInv
BY InitInv, NextInv, PTL DEF Spec

\* The first command goes to a port that is ready and whose engines run, with
\* the kernel's list exactly if the scan has recognised the disk.
THEOREM FirstCommandReady == Spec => []IssueReady
<1>1. ASSUME IInv, pc = "issue"
      PROVE  /\ cr[0] /\ fr[0] /\ ~busy[0] /\ signed[0]
             /\ clb[0] = "kernel" <=> 0 \in known
  <2>1. clb[0] \in {"bios", "kernel"}
    BY <1>1, FirstPort DEF IInv, TypeOK
  <2>2. clb[0] = "kernel" <=> 0 \in known
    BY <1>1, <2>1, FirstPort DEF IInv, Recognised
  <2>3. cr[0] /\ fr[0] /\ ~busy[0] /\ signed[0]
    BY <1>1, FirstPort DEF IInv, Running, SignedWhenIdle
  <2> QED
    BY <2>2, <2>3
<1>2. IInv => IssueReady
  BY <1>1 DEF IInv, IssueReady
<1> QED
  BY StartUpInvariant, <1>2, PTL

\* No engine runs on a port's lists, or is about to, when they are moved, and
\* none runs on its commands when the link goes down.
THEOREM ListsMovedAtRest == Spec => MovedOnlyStopped
<1> DEFINE Rest(p) ==
      /\ clb'[p] # clb[p] => ~(cr[p] \/ fr[p] \/ st[p] \/ fre[p])
      /\ link'[p] = "down" /\ link[p] = "up" => ~(cr[p] \/ st[p])
<1>1. ASSUME IInv, [Next]_vars, NEW p \in Ports PROVE Rest(p)
  <2> USE DEF IInv, world, device, engines
  <2>1. CASE ScanLists
    BY <1>1, <2>1 DEF ScanLists, TypeOK, Resting
  <2>2. CASE ResetComreset
    BY <1>1, <2>2 DEF ResetComreset, TypeOK, Resting
  <2>3. ASSUME NEW q \in Ports, DiskWakes(q) PROVE Rest(p)
    BY <1>1, <2>3 DEF DiskWakes, TypeOK
  <2>4. ASSUME NEW q \in Ports, EngineFollows(q) PROVE Rest(p)
    BY <2>4 DEF EngineFollows
  <2>5. CASE DriverStep /\ ~ScanLists /\ ~ResetComreset
    BY <2>5 DEF DriverStep, PciScan, DiskInit, ResetStop, ResetStopped, ResetSettle,
         ScanOther, ScanDisk, ScanStopped, ScanFisStop, ScanFisStopped, ScanFisStart,
         ScanReady, ScanStart, IdentifyReady, EnableFis, EnabledFis, EnableStart,
         EnabledStart, Wait
  <2>6. CASE UNCHANGED vars
    BY <2>6 DEF vars
  <2> QED
    BY <1>1, <2>1, <2>2, <2>3, <2>4, <2>5, <2>6 DEF Next, PortStep
<1>2. IInv /\ [Next]_vars => [\A p \in Ports : Rest(p)]_vars
  BY <1>1
<1> QED
  BY StartUpInvariant, <1>2, PTL DEF Spec, MovedOnlyStopped
=============================================================================
