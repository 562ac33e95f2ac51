--------------------------- MODULE NetworkProofs ----------------------------
(***************************************************************************)
(* The scan starts the right cards, and send_packet sends every packet     *)
(* once, in order and unchanged, for every machine, bus range, page table  *)
(* and number of packets.                                                  *)
(***************************************************************************)
EXTENDS Network, SequenceTheorems, TLAPS

-----------------------------------------------------------------------------
(***************************************************************************)
(* The inductive invariant.                                                *)
(***************************************************************************)
Places == {"none", "local", "static", "dropped"}
Cells  == Nat \X Nat
Ram    == {Phys(v + k) : v \in Buffers, k \in Bytes}

Regs == [rst : BOOLEAN, te : BOOLEAN, re : BOOLEAN, rbstart : Nat,
         tsad : [Descriptors -> Nat], own : [Descriptors -> BOOLEAN]]

Types ==
  /\ TypeOK
  /\ DOMAIN devices \subseteq Cards
  /\ nic \in [Cards -> Regs]
  /\ memory \in [Ram -> Cells]
  /\ wire \in Seq([Bytes -> Cells])

InScan == pc \in {"scan", "reset", "rx", "enable", "move"}
InInit == pc \in {"reset", "rx", "enable", "move"}

\* The cards with a driver that the scan has passed.
Met == {c \in DOMAIN devices : devices[c] = "rtl8139_io" /\ Before(c, Here)}

\* The scan is at a card while it initialises one, and has passed every bus
\* after it; the cards enabled are the ones it has passed, and the one it is
\* leaving; the driver stored is the one of the last of them.
ScanInv ==
  /\ InInit => Scanning /\ Found("rtl8139_io")
  /\ ~InScan => ~Scanning
  /\ ~Scanning => slot = 0
  /\ \A c \in mastering : devices[c] # "other"
  /\ \A c \in Cards : nic[c].te /\ nic[c].re <=> c \in Met \/ (pc = "move" /\ c = Here)
  /\ \A c \in Cards : Stored(c) <=> c \in Met /\ ~\E d \in Met : Before(c, d)
  /\ \A c \in Cards : nic[c].rst => pc = "reset" /\ c = Here

Last == given[Len(given)]

\* The last packet is in memory, if a card can reach it and nothing that
\* arrives is written over it.
Loaded == Reachable(Last) /\ Undisturbed(Last) =>
            \A k \in Bytes : memory[Phys(Last) + k] = <<Len(given), k>>

\* The last packet is on its way through descriptor d of card c.
OnItsWay == Len(given) = Len(wire) + 1 /\ Len(given) >= 1 /\ Loaded

Described(c) == nic[c].tsad[tx_index] = Virt_to_phys(Last)

\* A descriptor belongs to a card only while send_packet waits for that one
\* packet; all packets before it are out.
SendInv ==
  /\ \A c \in Cards, d \in Descriptors :
       ~nic[c].own[d] => pc = "wait" /\ Stored(c) /\ d = tx_index
  /\ InScan => given = << >>
  /\ pc \in {"scan", "reset", "rx", "enable", "move", "idle"} => Len(wire) = Len(given)
  /\ pc \in {"tsad", "tsd"} => OnItsWay
  /\ pc = "tsd" => \A c \in Cards : Stored(c) => Described(c)
  /\ pc = "wait" => \A c \in Cards : Stored(c) =>
       IF nic[c].own[tx_index] THEN Len(wire) = Len(given) ELSE OnItsWay /\ Described(c)

NetworkInv == Types /\ ScanInv /\ SendInv /\ WireIsGiven

RxStart == RxAt["local"] % AddrLimit

\* init runs on a local driver, so every card that receives has RBSTART there.
RxInv ==
  /\ InInit => place[Here] = "local"
  /\ pc = "enable" => nic[Here].rbstart = RxStart
  /\ \A c \in Cards : nic[c].re => nic[c].rbstart = RxStart

-----------------------------------------------------------------------------
(***************************************************************************)
(* Constants and addresses.                                                *)
(***************************************************************************)
LEMMA Constants ==
  /\ Slots \in Nat \ {0} /\ BusLimit \in Nat \ {0} /\ PageSize \in Nat \ {0}
  /\ AddrLimit \in Nat \ {0} /\ PacketLen \in Nat \ {0} /\ MaxSends \in Nat
  /\ 0 \in Bytes /\ Bytes \subseteq Nat /\ Buffers \subseteq Nat
  /\ \A c \in Cards : c[1] \in Nat /\ c[2] \in 0 .. Slots - 1 /\ c = <<c[1], c[2]>>
<1>1. /\ Slots \in Nat \ {0} /\ BusLimit \in Nat \ {0} /\ PageSize \in Nat \ {0}
      /\ AddrLimit \in Nat \ {0} /\ PacketLen \in Nat \ {0} /\ MaxSends \in Nat
      /\ Buffers \subseteq Nat
  BY NetworkAssumption
<1>2. 0 \in Bytes /\ Bytes \subseteq Nat
  BY <1>1 DEF Bytes
<1>3. \A c \in Cards : c[1] \in Nat /\ c[2] \in 0 .. Slots - 1 /\ c = <<c[1], c[2]>>
  BY NetworkAssumption
<1> QED BY <1>1, <1>2, <1>3

LEMMA PhysType ==
  ASSUME NEW v \in Buffers
  PROVE  /\ \A k \in Bytes : Phys(v + k) \in Nat
         /\ Phys(v) \in Nat /\ Virt_to_phys(v) \in Nat
         /\ Phys(v) < AddrLimit => Virt_to_phys(v) = Phys(v)
<1>1. v \in Nat /\ PageSize \in Nat \ {0} /\ AddrLimit \in Nat \ {0}
  BY Constants
<1>2. ASSUME NEW k \in Bytes PROVE Phys(v + k) \in Nat
  <2>1. v + k \in Nat
    BY <1>1, Constants
  <2>2. (v + k) \div PageSize \in DOMAIN PageTable
    BY NetworkAssumption DEF Bytes
  <2>3. PageTable[(v + k) \div PageSize] \in Nat
    BY <2>2, NetworkAssumption
  <2>4. (v + k) % PageSize \in Nat
    BY <1>1, <2>1
  <2> DEFINE f == PageTable[(v + k) \div PageSize]
             o == (v + k) % PageSize
  <2> HIDE DEF f, o
  <2>5. (f * PageSize) + o \in Nat
    BY <1>1, <2>3, <2>4 DEF f, o
  <2> QED BY <2>5 DEF Phys, f, o
<1>3. Phys(v) \in Nat
  <2>1. v + 0 = v
    BY <1>1
  <2> QED BY <1>2, <2>1, Constants
<1>4. Virt_to_phys(v) \in Nat /\ (Phys(v) < AddrLimit => Virt_to_phys(v) = Phys(v))
  BY <1>1, <1>3 DEF Virt_to_phys
<1> QED BY <1>2, <1>3, <1>4

LEMMA RxStartType == RxStart \in Nat
BY NetworkAssumption DEF RxStart

LEMMA DmaType ==
  ASSUME NEW a, memory \in [Ram -> Cells]
  PROVE  Dma(a) \in [Bytes -> Cells]
<1>1. Clear \in Cells
  BY DEF Clear, Cells
<1> QED BY <1>1 DEF Dma

\* A card that reads a packet the kernel has written where it can reach it
\* reads that packet.
LEMMA DmaReads ==
  ASSUME NEW v \in Buffers, NEW n \in Nat, Reachable(v), memory \in [Ram -> Cells],
         \A k \in Bytes : memory[Phys(v) + k] = <<n, k>>
  PROVE  Dma(Virt_to_phys(v)) = Packet(n)
<1>1. Phys(v) \in Nat /\ Phys(v) < AddrLimit
  <2>1. Phys(v) + 0 < AddrLimit /\ Phys(v) \in Nat
    BY Constants, PhysType DEF Reachable, Undisturbed
  <2> QED BY <2>1
<1>2. Virt_to_phys(v) = Phys(v)
  BY <1>1, PhysType
<1>3. ASSUME NEW k \in Bytes
      PROVE  Phys(v) + k \in DOMAIN memory /\ Bus(Phys(v) + k) = Phys(v) + k
  <2>1. Phys(v) + k = Phys(v + k) /\ Phys(v) + k < AddrLimit
    BY DEF Reachable, Undisturbed
  <2>2. Bus(Phys(v) + k) = Phys(v) + k
    BY <1>1, <2>1, Constants DEF Bus
  <2> QED BY <2>1, <2>2 DEF Ram
<1> QED BY <1>2, <1>3 DEF Dma, Packet

\* The loops of the scan go to the next place.
LEMMA AdvanceStep ==
  ASSUME TypeOK, Scanning, Advance
  PROVE  /\ bus' \in 0 .. BusLimit /\ slot' \in 0 .. Slots - 1
         /\ ~Scanning' => slot' = 0
         /\ \A c \in Cards : Before(c, Here)' <=> Before(c, Here) \/ c = Here
<1>1. /\ bus \in Nat /\ bus < BusLimit /\ slot \in 0 .. Slots - 1
      /\ BusLimit \in Nat /\ Slots \in Nat \ {0}
  BY Constants DEF TypeOK, Scanning
<1>2. bus' \in 0 .. BusLimit /\ slot' \in 0 .. Slots - 1 /\ (~Scanning' => slot' = 0)
  BY <1>1 DEF Advance, Scanning
<1>3. ASSUME NEW c \in Cards
      PROVE  Before(c, Here)' <=> Before(c, Here) \/ c = Here
  <2>1. c[1] \in Nat /\ c[2] \in 0 .. Slots - 1 /\ c = <<c[1], c[2]>>
    BY Constants
  <2>2. c = Here <=> c[1] = bus /\ c[2] = slot
    BY <2>1 DEF Here
  <2>3. Before(c, Here) <=> c[1] < bus \/ (c[1] = bus /\ c[2] < slot)
    BY DEF Before, Here
  <2>4. Before(c, Here)' <=> c[1] < bus' \/ (c[1] = bus' /\ c[2] < slot')
    BY DEF Before, Here
  <2> QED BY <1>1, <2>1, <2>2, <2>3, <2>4 DEF Advance
<1> QED BY <1>2, <1>3

-----------------------------------------------------------------------------
(***************************************************************************)
(* Initial states.                                                         *)
(***************************************************************************)
LEMMA ResetType ==
  /\ ResetRegs \in Regs /\ ~ResetRegs.rst /\ ~ResetRegs.te /\ ~ResetRegs.re
  /\ \A d \in Descriptors : ResetRegs.own[d]
BY DEF ResetRegs, Regs, Places

LEMMA InitNetwork == Init => NetworkInv
<1> SUFFICES ASSUME Init PROVE NetworkInv
  OBVIOUS
<1>1. DOMAIN devices \subseteq Cards
  BY DEF Init
<1>2. memory \in [Ram -> Cells]
  BY DEF Init, Ram, Cells, Clear
<1>3. \A c \in Cards : nic[c] = ResetRegs
  BY DEF Init
<1>4. nic \in [Cards -> Regs]
  BY <1>3, ResetType DEF Init
<1>5. TypeOK
  BY Constants, EmptySeq DEF Init, TypeOK, Descriptors
<1>6. wire \in Seq([Bytes -> Cells])
  BY EmptySeq DEF Init
<1>7. Types
  BY <1>1, <1>2, <1>4, <1>5, <1>6 DEF Types
<1>8. ASSUME NEW c \in Cards PROVE ~Before(c, Here)
  <2>1. c[1] \in Nat /\ c[2] \in 0 .. Slots - 1 /\ Slots \in Nat
    BY Constants
  <2> QED BY <2>1 DEF Init, Before, Here
<1>9. Met = {}
  BY <1>1, <1>8 DEF Met
<1>10. Scanning /\ InScan /\ ~InInit /\ pc = "scan"
  BY Constants DEF Init, Scanning, InScan, InInit
<1>11. \A c \in Cards : ~Stored(c)
  BY DEF Init, Stored
<1>12. ScanInv
  BY <1>3, <1>9, <1>10, <1>11, ResetType DEF Init, ScanInv
<1>13. SendInv /\ WireIsGiven
  BY <1>3, <1>10, ResetType DEF Init, SendInv, WireIsGiven
<1> QED BY <1>7, <1>12, <1>13 DEF NetworkInv

-----------------------------------------------------------------------------
(***************************************************************************)
(* What the steps share.                                                   *)
(***************************************************************************)
LEMMA HereIsNotBefore ==
  ASSUME TypeOK
  PROVE  /\ ~Before(Here, Here)
         /\ \A c \in Cards : Before(c, Here) => ~Before(Here, c)
<1>1. bus \in Nat /\ slot \in Nat
  BY Constants DEF TypeOK
<1>2. ~Before(Here, Here)
  BY <1>1 DEF Before, Here
<1>3. ASSUME NEW c \in Cards, Before(c, Here) PROVE ~Before(Here, c)
  <2>1. c[1] \in Nat /\ c[2] \in Nat
    BY Constants
  <2> QED BY <1>1, <1>3, <2>1 DEF Before, Here
<1> QED BY <1>2, <1>3

\* What the scan has passed grows by the place it was at.
LEMMA MetStep ==
  ASSUME Types, Scanning, Advance, UNCHANGED devices
  PROVE  \A c \in Cards : c \in Met' <=> c \in Met \/ (c = Here /\ Found("rtl8139_io"))
<1>1. \A c \in Cards : Before(c, Here)' <=> Before(c, Here) \/ c = Here
  BY AdvanceStep DEF Types
<1>2. ASSUME NEW c \in Cards
      PROVE  c \in Met' <=> c \in DOMAIN devices /\ devices[c] = "rtl8139_io" /\ Before(c, Here)'
  BY DEF Met
<1> QED BY <1>1, <1>2 DEF Met, Found

\* The registers of one card change; tsad and own stay typed.
LEMMA RegsType ==
  ASSUME Types, NEW c \in Cards, NEW r \in Regs, nic' = [nic EXCEPT ![c] = r]
  PROVE  /\ nic' \in [Cards -> Regs]
         /\ nic'[c] = r /\ \A e \in Cards : e # c => nic'[e] = nic[e]
BY DEF Types

\* During the scan no packet has been given, and no descriptor belongs to a card.
LEMMA SendInScan ==
  ASSUME SendInv, WireIsGiven, InScan, given' = given, wire' = wire, InScan' \/ pc' = "idle",
         \A c \in Cards, d \in Descriptors : nic'[c].own[d]
  PROVE  SendInv' /\ WireIsGiven'
<1>1. given = << >> /\ Len(wire) = Len(given)
  BY DEF SendInv, InScan
<1>2. pc' \in {"scan", "reset", "rx", "enable", "move", "idle"}
  BY DEF InScan
<1>3. SendInv'
  BY <1>1, <1>2 DEF SendInv
<1>4. WireIsGiven'
  BY <1>1 DEF WireIsGiven
<1> QED BY <1>3, <1>4

LEMMA OwnInScan ==
  ASSUME SendInv, InScan \/ pc = "idle", Types
  PROVE  \A c \in Cards, d \in Descriptors : nic[c].own[d]
BY DEF SendInv, InScan

\* After the scan, what the scan did stays.
LEMMA ScanKept ==
  ASSUME ScanInv, ~InScan, ~InScan', UNCHANGED <<devices, bus, slot, mastering, place>>,
         \A c \in Cards : /\ nic'[c].te = nic[c].te /\ nic'[c].re = nic[c].re
                          /\ nic'[c].rst = nic[c].rst
  PROVE  ScanInv'
<1>1. /\ Here' = Here /\ (Scanning' <=> Scanning)
      /\ \A c \in Cards : Stored(c)' <=> Stored(c)
  BY DEF Here, Scanning, Stored
<1>2. Met' = Met
  BY <1>1 DEF Met
<1>3. pc # "move" /\ pc # "reset" /\ pc' # "move" /\ pc' # "reset" /\ ~InInit /\ ~InInit'
  BY DEF InScan, InInit
<1> QED BY <1>1, <1>2, <1>3 DEF ScanInv

-----------------------------------------------------------------------------
(***************************************************************************)
(* The scan.                                                               *)
(***************************************************************************)
\* The scan passes a place without a driver.
LEMMA PassStep ==
  ASSUME NetworkInv, At("scan"), Scanning, Advance, ~Found("rtl8139_io"),
         mastering' = mastering \/ (Found("rtl8139_mem") /\ mastering' = mastering \cup {Here}),
         UNCHANGED <<devices, pc, place, nic, ramVars, wire>>
  PROVE  NetworkInv'
<1> USE DEF NetworkInv
<1>1. pc = "scan" /\ pc' = "scan" /\ InScan /\ InScan' /\ ~InInit'
  BY DEF At, InScan, InInit
<1>2. bus' \in 0 .. BusLimit /\ slot' \in 0 .. Slots - 1 /\ (~Scanning' => slot' = 0)
  BY AdvanceStep DEF Types
<1>3. mastering' \subseteq DOMAIN devices /\ \A c \in mastering' : devices[c] # "other"
  BY DEF Found, Types, TypeOK, ScanInv
<1>4. Types'
  BY <1>2, <1>3 DEF Types, TypeOK, ramVars
<1>5. \A c \in Cards : c \in Met' <=> c \in Met
  BY MetStep
<1>6. Met' = Met
  <2>1. Met \subseteq Cards /\ Met' \subseteq Cards
    BY DEF Met, Types
  <2> QED BY <1>5, <2>1
<1>7. \A c \in Cards : Stored(c)' <=> Stored(c)
  BY DEF Stored
<1>8. ScanInv'
  BY <1>1, <1>2, <1>3, <1>6, <1>7 DEF ScanInv
<1>9. SendInv' /\ WireIsGiven'
  BY <1>1, OwnInScan, SendInScan DEF ramVars
<1> QED BY <1>4, <1>8, <1>9

LEMMA ScanOtherStep == NetworkInv /\ Scan_other => NetworkInv'
BY PassStep DEF Scan_other, Found

LEMMA InitMemStep == NetworkInv /\ Init_device_mem => NetworkInv'
BY PassStep DEF Init_device_mem, Found

LEMMA InitIoStep == NetworkInv /\ Init_device_io => NetworkInv'
<1> SUFFICES ASSUME NetworkInv, Init_device_io PROVE NetworkInv'
  OBVIOUS
<1> USE DEF NetworkInv
<1>1. pc = "scan" /\ pc' = "reset" /\ InScan /\ InScan' /\ InInit' /\ Scanning /\ Found("rtl8139_io")
  BY DEF Init_device_io, At, InScan, InInit
<1>2. Here \in DOMAIN devices /\ Here \in Cards /\ devices[Here] = "rtl8139_io"
  BY <1>1 DEF Found, Types
<1>3. /\ UNCHANGED <<devices, bus, slot, given, memory, wire>> /\ tx_index' = 0
      /\ mastering' = mastering \cup {Here}
  BY DEF Init_device_io
<1>4. /\ Here' = Here /\ (Scanning' <=> Scanning) /\ (Found("rtl8139_io"))'
  BY <1>1, <1>3 DEF Here, Scanning, Found
<1>5. Met' = Met
  BY <1>3, <1>4 DEF Met
<1>6. [nic[Here] EXCEPT !.rst = TRUE] \in Regs
  BY <1>2 DEF Types, Regs
<1>7. nic' = [nic EXCEPT ![Here] = [nic[Here] EXCEPT !.rst = TRUE]]
  BY <1>2 DEF Init_device_io, Types
<1>8. /\ nic' \in [Cards -> Regs] /\ nic'[Here] = [nic[Here] EXCEPT !.rst = TRUE]
      /\ \A c \in Cards : c # Here => nic'[c] = nic[c]
  BY <1>2, <1>6, <1>7, RegsType
<1>9. \A c \in Cards : /\ nic'[c].te = nic[c].te /\ nic'[c].re = nic[c].re
                       /\ nic'[c].own = nic[c].own
                       /\ (nic'[c].rst => nic[c].rst \/ c = Here)
  BY <1>2, <1>8 DEF Types, Regs
<1>10. Here \notin Met
  BY HereIsNotBefore DEF Met, Types
<1>11. \A c \in Cards : Stored(c)' <=> Stored(c)
  <2>1. ~Stored(Here)
    BY <1>2, <1>10 DEF ScanInv
  <2>2. place' = [place EXCEPT ![Here] = "local"] /\ place \in [Cards -> Places]
    BY DEF Init_device_io, Types, TypeOK, Places
  <2> QED BY <2>1, <2>2 DEF Stored
<1>12. Types'
  <2>1. place' \in [Cards -> Places]
    BY DEF Init_device_io, Types, TypeOK, Places
  <2>2. TypeOK'
    BY <1>1, <1>2, <1>3, <2>1 DEF Types, TypeOK, Descriptors, Places
  <2> QED BY <1>3, <1>8, <2>2 DEF Types
<1>13. ScanInv'
  <2>1. \A c \in mastering' : devices'[c] # "other"
    BY <1>2, <1>3 DEF ScanInv
  <2>2. \A c \in Cards : nic'[c].rst => pc' = "reset" /\ c = Here'
    BY <1>1, <1>4, <1>9 DEF ScanInv
  <2>3. ~Scanning' => slot' = 0
    BY <1>1, <1>4
  <2> QED BY <1>1, <1>4, <1>5, <1>9, <1>11, <2>1, <2>2, <2>3 DEF ScanInv
<1>14. SendInv' /\ WireIsGiven'
  <2>1. \A c \in Cards, d \in Descriptors : nic'[c].own[d]
    BY <1>1, <1>9, OwnInScan
  <2> QED BY <1>1, <1>3, <2>1, SendInScan
<1> QED BY <1>12, <1>13, <1>14

\* A step of init changes the registers of the card the scan is at.
LEMMA InitStays ==
  ASSUME NetworkInv, InInit, InInit', UNCHANGED <<scanVars, place, ramVars, wire>>,
         NEW r \in Regs, nic' = [nic EXCEPT ![Here] = r],
         \A d \in Descriptors : r.own[d],
         r.te /\ r.re <=> pc' = "move",
         r.rst => pc' = "reset"
  PROVE  NetworkInv'
<1> USE DEF NetworkInv
<1>1. InScan /\ InScan' /\ Scanning /\ Found("rtl8139_io")
  BY DEF InInit, InScan, ScanInv
<1>2. Here \in DOMAIN devices /\ Here \in Cards
  BY <1>1 DEF Found, Types
<1>3. UNCHANGED <<devices, bus, slot, mastering, place, tx_index, given, memory, wire>>
  BY DEF scanVars, ramVars
<1>4. /\ Here' = Here /\ (Scanning' <=> Scanning) /\ (Found("rtl8139_io"))'
      /\ \A c \in Cards : Stored(c)' <=> Stored(c)
  BY <1>1, <1>3 DEF Here, Scanning, Found, Stored
<1>5. Met' = Met
  BY <1>3, <1>4 DEF Met
<1>6. /\ nic' \in [Cards -> Regs] /\ nic'[Here] = r
      /\ \A c \in Cards : c # Here => nic'[c] = nic[c]
  BY <1>2, RegsType
<1>7. Types'
  <2>1. TypeOK'
    BY <1>3 DEF Types, TypeOK, InInit
  <2> QED BY <1>3, <1>6, <2>1 DEF Types
<1>8. Here \notin Met
  BY HereIsNotBefore DEF Met, Types
<1>9. \A c \in Cards : nic'[c].te /\ nic'[c].re <=> c \in Met \/ (pc' = "move" /\ c = Here)
  BY <1>6, <1>8 DEF ScanInv
<1>10. \A c \in Cards : nic'[c].rst => pc' = "reset" /\ c = Here
  BY <1>6 DEF ScanInv
<1>11. ScanInv'
  BY <1>1, <1>3, <1>4, <1>5, <1>9, <1>10 DEF ScanInv
<1>12. SendInv' /\ WireIsGiven'
  <2>1. \A c \in Cards, d \in Descriptors : nic'[c].own[d]
    BY <1>1, <1>6, OwnInScan
  <2> QED BY <1>1, <1>3, <2>1, SendInScan
<1> QED BY <1>7, <1>11, <1>12

\* The registers of the card that is being initialised.
LEMMA RegsInInit ==
  ASSUME NetworkInv, InInit
  PROVE  /\ Here \in Cards /\ nic[Here] \in Regs
         /\ \A d \in Descriptors : nic[Here].own[d]
         /\ pc # "move" => ~(nic[Here].te /\ nic[Here].re)
<1> USE DEF NetworkInv
<1>1. Here \in Cards /\ nic[Here] \in Regs
  BY DEF ScanInv, Found, Types
<1>2. \A d \in Descriptors : nic[Here].own[d]
  BY <1>1, OwnInScan DEF InInit, InScan
<1>3. Here \notin Met
  BY HereIsNotBefore DEF Met, Types
<1> QED BY <1>1, <1>2, <1>3 DEF ScanInv

LEMMA ResetCompleteStep == NetworkInv /\ Reset_complete => NetworkInv'
<1> SUFFICES ASSUME NetworkInv, Reset_complete PROVE NetworkInv'
  OBVIOUS
<1>1. pc = "reset" /\ pc' = "rx" /\ InInit /\ InInit'
  BY DEF Reset_complete, At, InInit
<1>2. nic' = [nic EXCEPT ![Here] = nic[Here]]
  BY DEF Reset_complete, NetworkInv, Types
<1>3. ~nic[Here].rst /\ UNCHANGED <<scanVars, place, ramVars, wire>>
  BY DEF Reset_complete
<1> QED BY <1>1, <1>2, <1>3, RegsInInit, InitStays

LEMMA SetRxBufferStep == NetworkInv /\ RxInv /\ Set_rx_buffer => NetworkInv'
<1> SUFFICES ASSUME NetworkInv, RxInv, Set_rx_buffer PROVE NetworkInv'
  OBVIOUS
<1>1. pc = "rx" /\ pc' = "enable" /\ InInit /\ InInit'
  BY DEF Set_rx_buffer, At, InInit
<1> DEFINE a == RxAt[place[Here]] % AddrLimit
           r == [nic[Here] EXCEPT !.rbstart = a]
<1>2. Here \in Cards /\ nic[Here] \in Regs
  BY <1>1, RegsInInit
<1>3. a \in Nat
  BY <1>1, RxStartType DEF RxInv, RxStart
<1>4. /\ r \in Regs /\ r.own = nic[Here].own /\ r.te = nic[Here].te /\ r.re = nic[Here].re
      /\ r.rst = nic[Here].rst
  BY <1>2, <1>3 DEF Regs
<1>5. nic' = [nic EXCEPT ![Here] = r] /\ UNCHANGED <<scanVars, place, ramVars, wire>>
  BY <1>2 DEF Set_rx_buffer, NetworkInv, Types
<1>6. ~nic[Here].rst
  BY <1>1, <1>2 DEF NetworkInv, ScanInv
<1> HIDE DEF r, a
<1>7. /\ \A d \in Descriptors : r.own[d]
      /\ r.te /\ r.re <=> pc' = "move"
      /\ r.rst => pc' = "reset"
  BY <1>1, <1>4, <1>6, RegsInInit
<1> QED BY <1>1, <1>4, <1>5, <1>7, InitStays

LEMMA EnableStep == NetworkInv /\ Enable => NetworkInv'
<1> SUFFICES ASSUME NetworkInv, Enable PROVE NetworkInv'
  OBVIOUS
<1>1. pc = "enable" /\ pc' = "move" /\ InInit /\ InInit'
  BY DEF Enable, At, InInit
<1> DEFINE r == Enabled(nic[Here])
<1>2. Here \in Cards /\ nic[Here] \in Regs
  BY <1>1, RegsInInit
<1>4. r \in Regs /\ r.own = nic[Here].own /\ r.te /\ r.re /\ r.rst = nic[Here].rst
  BY <1>2 DEF Regs, Enabled
<1>5. nic' = [nic EXCEPT ![Here] = r] /\ UNCHANGED <<scanVars, place, ramVars, wire>>
  BY <1>2 DEF Enable, NetworkInv, Types
<1>6. ~nic[Here].rst
  BY <1>1, <1>2 DEF NetworkInv, ScanInv
<1> HIDE DEF r
<1>7. /\ \A d \in Descriptors : r.own[d]
      /\ r.te /\ r.re <=> pc' = "move"
      /\ r.rst => pc' = "reset"
  BY <1>1, <1>4, <1>6, RegsInInit
<1> QED BY <1>1, <1>4, <1>5, <1>7, InitStays

\* The card the scan leaves is after all it has met: its driver is stored.
LEMMA MoveStep == NetworkInv /\ Move => NetworkInv'
<1> SUFFICES ASSUME NetworkInv, Move PROVE NetworkInv'
  OBVIOUS
<1> USE DEF NetworkInv
<1>1. pc = "move" /\ pc' = "scan" /\ InScan /\ InScan' /\ InInit /\ ~InInit'
  BY DEF Move, At, InScan, InInit
<1>2. Scanning /\ Found("rtl8139_io") /\ Here \in Cards
  BY <1>1, RegsInInit DEF ScanInv
<1>3. Advance /\ UNCHANGED <<devices, mastering, nic, tx_index, given, memory, wire>>
  BY DEF Move, ramVars
<1>4. bus' \in 0 .. BusLimit /\ slot' \in 0 .. Slots - 1 /\ (~Scanning' => slot' = 0)
  BY <1>2, <1>3, AdvanceStep DEF Types
<1>5. \A c \in Cards : c \in Met' <=> c \in Met \/ c = Here
  BY <1>2, <1>3, MetStep
<1>6. Met \subseteq Cards /\ Met' = Met \cup {Here}
  <2>1. Met \subseteq Cards /\ Met' \subseteq Cards
    BY <1>3 DEF Met, Types
  <2> QED BY <1>2, <1>5, <2>1
<1>7. Types'
  <2>1. place' \in [Cards -> Places]
    BY DEF Move, Types, TypeOK, Places
  <2>2. TypeOK'
    BY <1>1, <1>3, <1>4, <2>1 DEF Types, TypeOK, Places
  <2> QED BY <1>3, <2>2 DEF Types
<1>8. ~Before(Here, Here) /\ \A c \in Met : Before(c, Here) /\ ~Before(Here, c)
  BY <1>6, HereIsNotBefore DEF Met, Types
<1>9. \A c \in Cards : Stored(c)' <=> c = Here
  BY DEF Move, Stored
<1>10. \A c \in Cards : c = Here <=> c \in Met \cup {Here} /\ ~\E d \in Met \cup {Here} : Before(c, d)
  BY <1>2, <1>8
<1>11. ScanInv'
  <2>1. \A c \in Cards : nic'[c].te /\ nic'[c].re <=> c \in Met'
    BY <1>1, <1>3, <1>5 DEF ScanInv
  <2>2. \A c \in Cards : Stored(c)' <=> c \in Met' /\ ~\E d \in Met' : Before(c, d)
    BY <1>6, <1>9, <1>10
  <2>3. \A c \in Cards : ~nic'[c].rst
    BY <1>1, <1>3 DEF ScanInv
  <2>4. \A c \in mastering' : devices'[c] # "other"
    BY <1>3 DEF ScanInv
  <2> QED BY <1>1, <1>4, <2>1, <2>2, <2>3, <2>4 DEF ScanInv
<1>12. SendInv' /\ WireIsGiven'
  BY <1>1, <1>3, OwnInScan, SendInScan
<1> QED BY <1>7, <1>11, <1>12

LEMMA ScanDoneStep == NetworkInv /\ Scan_done => NetworkInv'
<1> SUFFICES ASSUME NetworkInv, Scan_done PROVE NetworkInv'
  OBVIOUS
<1> USE DEF NetworkInv
<1>1. pc = "scan" /\ pc' = "idle" /\ InScan /\ ~InScan' /\ ~InInit' /\ ~Scanning
  BY DEF Scan_done, At, InScan, InInit
<1>2. UNCHANGED <<devices, bus, slot, mastering, place, nic, tx_index, given, memory, wire>>
  BY DEF Scan_done, scanVars, ramVars
<1>3. /\ Here' = Here /\ (Scanning' <=> Scanning)
      /\ \A c \in Cards : Stored(c)' <=> Stored(c)
  BY <1>2 DEF Here, Scanning, Stored
<1>4. Met' = Met
  BY <1>2, <1>3 DEF Met
<1>5. Types'
  BY <1>1, <1>2 DEF Types, TypeOK
<1>6. ScanInv'
  BY <1>1, <1>2, <1>3, <1>4 DEF ScanInv
<1>7. SendInv' /\ WireIsGiven'
  BY <1>1, <1>2, OwnInScan, SendInScan
<1> QED BY <1>5, <1>6, <1>7

-----------------------------------------------------------------------------
(***************************************************************************)
(* send_packet.                                                            *)
(***************************************************************************)
\* RTL8139 holds one driver.
LEMMA OneIsStored ==
  ASSUME Types, ScanInv, NEW c \in Cards, NEW e \in Cards, Stored(c), Stored(e)
  PROVE  c = e
<1>1. c \in Met /\ e \in Met /\ ~Before(c, e) /\ ~Before(e, c)
  BY DEF ScanInv
<1>2. /\ c[1] \in Nat /\ c[2] \in Nat /\ c = <<c[1], c[2]>>
      /\ e[1] \in Nat /\ e[2] \in Nat /\ e = <<e[1], e[2]>>
  BY Constants
<1>3. c[1] = e[1] /\ c[2] = e[2]
  BY <1>1, <1>2 DEF Before
<1> QED BY <1>2, <1>3

LEMMA LastIsBuffer ==
  ASSUME Types, Len(given) >= 1
  PROVE  Last \in Buffers /\ Len(given) \in Nat /\ Len(given) \in 1 .. Len(given)
BY DEF Types, TypeOK, Last

\* The bytes of a packet land one behind the other where a card can reach them.
LEMMA SendStep == ASSUME NEW v \in Buffers PROVE NetworkInv /\ Send(v) => NetworkInv'
<1> SUFFICES ASSUME NetworkInv, Send(v) PROVE NetworkInv'
  OBVIOUS
<1> USE DEF NetworkInv
<1>1. pc = "idle" /\ pc' = "tsad" /\ ~InScan /\ ~InScan' /\ Len(given) < MaxSends
  BY DEF Send, At, InScan
<1>2. /\ UNCHANGED <<devices, bus, slot, mastering, place, tx_index, nic, wire>>
      /\ given' = Append(given, v)
  BY DEF Send, scanVars
<1>3. given \in Seq(Buffers) /\ Len(given) \in Nat /\ MaxSends \in Nat
  BY Constants DEF Types, TypeOK
<1>4. /\ given' \in Seq(Buffers) /\ Len(given') = Len(given) + 1 /\ given'[Len(given')] = v
      /\ \A i \in 1 .. Len(given) : given'[i] = given[i]
  BY <1>2, <1>3
<1> DEFINE n == Len(given')
<1>5. memory \in [Ram -> Cells] /\ n \in Nat
  BY <1>3, <1>4 DEF Types
<1>6. memory' = [a \in Ram |-> IF \E k \in Bytes : a = Phys(v + k)
                    THEN Packet(n)[CHOOSE k \in Bytes : a = Phys(v + k)]
                    ELSE memory[a]]
  BY <1>5 DEF Send
<1> HIDE DEF n
<1>7. memory' \in [Ram -> Cells]
  <2>1. ASSUME NEW k \in Bytes PROVE Packet(n)[k] \in Cells
    BY <1>5, Constants DEF Packet, Cells
  <2>2. ASSUME NEW a \in Ram PROVE memory'[a] \in Cells
    <3>1. CASE \E k \in Bytes : a = Phys(v + k)
      <4>1. (CHOOSE k \in Bytes : a = Phys(v + k)) \in Bytes
        BY <3>1
      <4> QED BY <1>6, <2>1, <3>1, <4>1
    <3>2. CASE ~\E k \in Bytes : a = Phys(v + k)
      BY <1>5, <1>6, <3>2
    <3> QED BY <3>1, <3>2
  <2> QED BY <1>6, <2>2
<1>8. ASSUME Reachable(v), NEW k \in Bytes
      PROVE  memory'[Phys(v) + k] = <<n, k>>
  <2>1. Phys(v) + k \in Ram /\ Phys(v) + k = Phys(v + k) /\ Phys(v) \in Nat
    BY <1>8, PhysType DEF Reachable, Undisturbed, Ram
  <2>2. ASSUME NEW j \in Bytes, Phys(v) + k = Phys(v + j) PROVE j = k
    <3>1. Phys(v + j) = Phys(v) + j /\ j \in Nat /\ k \in Nat
      BY <1>8, Constants DEF Reachable, Undisturbed
    <3> QED BY <2>1, <2>2, <3>1
  <2>3. (CHOOSE j \in Bytes : Phys(v) + k = Phys(v + j)) = k
    BY <2>1, <2>2
  <2>4. Packet(n)[k] = <<n, k>>
    BY DEF Packet
  <2> QED BY <1>6, <2>1, <2>3, <2>4
<1>9. Types'
  <2>1. TypeOK'
    BY <1>1, <1>2, <1>3, <1>4 DEF Types, TypeOK
  <2> QED BY <1>2, <1>7, <2>1 DEF Types
<1>10. ScanInv'
  BY <1>1, <1>2, ScanKept
<1>11. Len(wire) = Len(given) /\ \A c \in Cards, d \in Descriptors : nic[c].own[d]
  BY <1>1 DEF SendInv
<1>12. Loaded'
  BY <1>4, <1>8 DEF Loaded, Last, Reachable, Undisturbed, n
<1>13. OnItsWay'
  BY <1>2, <1>3, <1>4, <1>11, <1>12 DEF OnItsWay
<1>14. SendInv'
  BY <1>1, <1>2, <1>11, <1>13 DEF SendInv
<1>15. WireIsGiven'
  <2>1. Len(wire') <= Len(given')
    BY <1>2, <1>3, <1>4, <1>11
  <2>2. ASSUME NEW i \in 1 .. Len(wire'), Reachable(given'[i]), Undisturbed(given'[i])
        PROVE  wire'[i] = Packet(i)
    <3>1. i \in 1 .. Len(wire) /\ given'[i] = given[i]
      BY <1>2, <1>4, <1>11
    <3> QED BY <1>2, <2>2, <3>1 DEF WireIsGiven
  <2> QED BY <2>1, <2>2 DEF WireIsGiven, Reachable, Undisturbed
<1> QED BY <1>9, <1>10, <1>14, <1>15

\* A register of card c changes after the scan, and no flag of the command
\* register.
LEMMA RegisterTypes ==
  ASSUME NetworkInv, ~InScan, ~InScan', pc' \in {"idle", "tsad", "tsd", "wait"},
         UNCHANGED <<scanVars, place, ramVars>>, wire' \in Seq([Bytes -> Cells]),
         NEW c \in Cards, NEW r \in Regs, nic' = [nic EXCEPT ![c] = r],
         r.te = nic[c].te, r.re = nic[c].re, r.rst = nic[c].rst
  PROVE  /\ Types' /\ ScanInv' /\ nic'[c] = r
         /\ \A e \in Cards : e # c => nic'[e] = nic[e]
         /\ \A e \in Cards : Stored(e)' <=> Stored(e)
<1> USE DEF NetworkInv
<1>1. UNCHANGED <<devices, bus, slot, mastering, place, tx_index, given, memory>>
  BY DEF scanVars, ramVars
<1>2. /\ nic' \in [Cards -> Regs] /\ nic'[c] = r
      /\ \A e \in Cards : e # c => nic'[e] = nic[e]
  BY RegsType
<1>3. TypeOK'
  BY <1>1 DEF Types, TypeOK
<1>4. Types'
  BY <1>1, <1>2, <1>3 DEF Types
<1>5. \A e \in Cards : /\ nic'[e].te = nic[e].te /\ nic'[e].re = nic[e].re
                       /\ nic'[e].rst = nic[e].rst
  BY <1>2
<1>6. ScanInv'
  BY <1>1, <1>5, ScanKept
<1>7. \A e \in Cards : Stored(e)' <=> Stored(e)
  BY <1>1 DEF Stored
<1> QED BY <1>2, <1>4, <1>6, <1>7

\* What is on the wire stays right when nothing is given or sent.
LEMMA WireKept ==
  ASSUME WireIsGiven, UNCHANGED <<given, wire>>
  PROVE  WireIsGiven'
BY DEF WireIsGiven, Reachable, Undisturbed

LEMMA WayKept ==
  ASSUME OnItsWay, UNCHANGED <<given, wire, memory>>
  PROVE  OnItsWay' /\ Last' = Last
BY DEF OnItsWay, Loaded, Last, Reachable, Undisturbed

LEMMA WriteTsadStep == ASSUME NEW c \in Cards PROVE NetworkInv /\ Write_tsad(c) => NetworkInv'
<1> SUFFICES ASSUME NetworkInv, Write_tsad(c) PROVE NetworkInv'
  OBVIOUS
<1> USE DEF NetworkInv
<1>1. pc = "tsad" /\ pc' = "tsd" /\ ~InScan /\ ~InScan' /\ Stored(c)
  BY DEF Write_tsad, At, InScan
<1>2. /\ UNCHANGED <<scanVars, place, ramVars, wire>>
      /\ UNCHANGED <<tx_index, given, memory, wire>>
  BY DEF Write_tsad, ramVars
<1>3. OnItsWay
  BY <1>1 DEF SendInv
<1>4. Last \in Buffers /\ tx_index \in Descriptors /\ nic[c] \in Regs
  BY <1>3, LastIsBuffer DEF OnItsWay, Types, TypeOK
<1> DEFINE a == Virt_to_phys(Last)
<1>5. a \in Nat
  BY <1>4, PhysType
<1>6. nic' = [nic EXCEPT ![c].tsad[tx_index] = a]
  BY DEF Write_tsad, Last
<1> HIDE DEF a
<1> DEFINE r == [nic[c] EXCEPT !.tsad[tx_index] = a]
<1>7. nic' = [nic EXCEPT ![c] = r]
  BY <1>6 DEF Types
<1>8. /\ r \in Regs /\ r.own = nic[c].own /\ r.tsad[tx_index] = a
      /\ r.te = nic[c].te /\ r.re = nic[c].re /\ r.rst = nic[c].rst
  BY <1>4, <1>5 DEF Regs
<1> HIDE DEF r
<1>9. /\ Types' /\ ScanInv' /\ nic'[c] = r
      /\ \A e \in Cards : e # c => nic'[e] = nic[e]
      /\ \A e \in Cards : Stored(e)' <=> Stored(e)
  BY <1>1, <1>2, <1>7, <1>8, RegisterTypes DEF Types
<1>10. \A e \in Cards, d \in Descriptors : nic'[e].own[d]
  BY <1>1, <1>8, <1>9 DEF SendInv
<1>11. OnItsWay' /\ Last' = Last
  BY <1>2, <1>3, WayKept
<1>12. \A e \in Cards : Stored(e)' => Described(e)'
  BY <1>1, <1>2, <1>8, <1>9, <1>11, OneIsStored DEF Described, Virt_to_phys, a
<1>13. SendInv'
  BY <1>1, <1>10, <1>11, <1>12 DEF SendInv
<1> QED BY <1>2, <1>9, <1>13, WireKept

LEMMA WriteTsdStep == ASSUME NEW c \in Cards PROVE NetworkInv /\ Write_tsd(c) => NetworkInv'
<1> SUFFICES ASSUME NetworkInv, Write_tsd(c) PROVE NetworkInv'
  OBVIOUS
<1> USE DEF NetworkInv
<1>1. pc = "tsd" /\ pc' = "wait" /\ ~InScan /\ ~InScan' /\ Stored(c)
  BY DEF Write_tsd, At, InScan
<1>2. /\ UNCHANGED <<scanVars, place, ramVars, wire>>
      /\ UNCHANGED <<tx_index, given, memory, wire>>
  BY DEF Write_tsd, ramVars
<1>3. OnItsWay /\ Described(c)
  BY <1>1 DEF SendInv
<1>4. tx_index \in Descriptors /\ nic[c] \in Regs
  BY DEF Types, TypeOK
<1> DEFINE r == [nic[c] EXCEPT !.own[tx_index] = FALSE]
<1>5. nic' = [nic EXCEPT ![c] = r]
  BY DEF Types, Write_tsd
<1>6. /\ r \in Regs /\ r.tsad = nic[c].tsad /\ ~r.own[tx_index]
      /\ r.te = nic[c].te /\ r.re = nic[c].re /\ r.rst = nic[c].rst
      /\ \A d \in Descriptors : d # tx_index => r.own[d] = nic[c].own[d]
  BY <1>4 DEF Regs
<1> HIDE DEF r
<1>7. /\ Types' /\ ScanInv' /\ nic'[c] = r
      /\ \A e \in Cards : e # c => nic'[e] = nic[e]
      /\ \A e \in Cards : Stored(e)' <=> Stored(e)
  BY <1>1, <1>2, <1>5, <1>6, RegisterTypes DEF Types
<1>8. \A e \in Cards, d \in Descriptors : nic[e].own[d]
  BY <1>1 DEF SendInv
<1>9. \A e \in Cards, d \in Descriptors : ~nic'[e].own[d] => e = c /\ d = tx_index
  BY <1>6, <1>7, <1>8
<1>10. OnItsWay' /\ Last' = Last
  BY <1>2, <1>3, WayKept
<1>11. \A e \in Cards : Stored(e) => e = c
  BY <1>1, OneIsStored
<1>12. Described(c)'
  BY <1>2, <1>3, <1>6, <1>7, <1>10 DEF Described, Virt_to_phys
<1>13. ~nic'[c].own[tx_index]
  BY <1>6, <1>7
<1>14. SendInv'
  BY <1>1, <1>2, <1>7, <1>9, <1>10, <1>11, <1>12, <1>13 DEF SendInv, InScan
<1> QED BY <1>2, <1>7, <1>14, WireKept

LEMMA WaitStep == ASSUME NEW c \in Cards PROVE NetworkInv /\ Wait(c) => NetworkInv'
<1> SUFFICES ASSUME NetworkInv, Wait(c) PROVE NetworkInv'
  OBVIOUS
<1> USE DEF NetworkInv
<1>1. pc = "wait" /\ pc' = "idle" /\ ~InScan /\ ~InScan' /\ Stored(c) /\ nic[c].own[tx_index]
  BY DEF Wait, At, InScan, Sent
<1>2. UNCHANGED <<devices, bus, slot, mastering, place, nic, given, memory, wire>>
  BY DEF Wait, scanVars
<1>3. tx_index \in Descriptors /\ tx_index' \in Descriptors
  BY DEF Wait, Next_tx, Types, TypeOK, Descriptors
<1>4. Types'
  BY <1>1, <1>2, <1>3 DEF Types, TypeOK
<1>5. ScanInv'
  BY <1>1, <1>2, ScanKept
<1>6. Len(wire) = Len(given)
  BY <1>1 DEF SendInv
<1>7. \A e \in Cards, d \in Descriptors : nic[e].own[d]
  BY <1>1, OneIsStored DEF SendInv
<1>8. SendInv'
  BY <1>1, <1>2, <1>6, <1>7 DEF SendInv
<1> QED BY <1>2, <1>4, <1>5, <1>8, WireKept

-----------------------------------------------------------------------------
(***************************************************************************)
(* The cards.                                                              *)
(***************************************************************************)
LEMMA CardResetStep == ASSUME NEW c \in Cards PROVE NetworkInv /\ Card_reset(c) => NetworkInv'
<1> SUFFICES ASSUME NetworkInv, Card_reset(c) PROVE NetworkInv'
  OBVIOUS
<1>1. pc = "reset" /\ c = Here
  BY DEF NetworkInv, ScanInv, Card_reset
<1>2. pc' = "reset" /\ InInit /\ InInit'
  BY <1>1 DEF Card_reset, InInit
<1>3. nic' = [nic EXCEPT ![Here] = ResetRegs] /\ UNCHANGED <<scanVars, place, ramVars, wire>>
  BY <1>1 DEF Card_reset
<1> QED BY <1>2, <1>3, ResetType, InitStays

\* Only the packet that send_packet waits for can be sent, and it is the next.
LEMMA TransmitStep ==
  ASSUME NEW c \in Cards, NEW d \in Descriptors
  PROVE  NetworkInv /\ Transmit(c, d) => NetworkInv'
<1> SUFFICES ASSUME NetworkInv, Transmit(c, d) PROVE NetworkInv'
  OBVIOUS
<1> USE DEF NetworkInv
<1>1. ~nic[c].own[d]
  BY DEF Transmit
<1>2. pc = "wait" /\ pc' = "wait" /\ Stored(c) /\ d = tx_index /\ ~InScan /\ ~InScan'
  BY <1>1 DEF Transmit, SendInv, InScan
<1>3. /\ UNCHANGED <<scanVars, place, ramVars>>
      /\ UNCHANGED <<tx_index, given, memory>>
  BY DEF Transmit, ramVars
<1>4. OnItsWay /\ Described(c)
  BY <1>1, <1>2 DEF SendInv
<1>5. Last \in Buffers /\ tx_index \in Descriptors /\ nic[c] \in Regs /\ Len(given) \in Nat
  BY <1>4, LastIsBuffer DEF OnItsWay, Types, TypeOK
<1> DEFINE p == Dma(nic[c].tsad[d])
<1>6. wire' = Append(wire, p) /\ wire \in Seq([Bytes -> Cells]) /\ p \in [Bytes -> Cells]
  BY DmaType DEF Transmit, Types
<1>7. Reachable(Last) /\ Undisturbed(Last) => p = Packet(Len(given))
  <2>1. p = Dma(Virt_to_phys(Last))
    BY <1>2, <1>4 DEF Described
  <2> QED BY <1>4, <1>5, <2>1, DmaReads DEF OnItsWay, Loaded, Types
<1> HIDE DEF p
<1>8. /\ wire' \in Seq([Bytes -> Cells]) /\ Len(wire') = Len(wire) + 1 /\ Len(wire) \in Nat
      /\ wire'[Len(wire) + 1] = p /\ \A i \in 1 .. Len(wire) : wire'[i] = wire[i]
  BY <1>6
<1>9. Len(wire') = Len(given)
  BY <1>4, <1>8 DEF OnItsWay
<1> DEFINE r == [nic[c] EXCEPT !.own[d] = TRUE]
<1>10. nic' = [nic EXCEPT ![c] = r]
  BY DEF Types, Transmit
<1>11. /\ r \in Regs /\ r.own[d]
       /\ r.te = nic[c].te /\ r.re = nic[c].re /\ r.rst = nic[c].rst
       /\ \A f \in Descriptors : f # d => r.own[f] = nic[c].own[f]
  BY <1>5 DEF Regs
<1> HIDE DEF r
<1>12. /\ Types' /\ ScanInv' /\ nic'[c] = r
       /\ \A e \in Cards : e # c => nic'[e] = nic[e]
       /\ \A e \in Cards : Stored(e)' <=> Stored(e)
  BY <1>2, <1>3, <1>8, <1>10, <1>11, RegisterTypes
<1>13. \A e \in Cards : Stored(e) => e = c
  BY <1>2, OneIsStored
<1>14. \A e \in Cards, f \in Descriptors : nic'[e].own[f]
  <2>1. \A e \in Cards, f \in Descriptors : ~nic[e].own[f] => e = c /\ f = d
    BY <1>2, <1>13 DEF SendInv
  <2> QED BY <1>11, <1>12, <2>1
<1>15. SendInv'
  BY <1>2, <1>3, <1>5, <1>9, <1>14 DEF SendInv
<1>16. WireIsGiven'
  <2>1. Len(wire') <= Len(given')
    BY <1>3, <1>5, <1>9
  <2>2. ASSUME NEW i \in 1 .. Len(wire'), Reachable(given[i]), Undisturbed(given[i])
        PROVE  wire'[i] = Packet(i)
    <3>1. CASE i \in 1 .. Len(wire)
      BY <1>8, <2>2, <3>1 DEF WireIsGiven
    <3>2. CASE i = Len(wire) + 1
      <4>1. i = Len(given)
        BY <1>8, <1>9, <3>2
      <4> QED BY <1>7, <1>8, <2>2, <3>2, <4>1 DEF Last
    <3> QED BY <1>8, <3>1, <3>2
  <2> QED BY <1>3, <2>1, <2>2 DEF WireIsGiven, Reachable, Undisturbed
<1> QED BY <1>12, <1>15, <1>16

\* The invariant speaks of no byte that the receive buffer covers.
LEMMA MemoryStep ==
  ASSUME NetworkInv,
         UNCHANGED <<devices, bus, slot, mastering, pc, place, tx_index, given, nic, wire>>,
         memory' \in [Ram -> Cells],
         \A a \in Ram \ Stray : memory'[a] = memory[a]
  PROVE  NetworkInv'
<1> USE DEF NetworkInv
<1>1. Types'
  BY DEF Types, TypeOK
<1>2. /\ Here' = Here /\ (Scanning' <=> Scanning)
      /\ (InScan' <=> InScan) /\ (InInit' <=> InInit)
      /\ (Found("rtl8139_io"))' = Found("rtl8139_io")
      /\ \A c \in Cards : Stored(c)' <=> Stored(c)
  BY DEF Here, Scanning, Stored, InScan, InInit, Found
<1>3. Met' = Met
  BY <1>2 DEF Met
<1>4. ScanInv'
  BY <1>2, <1>3 DEF ScanInv
<1>5. Last' = Last /\ \A c \in Cards : Described(c)' = Described(c)
  BY DEF Last, Described, Virt_to_phys
<1>6. ASSUME OnItsWay PROVE OnItsWay'
  <2>1. Last \in Buffers
    BY <1>6, LastIsBuffer DEF OnItsWay
  <2>2. ASSUME Reachable(Last), Undisturbed(Last), NEW k \in Bytes
        PROVE  memory'[Phys(Last) + k] = <<Len(given), k>>
    <3>1. Phys(Last) + k = Phys(Last + k)
      BY <2>2 DEF Reachable
    <3>2. Phys(Last + k) \in Ram \ Stray
      BY <2>1, <2>2 DEF Ram, Undisturbed
    <3>3. memory[Phys(Last) + k] = <<Len(given), k>>
      BY <1>6, <2>2 DEF OnItsWay, Loaded
    <3> QED BY <3>1, <3>2, <3>3
  <2>3. Loaded'
    BY <1>5, <2>2 DEF Loaded, Reachable, Undisturbed
  <2> QED BY <1>6, <2>3 DEF OnItsWay
<1>7. SendInv'
  BY <1>2, <1>5, <1>6 DEF SendInv
<1> QED BY <1>1, <1>4, <1>7, WireKept

LEMMA StutterStep ==
  ASSUME NetworkInv,
         UNCHANGED <<devices, bus, slot, mastering, pc, place, tx_index, given, memory, nic, wire>>
  PROVE  NetworkInv'
<1>1. memory' = memory /\ memory \in [Ram -> Cells]
  BY DEF NetworkInv, Types
<1> QED BY <1>1, MemoryStep

\* A received packet changes only bytes that the receive buffer covers.
LEMMA ReceiveWrites ==
  ASSUME NetworkInv, RxInv, NEW c \in Cards, NEW o \in 0 .. RxSpan - PacketLen, Receive(c, o)
  PROVE  /\ memory' \in [Ram -> Cells]
         /\ \A a \in Ram \ Stray : memory'[a] = memory[a]
<1>1. memory \in [Ram -> Cells] /\ Arrived \in Cells
  BY DEF NetworkInv, Types, Arrived, Cells
<1>2. nic[c].rbstart = RxStart
  BY DEF RxInv, Receive
<1>3. memory' = [a \in Ram |-> IF \E k \in Bytes : a = Bus(RxStart + o + k)
                                 THEN Arrived ELSE memory[a]]
  BY <1>1, <1>2 DEF Receive
<1>4. ASSUME NEW k \in Bytes PROVE Bus(RxStart + o + k) \in Stray
  <2>1. RxStart \in Nat /\ RxSpan \in Nat /\ PacketLen \in Nat /\ k \in 0 .. PacketLen - 1
    BY RxStartType, NetworkAssumption, Constants DEF Bytes
  <2>2. o + k \in 0 .. RxSpan - 1 /\ RxStart + o + k = RxStart + (o + k)
    BY <2>1
  <2> QED BY <2>2 DEF Stray, RxStart
<1>5. memory' \in [Ram -> Cells]
  BY <1>1, <1>3
<1> QED BY <1>3, <1>4, <1>5

LEMMA ReceiveStep ==
  ASSUME NEW c \in Cards, NEW o \in 0 .. RxSpan - PacketLen
  PROVE  NetworkInv /\ RxInv /\ Receive(c, o) => NetworkInv'
<1> SUFFICES ASSUME NetworkInv, RxInv, Receive(c, o) PROVE NetworkInv'
  OBVIOUS
<1>1. UNCHANGED <<devices, bus, slot, mastering, pc, place, tx_index, given, nic, wire>>
  BY DEF Receive, scanVars
<1> QED BY <1>1, ReceiveWrites, MemoryStep

-----------------------------------------------------------------------------
(***************************************************************************)
(* The theorems.                                                           *)
(***************************************************************************)
LEMMA NextNetwork == NetworkInv /\ RxInv /\ [Next]_vars => NetworkInv'
<1> SUFFICES ASSUME NetworkInv, RxInv, [Next]_vars PROVE NetworkInv'
  OBVIOUS
<1>1. CASE Scan_other
  BY <1>1, ScanOtherStep
<1>2. CASE Init_device_mem
  BY <1>2, InitMemStep
<1>3. CASE Init_device_io
  BY <1>3, InitIoStep
<1>4. CASE Reset_complete
  BY <1>4, ResetCompleteStep
<1>5. CASE Set_rx_buffer
  BY <1>5, SetRxBufferStep
<1>6. CASE Enable
  BY <1>6, EnableStep
<1>7. CASE Move
  BY <1>7, MoveStep
<1>8. CASE Scan_done
  BY <1>8, ScanDoneStep
<1>9. CASE \E c \in Cards : Write_tsad(c) \/ Write_tsd(c) \/ Wait(c)
  BY <1>9, WriteTsadStep, WriteTsdStep, WaitStep
<1>10. CASE Halt \/ UNCHANGED vars
  BY <1>10, StutterStep DEF Halt, vars
<1>11. CASE \E v \in Buffers : Send(v)
  BY <1>11, SendStep
<1>12. CASE \E c \in Cards : Card(c)
  BY <1>12, CardResetStep, TransmitStep, ReceiveStep DEF Card
<1> QED BY <1>1, <1>2, <1>3, <1>4, <1>5, <1>6, <1>7, <1>8, <1>9, <1>10, <1>11, <1>12
        DEF Next, Cpu

LEMMA InitRx == Init => RxInv
<1> SUFFICES ASSUME Init PROVE RxInv
  OBVIOUS
<1>1. \A c \in Cards : ~nic[c].re
  BY ResetType DEF Init
<1>2. pc = "scan" /\ ~InInit
  BY DEF Init, InInit
<1> QED BY <1>1, <1>2 DEF RxInv

LEMMA RxKept ==
  ASSUME NetworkInv, RxInv,
         \A c \in Cards : nic'[c].re = nic[c].re /\ nic'[c].rbstart = nic[c].rbstart,
         InInit' => InInit /\ UNCHANGED <<bus, slot, place>>,
         pc' = "enable" => pc = "enable"
  PROVE  RxInv'
<1>1. InInit => Here \in Cards
  BY RegsInInit
<1>2. InInit' => Here' = Here
  BY DEF Here
<1>3. pc' = "enable" => InInit'
  BY DEF InInit
<1>4. InInit' => place'[Here'] = "local"
  BY <1>2 DEF RxInv
<1>5. pc' = "enable" => nic'[Here'].rbstart = RxStart
  BY <1>1, <1>2, <1>3 DEF RxInv
<1>6. \A c \in Cards : nic'[c].re => nic'[c].rbstart = RxStart
  BY DEF RxInv
<1> QED BY <1>4, <1>5, <1>6 DEF RxInv, RxStart

\* Receivers are switched on by init alone, after it has set RBSTART.
LEMMA NextRx == NetworkInv /\ RxInv /\ [Next]_vars => RxInv'
<1> SUFFICES ASSUME NetworkInv, RxInv, [Next]_vars PROVE RxInv'
  OBVIOUS
<1>1. /\ nic \in [Cards -> Regs] /\ place \in [Cards -> Places] /\ tx_index \in Descriptors
      /\ DOMAIN devices \subseteq Cards
  BY DEF NetworkInv, Types, TypeOK, Places
<1>2. CASE Scan_other \/ Init_device_mem \/ Move \/ Scan_done
  <2>1. nic' = nic /\ ~InInit' /\ pc' # "enable"
    BY <1>2 DEF Scan_other, Init_device_mem, Move, Scan_done, At, InInit
  <2> QED BY <2>1, RxKept
<1>3. CASE Init_device_io
  <2>1. /\ Here \in Cards /\ Here' = Here /\ pc' = "reset"
        /\ place' = [place EXCEPT ![Here] = "local"]
        /\ nic' = [nic EXCEPT ![Here].rst = TRUE]
    BY <1>1, <1>3 DEF Init_device_io, Found, Here
  <2>2. place'[Here'] = "local"
    BY <1>1, <2>1
  <2>3. \A c \in Cards : nic'[c].re = nic[c].re /\ nic'[c].rbstart = nic[c].rbstart
    BY <1>1, <2>1 DEF Regs
  <2> QED BY <2>1, <2>2, <2>3 DEF RxInv, RxStart
<1>4. CASE Reset_complete
  <2>1. nic' = nic /\ InInit /\ UNCHANGED <<bus, slot, place>> /\ pc' # "enable"
    BY <1>4 DEF Reset_complete, At, InInit, scanVars
  <2> QED BY <2>1, RxKept
<1>5. CASE Set_rx_buffer
  <2>1. /\ InInit /\ Here' = Here /\ place' = place /\ pc' = "enable"
        /\ nic' = [nic EXCEPT ![Here].rbstart = RxAt[place[Here]] % AddrLimit]
    BY <1>5 DEF Set_rx_buffer, At, InInit, scanVars, Here
  <2>2. Here \in Cards /\ place[Here] = "local"
    BY <2>1, RegsInInit DEF RxInv
  <2>3. /\ nic'[Here].rbstart = RxStart
        /\ \A c \in Cards : c # Here => nic'[c] = nic[c]
    BY <1>1, <2>1, <2>2 DEF Regs, RxStart
  <2>4. \A c \in Cards : nic'[c].re => nic'[c].rbstart = RxStart
    BY <2>3 DEF RxInv
  <2> QED BY <2>1, <2>2, <2>3, <2>4 DEF RxInv, RxStart
<1>6. CASE Enable
  <2>1. /\ InInit /\ Here' = Here /\ place' = place /\ pc = "enable" /\ pc' = "move"
        /\ nic' = [nic EXCEPT ![Here] = Enabled(nic[Here])]
    BY <1>1, <1>6 DEF Enable, At, InInit, scanVars, Here
  <2>2. Here \in Cards /\ place[Here] = "local" /\ nic[Here].rbstart = RxStart
    BY <2>1, RegsInInit DEF RxInv
  <2>3. /\ nic'[Here].rbstart = RxStart
        /\ \A c \in Cards : c # Here => nic'[c] = nic[c]
    BY <1>1, <2>1, <2>2 DEF Regs, Enabled
  <2>4. \A c \in Cards : nic'[c].re => nic'[c].rbstart = RxStart
    BY <2>3 DEF RxInv
  <2> QED BY <2>1, <2>2, <2>4 DEF RxInv, RxStart
<1>7. CASE \E c \in Cards : Write_tsad(c) \/ Write_tsd(c) \/ Wait(c)
  <2>1. PICK c \in Cards : Write_tsad(c) \/ Write_tsd(c) \/ Wait(c)
    BY <1>7
  <2>2. ~InInit' /\ pc' # "enable"
    BY <2>1 DEF Write_tsad, Write_tsd, Wait, InInit
  <2>3. \A e \in Cards : nic'[e].re = nic[e].re /\ nic'[e].rbstart = nic[e].rbstart
    BY <1>1, <2>1 DEF Write_tsad, Write_tsd, Wait, Regs
  <2> QED BY <2>2, <2>3, RxKept
<1>8. CASE Halt \/ UNCHANGED vars
  <2>1. UNCHANGED <<nic, bus, slot, place, pc>>
    BY <1>8 DEF Halt, vars
  <2>2. InInit' <=> InInit
    BY <2>1 DEF InInit
  <2> QED BY <2>1, <2>2, RxKept
<1>9. CASE \E v \in Buffers : Send(v)
  <2>1. nic' = nic /\ ~InInit' /\ pc' # "enable"
    BY <1>9 DEF Send, InInit
  <2> QED BY <2>1, RxKept
<1>10. ASSUME NEW c \in Cards, Card(c) PROVE RxInv'
  <2>1. UNCHANGED <<bus, slot, place, pc>>
    BY <1>10 DEF Card, Card_reset, Transmit, Receive, scanVars
  <2>2. InInit' <=> InInit
    BY <2>1 DEF InInit
  <2>3. CASE Card_reset(c)
    <3>1. pc = "reset" /\ InInit' /\ Here' = Here
      BY <2>1, <2>3 DEF NetworkInv, ScanInv, Card_reset, InInit, Here
    <3>2. ~nic'[c].re /\ \A e \in Cards : e # c => nic'[e] = nic[e]
      BY <1>1, <2>3, ResetType DEF Card_reset
    <3>3. \A e \in Cards : nic'[e].re => nic'[e].rbstart = RxStart
      BY <3>2 DEF RxInv
    <3> QED BY <2>1, <2>2, <3>1, <3>3 DEF RxInv, RxStart
  <2>4. CASE \E d \in Descriptors : Transmit(c, d)
    <3>1. \A e \in Cards : nic'[e].re = nic[e].re /\ nic'[e].rbstart = nic[e].rbstart
      BY <1>1, <2>4 DEF Transmit, Regs
    <3> QED BY <2>1, <2>2, <3>1, RxKept
  <2>5. CASE \E o \in 0 .. RxSpan - PacketLen : Receive(c, o)
    <3>1. nic' = nic
      BY <2>5 DEF Receive
    <3> QED BY <2>1, <2>2, <3>1, RxKept
  <2> QED BY <1>10, <2>3, <2>4, <2>5 DEF Card
<1> QED BY <1>2, <1>3, <1>4, <1>5, <1>6, <1>7, <1>8, <1>9, <1>10 DEF Next, Cpu

\* The scan and send_packet keep NetworkInv: the cards enabled are those the
\* scan has passed, the driver stored belongs to the last of them, and a
\* descriptor belongs to a card only while send_packet waits for its packet.
\* Every card that receives has RBSTART where the local driver was.
THEOREM NetworkIsInvariant == Spec => [](NetworkInv /\ RxInv)
<1>1. Init => NetworkInv /\ RxInv
  BY InitNetwork, InitRx
<1>2. NetworkInv /\ RxInv /\ [Next]_vars => (NetworkInv /\ RxInv)'
  BY NextNetwork, NextRx
<1> QED BY <1>1, <1>2, PTL DEF Spec

\* The loop counters, tx_index and the places of the drivers stay in their
\* ranges.
THEOREM NetworkTypeOK == Spec => []TypeOK
<1>1. NetworkInv => TypeOK
  BY DEF NetworkInv, Types
<1> QED BY <1>1, NetworkIsInvariant, PTL

\* Every packet goes over the wire once, in the order of the calls of
\* send_packet, and unchanged if the card can reach it.
THEOREM NetworkWireIsGiven == Spec => []WireIsGiven
<1>1. NetworkInv => WireIsGiven
  BY DEF NetworkInv
<1> QED BY <1>1, NetworkIsInvariant, PTL

\* When send_packet returns the packet is out.
THEOREM NetworkSentOnReturn == Spec => []SentOnReturn
<1>1. NetworkInv => SentOnReturn
  BY DEF NetworkInv, SendInv, SentOnReturn
<1> QED BY <1>1, NetworkIsInvariant, PTL

\* After the scan exactly the RTL8139s with an I/O BAR on the scanned buses are
\* enabled, and the kernel sends with the one met last.
THEOREM NetworkEveryCardStarted == Spec => []EveryCardStarted
<1>1. NetworkInv => EveryCardStarted
  <2> SUFFICES ASSUME NetworkInv, pc = "idle" PROVE EveryCardStarted
    BY DEF EveryCardStarted
  <2> USE DEF NetworkInv
  <2>1. ~Scanning /\ slot = 0
    BY DEF ScanInv, InScan
  <2>2. bus = BusLimit /\ BusLimit \in Nat
    BY <2>1, Constants DEF Scanning, Types, TypeOK
  <2>3. ASSUME NEW c \in Cards PROVE Before(c, Here) <=> c[1] < BusLimit
    <3>1. c[1] \in Nat /\ c[2] \in 0 .. Slots - 1 /\ Slots \in Nat
      BY Constants
    <3> QED BY <2>1, <2>2, <3>1 DEF Before, Here
  <2>4. Met = Wanted /\ Met \subseteq Cards
    BY <2>3 DEF Met, Wanted, Types
  <2>5. {c \in Cards : nic[c].te /\ nic[c].re} = Wanted
    BY <2>4 DEF ScanInv
  <2>6. {c \in Cards : Stored(c)} = {c \in Wanted : ~\E d \in Wanted : Before(c, d)}
    BY <2>4 DEF ScanInv
  <2> QED BY <2>5, <2>6 DEF EveryCardStarted, ScanInv
<1> QED BY <1>1, NetworkIsInvariant, PTL

\* While a descriptor belongs to a card, its address does not change, nor a byte
\* behind it that the misplaced receive buffer does not cover: send_packet polls,
\* so nothing but the cards moves.
THEOREM NetworkOwnedIsFrozen == Spec => OwnedIsFrozen
<1> DEFINE Frozen == \A c \in Cards, d \in Descriptors :
             ~nic[c].own[d] /\ ~nic'[c].own[d] =>
               /\ nic'[c].tsad[d] = nic[c].tsad[d]
               /\ \A k \in Bytes : Bus(nic[c].tsad[d] + k) \notin Stray =>
                    Dma(nic[c].tsad[d])'[k] = Dma(nic[c].tsad[d])[k]
<1>1. NetworkInv /\ RxInv /\ [Next]_vars => [Frozen]_vars
  <2> SUFFICES ASSUME NetworkInv, RxInv, Next,
                      NEW c \in Cards, NEW d \in Descriptors, ~nic[c].own[d], ~nic'[c].own[d]
               PROVE  /\ nic'[c].tsad[d] = nic[c].tsad[d]
                      /\ \A k \in Bytes : Bus(nic[c].tsad[d] + k) \notin Stray =>
                           Dma(nic[c].tsad[d])'[k] = Dma(nic[c].tsad[d])[k]
    OBVIOUS
  <2> USE DEF NetworkInv
  <2>1. pc = "wait" /\ Stored(c) /\ d = tx_index
    BY DEF SendInv
  <2>2. \A e \in Cards : Stored(e) => e = c
    BY <2>1, OneIsStored
  <2>3. ~Cpu
    BY <2>1, <2>2 DEF Cpu, At, Scan_other, Init_device_mem, Init_device_io, Reset_complete,
       Set_rx_buffer, Enable, Move, Scan_done, Write_tsad, Write_tsd, Wait, Sent
  <2>4. ~Halt /\ ~\E v \in Buffers : Send(v)
    BY <2>1 DEF Halt, Send, At
  <2>5. PICK e \in Cards : Card(e)
    BY <2>3, <2>4 DEF Next
  <2>6. ~Card_reset(e)
    BY <2>1 DEF Card_reset, ScanInv
  <2>7. ASSUME NEW f \in Descriptors PROVE ~Transmit(e, f)
    <3> SUFFICES ASSUME Transmit(e, f) PROVE FALSE
      OBVIOUS
    <3>1. ~nic[e].own[f]
      BY DEF Transmit
    <3>2. e = c /\ f = d
      BY <2>1, <2>2, <3>1 DEF SendInv
    <3>3. nic[c] \in Regs
      BY DEF Types
    <3>4. nic'[c].own[d]
      BY <3>2, <3>3 DEF Transmit, Types, Regs
    <3> QED BY <3>4
  <2>8. PICK o \in 0 .. RxSpan - PacketLen : Receive(e, o)
    BY <2>5, <2>6, <2>7 DEF Card
  <2>9. /\ memory \in [Ram -> Cells] /\ memory' \in [Ram -> Cells]
        /\ \A a \in Ram \ Stray : memory'[a] = memory[a]
    BY <2>8, ReceiveWrites DEF Types
  <2>10. nic' = nic
    BY <2>8 DEF Receive
  <2>11. ASSUME NEW k \in Bytes, Bus(nic[c].tsad[d] + k) \notin Stray
         PROVE  Dma(nic[c].tsad[d])'[k] = Dma(nic[c].tsad[d])[k]
    BY <2>9, <2>10, <2>11 DEF Dma, Bus
  <2> QED BY <2>10, <2>11
<1> QED BY <1>1, NetworkIsInvariant, PTL DEF Spec, OwnedIsFrozen
=============================================================================
