------------------------------ MODULE Network -------------------------------
(***************************************************************************)
(* The network part of something_os_networking: kernel_main scans the PCI  *)
(* buses (networking/mod.rs); each RTL8139 with an I/O BAR is made bus     *)
(* master and initialised through its ports, and its driver is moved into  *)
(* the global RTL8139 in place of any driver stored before                 *)
(* (networking/rtl8139.rs); then packets are sent through the four         *)
(* transmit descriptors of the card whose driver is stored (main.rs).  The *)
(* cards are external: they reset themselves and read and write physical   *)
(* memory by DMA while the CPU runs.                                       *)
(***************************************************************************)
EXTENDS Integers, Sequences

CONSTANTS
  Slots,      \* the number of slots of a bus, 32
  BusLimit,   \* the end of the range the scan runs over, 255
  Cards,      \* the places <<bus, slot>> where a machine may have its cards
  PageSize,   \* the size of a page, 4096
  PageTable,  \* the frame of each mapped virtual page
  AddrLimit,  \* the end of what a 32 bit DMA address reaches, 2^32
  PacketLen,  \* the length of a packet
  Buffers,    \* the virtual addresses packets are sent from
  RxAt,       \* the virtual address of rx_buffer in the local driver and in RTL8139
  RxSpan,     \* how many bytes from RBSTART on a card fills with packets
  MaxSends    \* bound: how many packets the kernel sends

ASSUME NetworkAssumption ==
  /\ {Slots, BusLimit, PageSize, AddrLimit, PacketLen} \subseteq Nat \ {0}
  /\ PacketLen < 8192  \* a length that the mask 0x1FFF of send_packet keeps
  /\ MaxSends \in Nat
  /\ Cards \subseteq Nat \X (0 .. Slots - 1)
  /\ Buffers \subseteq Nat /\ PageTable \in [DOMAIN PageTable -> Nat]
  /\ \A v \in Buffers, k \in 0 .. PacketLen - 1 : (v + k) \div PageSize \in DOMAIN PageTable
  /\ RxSpan \in Nat /\ RxSpan >= PacketLen
  /\ RxAt \in [{"local", "static"} -> Nat]
  /\ \A p \in {"local", "static"} : RxAt[p] \div PageSize \in DOMAIN PageTable

VARIABLES
  devices,    \* what is plugged in where: <<bus, slot>> to a kind
  bus, slot,  \* the loop counters of the scan
  mastering,  \* the places whose bus mastering and I/O space were enabled
  pc,         \* where the CPU is
  place,      \* where the Rtl8139Driver of a card is
  tx_index,   \* the tx_index of the driver in RTL8139
  given,      \* the addresses of the packets given to send_packet, in order
  memory,     \* physical memory, byte by byte
  nic,        \* the registers of each card
  wire        \* the packets on the wire, in order

vars == <<devices, bus, slot, mastering, pc, place, tx_index, given, memory,
          nic, wire>>
scanVars == <<devices, bus, slot, mastering>>
ramVars  == <<tx_index, given, memory>>

\* An RTL8139 with an I/O or a memory BAR0, or another device.
Kinds       == {"rtl8139_io", "rtl8139_mem", "other"}
Descriptors == 0 .. 3
Bytes       == 0 .. PacketLen - 1
Packet(i)   == [k \in Bytes |-> <<i, k>>]  \* the i-th packet: all bytes differ
Clear       == <<0, 0>>
Arrived     == <<0, 1>>  \* a byte of a packet from the network

\* A card after a reset: nothing enabled, no descriptor waiting.
ResetRegs ==
  [rst |-> FALSE, te |-> FALSE, re |-> FALSE, rbstart |-> 0,
   tsad |-> [d \in Descriptors |-> 0], own |-> [d \in Descriptors |-> TRUE]]

-----------------------------------------------------------------------------
(***************************************************************************)
(* Addresses.                                                              *)
(***************************************************************************)
Phys(v) == (PageTable[v \div PageSize] * PageSize) + (v % PageSize)

\* Mutation: the pages are taken to be mapped to themselves.
Mut_Virt_to_phys(v) == v

\* virt_to_phys_u32: the address of the first byte, cut to 32 bits.  It is
\* mapped, the packet has just been written there.
Virt_to_phys(v) == Phys(v) % AddrLimit

\* A card counts its addresses in 32 bits.
Bus(a) == a % AddrLimit

\* The bytes a card reads from address a on.
Dma(a) == [k \in Bytes |-> IF Bus(a + k) \in DOMAIN memory THEN memory[Bus(a + k)] ELSE Clear]

Init ==
  /\ devices \in UNION {[C -> Kinds] : C \in SUBSET Cards}
  /\ bus = 0 /\ slot = 0 /\ mastering = {}
  /\ pc = "scan"
  /\ place = [c \in Cards |-> "none"]
  /\ tx_index = 0 /\ given = << >>
  /\ memory = [a \in {Phys(v + k) : v \in Buffers, k \in Bytes} |-> Clear]
  /\ nic = [c \in Cards |-> ResetRegs]
  /\ wire = << >>

-----------------------------------------------------------------------------
(***************************************************************************)
(* check_network_card and init_device.                                     *)
(***************************************************************************)
At(l)    == pc = l
Here     == <<bus, slot>>
Found(k) == Here \in DOMAIN devices /\ devices[Here] = k

Mut_Scanning == bus < BusLimit - 1  \* Mutation: the range ends too early.

Scanning == bus < BusLimit

\* The two loops.
Advance ==
  IF slot < Slots - 1
    THEN slot' = slot + 1 /\ bus' = bus
    ELSE slot' = 0 /\ bus' = bus + 1

\* No RTL8139 here.
Scan_other ==
  /\ At("scan") /\ Scanning
  /\ Here \notin DOMAIN devices \/ Found("other")
  /\ Advance
  /\ UNCHANGED <<devices, mastering, pc, place, nic, ramVars, wire>>

\* init_device for a card with a memory BAR: it stays a bus master.
Init_device_mem ==
  /\ At("scan") /\ Scanning /\ Found("rtl8139_mem")
  /\ mastering' = mastering \cup {Here}
  /\ Advance
  /\ UNCHANGED <<devices, pc, place, nic, ramVars, wire>>

\* init_device for a card with an I/O BAR, up to the reset that init requests.
Init_device_io ==
  /\ At("scan") /\ Scanning /\ Found("rtl8139_io")
  /\ mastering' = mastering \cup {Here}
  /\ place' = [place EXCEPT ![Here] = "local"]
  /\ tx_index' = 0
  /\ nic' = [nic EXCEPT ![Here].rst = TRUE]
  /\ pc' = "reset"
  /\ UNCHANGED <<devices, bus, slot, given, memory, wire>>

\* The loop ends when the card has cleared the bit.
Reset_complete ==
  /\ At("reset") /\ ~nic[Here].rst
  /\ pc' = "rx"
  /\ UNCHANGED <<scanVars, place, nic, ramVars, wire>>

\* Steps 2 to 4: the receive buffer, the filters and the interrupt mask.  What
\* RBSTART gets is the virtual address of the field, where the driver is at
\* this moment, cut to 32 bits: as_ptr() as u32 translates nothing.
Set_rx_buffer ==
  /\ At("rx")
  /\ nic' = [nic EXCEPT ![Here].rbstart = RxAt[place[Here]] % AddrLimit]
  /\ pc' = "enable"
  /\ UNCHANGED <<scanVars, place, ramVars, wire>>

Mut_Enabled(r) == [r EXCEPT !.re = TRUE]  \* Mutation: only the receiver.

\* The value 0x0C of the command register.
Enabled(r) == [r EXCEPT !.te = TRUE, !.re = TRUE]

\* Step 5.
Enable ==
  /\ At("enable")
  /\ nic' = [nic EXCEPT ![Here] = Enabled(@)]
  /\ pc' = "move"
  /\ UNCHANGED <<scanVars, place, ramVars, wire>>

\* *RTL8139.lock() = Some(driver), which drops the driver stored there.
Move ==
  /\ At("move")
  /\ place' = [c \in Cards |-> IF c = Here THEN "static"
                               ELSE IF place[c] = "static" THEN "dropped" ELSE place[c]]
  /\ Advance
  /\ pc' = "scan"
  /\ UNCHANGED <<devices, mastering, nic, ramVars, wire>>

Scan_done ==
  /\ At("scan") /\ ~Scanning
  /\ pc' = "idle"
  /\ UNCHANGED <<scanVars, place, nic, ramVars, wire>>

-----------------------------------------------------------------------------
(***************************************************************************)
(* kernel_main with a driver in RTL8139, and send_packet.                  *)
(***************************************************************************)
Stored(c) == place[c] = "static"

\* kernel_main writes a packet at v and calls send_packet.
Send(v) ==
  /\ At("idle") /\ (\E c \in Cards : Stored(c)) /\ Len(given) < MaxSends
  /\ given' = Append(given, v)
  /\ memory' = [a \in DOMAIN memory |->
                  IF \E k \in Bytes : a = Phys(v + k)
                    THEN Packet(Len(given'))[CHOOSE k \in Bytes : a = Phys(v + k)]
                    ELSE memory[a]]
  /\ pc' = "tsad"
  /\ UNCHANGED <<scanVars, place, tx_index, nic, wire>>

Write_tsad(c) ==
  /\ At("tsad") /\ Stored(c)
  /\ nic' = [nic EXCEPT ![c].tsad[tx_index] = Virt_to_phys(given[Len(given)])]
  /\ pc' = "tsd"
  /\ UNCHANGED <<scanVars, place, ramVars, wire>>

\* Writing the length, all of which the mask 0x1FFF keeps, clears bit 13 and
\* hands the descriptor to the card.
Write_tsd(c) ==
  /\ At("tsd") /\ Stored(c)
  /\ nic' = [nic EXCEPT ![c].own[tx_index] = FALSE]
  /\ pc' = "wait"
  /\ UNCHANGED <<scanVars, place, ramVars, wire>>

Mut_Sent(c) == TRUE  \* Mutation: send_packet does not wait.

\* Bit 13 of the status: the card has sent the packet.
Sent(c) == nic[c].own[tx_index]

Mut_Next_tx == tx_index + 1  \* Mutation: no modulus.

Next_tx == (tx_index + 1) % 4

\* The end of the polling loop, and of send_packet.
Wait(c) ==
  /\ At("wait") /\ Stored(c) /\ Sent(c)
  /\ tx_index' = Next_tx
  /\ pc' = "idle"
  /\ UNCHANGED <<scanVars, place, given, memory, nic, wire>>

\* kernel_main halts, with all packets sent or with no driver to send with.
Halt ==
  /\ At("idle")
  /\ Len(given) = MaxSends \/ ~\E c \in Cards : Stored(c)
  /\ UNCHANGED vars

Cpu ==
  \/ Scan_other \/ Init_device_mem \/ Init_device_io
  \/ Reset_complete \/ Set_rx_buffer \/ Enable \/ Move \/ Scan_done
  \/ \E c \in Cards : Write_tsad(c) \/ Write_tsd(c) \/ Wait(c)

-----------------------------------------------------------------------------
(***************************************************************************)
(* The cards.                                                              *)
(***************************************************************************)
Card_reset(c) ==
  /\ nic[c].rst
  /\ nic' = [nic EXCEPT ![c] = ResetRegs]
  /\ UNCHANGED <<scanVars, pc, place, ramVars, wire>>

\* A card that may use the bus reads the packet of a descriptor and sends it.
Transmit(c, d) ==
  /\ c \in mastering /\ nic[c].te /\ ~nic[c].own[d]
  /\ wire' = Append(wire, Dma(nic[c].tsad[d]))
  /\ nic' = [nic EXCEPT ![c].own[d] = TRUE]
  /\ UNCHANGED <<scanVars, pc, place, ramVars>>

\* A packet arrives, and the card writes it o bytes behind RBSTART: to physical
\* memory, whatever is there.
Receive(c, o) ==
  /\ c \in mastering /\ nic[c].re
  /\ memory' = [a \in DOMAIN memory |->
                  IF \E k \in Bytes : a = Bus(nic[c].rbstart + o + k) THEN Arrived ELSE memory[a]]
  /\ UNCHANGED <<scanVars, pc, place, tx_index, given, nic, wire>>

Card(c) ==
  \/ Card_reset(c)
  \/ \E d \in Descriptors : Transmit(c, d)
  \/ \E o \in 0 .. RxSpan - PacketLen : Receive(c, o)

Next == Cpu \/ Halt \/ (\E v \in Buffers : Send(v)) \/ (\E c \in Cards : Card(c))

Spec == Init /\ [][Next]_vars

\* The CPU executes, and the cards carry out what they are told to.
FairSpec ==
  /\ Spec /\ WF_vars(Cpu)
  /\ \A c \in Cards : /\ WF_vars(Card_reset(c))
                      /\ \A d \in Descriptors : WF_vars(Transmit(c, d))

-----------------------------------------------------------------------------
\* Every variable stays within the values the code gives it.
TypeOK ==
  /\ bus \in 0 .. BusLimit /\ slot \in 0 .. Slots - 1
  /\ mastering \subseteq DOMAIN devices
  /\ pc \in {"scan", "reset", "rx", "enable", "move", "idle", "tsad", "tsd", "wait"}
  /\ place \in [Cards -> {"none", "local", "static", "dropped"}]
  /\ tx_index \in Descriptors
  /\ given \in Seq(Buffers) /\ Len(given) <= MaxSends

\* A packet that a card can read from one 32 bit address: its frames follow
\* each other below 4 GiB.  virt_to_phys_u32 does not ensure it, so the caller
\* has to.
Reachable(v) ==
  \A k \in Bytes : Phys(v + k) = Phys(v) + k /\ Phys(v) + k < AddrLimit

\* The physical memory that the cards fill with what they receive: it begins at
\* the virtual address that Set_rx_buffer took for a physical one.
Stray == {Bus((RxAt["local"] % AddrLimit) + j) : j \in 0 .. RxSpan - 1}

\* A packet that no received packet is written over.  init does not ensure it,
\* and the caller cannot.
Undisturbed(v) == \A k \in Bytes : Phys(v + k) \notin Stray

\* What goes over the wire is what the kernel gave to send_packet, each packet
\* once and in order, although descriptors and buffers are reused, and every
\* packet that lies where a card can reach it, and where packets that arrive
\* meanwhile are not written over it, goes out byte for byte, whichever of
\* several cards has the driver and wherever the buffer is mapped.
WireIsGiven ==
  /\ Len(wire) <= Len(given)
  /\ \A i \in 1 .. Len(wire) :
       Reachable(given[i]) /\ Undisturbed(given[i]) => wire[i] = Packet(i)

\* When send_packet returns, the packet is out: the caller may reuse its
\* buffer, which lives on the stack of kernel_main.
SentOnReturn == pc = "idle" => Len(wire) = Len(given)

\* From the write to the status register until the card has sent the packet,
\* neither the address in the descriptor nor a byte behind it changes: not by a
\* later send_packet that comes round to the same descriptor, nor by one from
\* the same buffer, nor by a buffer on the same frame; and what arrives changes
\* only the bytes that the misplaced receive buffer covers.
OwnedIsFrozen ==
  [][\A c \in Cards, d \in Descriptors :
       ~nic[c].own[d] /\ ~nic'[c].own[d] =>
         /\ nic'[c].tsad[d] = nic[c].tsad[d]
         /\ \A k \in Bytes : Bus(nic[c].tsad[d] + k) \notin Stray =>
              Dma(nic[c].tsad[d])'[k] = Dma(nic[c].tsad[d])[k]]_vars

\* The scan completes, and every call of send_packet returns.
SendReturns ==
  /\ <>(pc = "idle")
  /\ pc = "tsad" ~> pc = "idle"

\* The cards the scan should start, and the order in which it meets them.
Wanted       == {c \in DOMAIN devices : devices[c] = "rtl8139_io" /\ c[1] < BusLimit}
Before(c, d) == c[1] < d[1] \/ (c[1] = d[1] /\ c[2] < d[2])

\* After the scan exactly the RTL8139s with an I/O BAR on the scanned buses are
\* enabled, no other kind of device was made bus master, and the kernel sends
\* with the card met last, if there is any.
EveryCardStarted ==
  pc = "idle" =>
    /\ {c \in Cards : nic[c].te /\ nic[c].re} = Wanted
    /\ \A c \in mastering : devices[c] # "other"
    /\ {c \in Cards : Stored(c)} = {c \in Wanted : ~\E d \in Wanted : Before(c, d)}

\* mod.rs:14, "Quét qua các Bus (0-255) và Slot thiết bị (0-31)" (scan the
\* buses 0-255 and the slots 0-31): no card is overlooked.
AllBusesScanned ==
  pc = "idle" =>
    \A c \in DOMAIN devices : devices[c] = "rtl8139_io" => place[c] # "none"

\* rtl8139.rs:110-111, "bạn PHẢI chuyển đổi địa chỉ ảo này sang địa chỉ vật lý
\* tương ứng" (with paging on, you MUST convert this virtual address to the
\* physical one), and rtl8139.rs:115, "Ghi địa chỉ vùng nhớ nhận dữ liệu vào
\* thanh ghi RBSTART" (write the address of the receive memory to RBSTART):
\* what a card receives goes to the physical memory of the rx_buffer of its
\* driver, wherever the driver is by then.
ReceivesIntoDriver ==
  \A c \in mastering : nic[c].re =>
    place[c] \in DOMAIN RxAt /\ nic[c].rbstart = Phys(RxAt[place[c]])
=============================================================================
